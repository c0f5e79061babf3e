--------------------------- MODULE AsyncWebSocket ---------------------------
(***************************************************************************)
(* AsyncWebSocket.cpp: the clients of one WebSocket, their queues of control *)
(* frames and of messages, and the buffers that a broadcast shares among     *)
(* them.  The callbacks of a connection run in the task of AsyncTCP, the     *)
(* broadcast in the task of the sketch: it stops between two clients.        *)
(* A message is a number, and of its bytes only how many there are matters.  *)
(***************************************************************************)
EXTENDS Integers, Sequences, FiniteSets, SequencesExt

CONSTANTS
  N,           \* connections that become clients, numbered as they come (a bound)
  Ventana,     \* send buffer of a connection (TCP_SND_BUF, 5744)
  Margen,      \* what a frame leaves of it (8)
  Corto,       \* first length that has a header of four bytes (126)
  Modulo,      \* size_t and uint32_t wrap here (2^32)
  ColaMax,     \* WS_MAX_QUEUED_MESSAGES (32)
  MaxClientes, \* argument of cleanupClients()
  Largos,      \* lengths of the messages
  LargosControl, \* lengths of what a control frame carries
  Partes,      \* sizes of the acks that are not of all that was sent
  MensajesMax, ControlMax \* messages and control frames in all (bounds)

ASSUME AsyncWebSocketAssumption ==
  /\ {Ventana, Margen, Corto, Modulo, ColaMax, MaxClientes} \subseteq Nat \ {0}
  /\ {N, MensajesMax, ControlMax} \subseteq Nat
  /\ Largos \cup LargosControl \cup Partes \subseteq Nat
  /\ 2 * Ventana < Modulo /\ \A l \in LargosControl : l < Corto

VARIABLES
  clientes,  \* _clients, in the order they came
  cl,        \* AsyncWebSocketClient of each connection, and its connection
  bufs,      \* _buffers: those not deleted, message -> _lock
  creados,   \* messages so far
  cursor,    \* of textAll(): its message and the client it is at
  tramas     \* control frames so far

wsvars == <<clientes, cl, bufs, creados, cursor, tramas>>

Clientes == 1..N
Nadie == 0
Hecho == N + 1
Quieto == [n |-> 0, largo |-> 0, en |-> Nadie]
Ninguna == [op |-> "", largo |-> 0, leido |-> 0]
SinPar == [de |-> 0, van |-> 0, hechos |-> {}, mal |-> FALSE]
Cliente0 == [est |-> "no", control |-> <<>>, mensajes |-> <<>>, vuelo |-> 0, porAvisar |-> 0,
             trama |-> Ninguna,
             par |-> SinPar, descuadre |-> FALSE]
Fuera == [Cliente0 EXCEPT !.est = "fuera"]
Vivo(c) == cl[c].est \in {"CONNECTED", "DISCONNECTING"}
Activo(c) == Vivo(c) /\ ~cl[c].descuadre

WsInit ==
  /\ clientes = <<>> /\ cl = [c \in Clientes |-> Cliente0]
  /\ bufs = <<>> /\ creados = 0 /\ cursor = Quieto /\ tramas = 0

-----------------------------------------------------------------------------
\* The peer: it puts together the messages whose frames arrive.
Recibe(p, f) ==
  IF f.op = "CONTROL" THEN p
  ELSE LET sigue == IF f.op = "CONTINUATION" THEN p.de = f.n /\ p.van = f.desde
                    ELSE p.de = 0 /\ f.desde = 0
           van == f.desde + f.largo
       IN  [de     |-> IF f.fin THEN 0 ELSE f.n,
            van    |-> IF f.fin THEN 0 ELSE van,
            hechos |-> IF f.fin THEN p.hechos \cup {f.n} ELSE p.hechos,
            mal    |-> p.mal \/ ~sigue \/ (f.fin /\ (van # f.total \/ f.n \in p.hechos))]

\* space(), webSocketSendFrameWindow(), webSocketSendFrame()
Espacio(k) == Ventana - k.vuelo
VentanaDeTrama(k) == IF Espacio(k) <= Margen THEN 0 ELSE Espacio(k) - Margen
CabeceraDe(n) == IF n < Corto THEN 2 ELSE 4
EnviarTrama(k, f) ==
  [k EXCEPT !.vuelo = @ + CabeceraDe(f.largo) + f.largo, !.par = Recibe(@, f)]

\* AsyncWebSocketControl
Control(op, n) == [op |-> op, largo |-> n, ido |-> FALSE]
Talla(x) == x.largo + 2
EnviarControl(k) ==
  LET x == Head(k.control)
  IN  [EnviarTrama(k, [op |-> "CONTROL", fin |-> TRUE, n |-> 0, desde |-> 0, largo |-> x.largo, total |-> x.largo])
         EXCEPT !.control[1].ido = TRUE,
                !.descuadre = @ \/ x.ido]

\* AsyncWebSocketBasicMessage (comun = FALSE) and AsyncWebSocketMultiMessage; acabado
\* is _status = WS_MSG_SENT.
Mensaje(n, l, comun) == [n |-> n, largo |-> l, comun |-> comun, sent |-> 0, ack |-> 0, acked |-> 0, acabado |-> FALSE]
EntreTramas(m) == m.acked = m.ack
\* The mutant takes a message whose frames so far were acked for one that is finished.
Confirmado_SinResto(m, len) ==
  LET a == (m.acked + len) % Modulo
  IN  [m EXCEPT !.acked = a, !.acabado = @ \/ (IF m.comun THEN a >= m.ack ELSE a = m.ack)]
Confirmado(m, len) ==
  LET a == (m.acked + len) % Modulo
      fin == m.sent = m.largo /\ (IF m.comun THEN a >= m.ack ELSE a = m.ack)
  IN  [m EXCEPT !.acked = a, !.acabado = @ \/ fin]

\* What the acks of a frame come to.  The mutant forgets its header.
PorConfirmar_SinCabecera(n) == n
PorConfirmar(n) == n + CabeceraDe(n)
\* send(): the next frame of the message, as long as the window.
EnviarMensaje(k) ==
  LET m == Head(k.mensajes)
      l == m.largo
      w == VentanaDeTrama(k)
      n == IF w < l - m.sent THEN w ELSE l - m.sent
      m2 == [m EXCEPT !.sent = @ + n, !.ack = @ + PorConfirmar(n)]
      f == [op |-> IF n > 0 /\ m.sent = 0 THEN "TEXT" ELSE "CONTINUATION",
            fin |-> m.sent + n = l, n |-> m.n, desde |-> m.sent, largo |-> n, total |-> l]
  IN  IF m.acabado \/ m.acked < m.ack THEN k
      ELSE IF m.sent = l
      THEN [k EXCEPT !.mensajes[1].acabado = m.comun \/ EntreTramas(m)]
      ELSE [EnviarTrama(k, f) EXCEPT !.mensajes[1] = m2]

\* _runQueue()
SinAcabados(ms) ==
  LET i == SelectInSeq(ms, LAMBDA m : ~m.acabado)
  IN  IF i = 0 THEN <<>> ELSE SubSeq(ms, i, Len(ms))
Despachar(k) ==
  LET entre == k.mensajes # <<>> /\ EntreTramas(Head(k.mensajes))
  IN  IF k.control # <<>> /\ (k.mensajes = <<>> \/ entre)
         /\ VentanaDeTrama(k) > Talla(Head(k.control)) - 1
      THEN EnviarControl(k)
      ELSE IF entre /\ VentanaDeTrama(k) > 0 THEN EnviarMensaje(k)
      ELSE k
RunQueue(k) == Despachar([k EXCEPT !.mensajes = SinAcabados(@)])

SiCabe(k) == IF Espacio(k) > 0 THEN RunQueue(k) ELSE k
QueueMessage(k, m) ==
  IF k.est # "CONNECTED" THEN k
  ELSE SiCabe(IF Len(k.mensajes) >= ColaMax THEN k ELSE [k EXCEPT !.mensajes = Append(@, m)])
QueueControl(k, x) == SiCabe([k EXCEPT !.control = Append(@, x)])

-----------------------------------------------------------------------------
\* _cleanBuffers() goes on from the node that it has deleted: it removes the first
\* buffer that nobody uses or locks, and more or not.
EnUso(n, d) == \E c \in Clientes : \E i \in 1..Len(d[c].mensajes) :
                 d[c].mensajes[i].comun /\ d[c].mensajes[i].n = n
Limpios(b, d) ==
  LET libres == {n \in DOMAIN b : ~b[n] /\ ~EnUso(n, d)}
      sin(x) == [n \in DOMAIN b \ {y \in libres : y <= x} |-> b[n]]
  IN  IF libres = {} THEN {b} ELSE {sin(x) : x \in libres}

\* _onDisconnect(), of a connection that was lost or that this side closes.
SeVa(c) ==
  /\ cursor.en # c    \* the node that textAll() is at stays: see the README
  /\ clientes' = RemoveFirst(clientes, c)
  /\ cl' = [cl EXCEPT ![c] = Fuera]

\* AsyncWebSocketResponse::_ack() and the constructor: the first ack of the response
\* makes the client.  It is taken to be of all of the response.
Conectar(c) ==
  /\ cl[c].est = "no" /\ \A x \in 1..c - 1 : cl[x].est # "no"
  /\ clientes' = Append(clientes, c)
  /\ cl' = [cl EXCEPT ![c] = [@ EXCEPT !.est = "CONNECTED"]]
  /\ UNCHANGED <<bufs, creados, cursor, tramas>>

\* An ack is of all there is, or of a part.
Tajos(n) == {x \in {n} \cup Partes : 0 < x /\ x <= n}

\* lwIP has an ack: there is more space before _onAck() hears of it.
Acuse(c) ==
  /\ Vivo(c)
  /\ \E n \in Tajos(cl[c].vuelo) :
       cl' = [cl EXCEPT ![c].vuelo = @ - n, ![c].porAvisar = @ + n]
  /\ UNCHANGED <<clientes, bufs, creados, cursor, tramas>>

\* _onAck(): what is acked is first that of the control frame, if one was sent.
ConAck(k, n) ==
  LET x == Head(k.control)
      quita == k.control # <<>> /\ x.ido
      resto == IF quita THEN (n - Talla(x)) % Modulo ELSE n
      k1 == [k EXCEPT !.porAvisar = @ - n,
                      !.control = IF quita THEN Tail(@) ELSE @,
                      !.descuadre = @ \/ (quita /\ n < Talla(x))]
  IN  IF resto = 0 \/ k.mensajes = <<>> THEN k1
      ELSE [k1 EXCEPT !.mensajes[1] = Confirmado(@, resto)]
CierraConAck(k) ==
  k.est = "DISCONNECTING" /\ k.control # <<>> /\ Head(k.control).ido /\ Head(k.control).op = "DISCONNECT"
OnAck(c) ==
  /\ Vivo(c) /\ cl[c].porAvisar > 0
  /\ IF CierraConAck(cl[c]) THEN SeVa(c) /\ UNCHANGED bufs
     ELSE /\ \E n \in Tajos(cl[c].porAvisar) : cl' = [cl EXCEPT ![c] = RunQueue(ConAck(@, n))]
          /\ bufs' \in Limpios(bufs, cl)
          /\ UNCHANGED clientes
  /\ UNCHANGED <<creados, cursor, tramas>>

OnPoll(c) ==
  /\ Activo(c) /\ Espacio(cl[c]) > 0 /\ (cl[c].control # <<>> \/ cl[c].mensajes # <<>>)
  /\ cl' = [cl EXCEPT ![c] = RunQueue(@)]
  /\ UNCHANGED <<clientes, bufs, creados, cursor, tramas>>

\* _onTimeout(), an error of lwIP, the end of the connection by the peer.
Perder(c) == Vivo(c) /\ SeVa(c) /\ UNCHANGED <<bufs, creados, cursor, tramas>>

\* _onData(), control frames of the peer.  The first piece of one that comes in two
\* is left to the sketch, and the answer is to the second.
Responder(c, op, n) ==
  LET k == [cl[c] EXCEPT !.trama = Ninguna]
  IN  IF op = "DISCONNECT" /\ k.est = "DISCONNECTING" THEN SeVa(c)
      ELSE /\ cl' = [cl EXCEPT ![c] =
                IF op = "PING" THEN QueueControl(k, Control("PONG", n))
                ELSE QueueControl([k EXCEPT !.est = "DISCONNECTING"], Control("DISCONNECT", n))]
           /\ UNCHANGED clientes
OnData(c, op, n, parte) ==
  /\ Activo(c) /\ tramas < ControlMax /\ cl[c].trama = Ninguna
  /\ IF parte = n THEN Responder(c, op, n)
     ELSE cl' = [cl EXCEPT ![c].trama = [op |-> op, largo |-> n, leido |-> parte]] /\ UNCHANGED clientes
  /\ tramas' = tramas + 1 /\ UNCHANGED <<bufs, creados, cursor>>
OnDataResto(c) ==
  /\ Vivo(c) /\ cl[c].trama # Ninguna
  /\ Responder(c, cl[c].trama.op, cl[c].trama.largo - cl[c].trama.leido)
  /\ UNCHANGED <<bufs, creados, cursor, tramas>>

-----------------------------------------------------------------------------
\* What the sketch calls.
Nuevo == creados + 1
Text(c, l) ==
  /\ Activo(c) /\ cl[c].est = "CONNECTED" /\ Nuevo <= MensajesMax
  /\ creados' = Nuevo
  /\ cl' = [cl EXCEPT ![c] = QueueMessage(@, Mensaje(Nuevo, l, FALSE))]
  /\ UNCHANGED <<clientes, bufs, cursor, tramas>>

\* textAll(): makeBuffer() puts the buffer among the others, not locked yet; then it is
\* locked before it goes to the first client and unlocked after the last.  One that
\* _cleanBuffers() took in between is used all the same: the model goes no further
\* with it.  The mutant does not lock it.
MakeBuffer(l) ==
  /\ cursor = Quieto /\ clientes # <<>> /\ Nuevo <= MensajesMax
  /\ creados' = Nuevo
  /\ bufs' = [n \in DOMAIN bufs \cup {Nuevo} |-> n \in DOMAIN bufs /\ bufs[n]]
  /\ cursor' = [n |-> Nuevo, largo |-> l, en |-> Hecho]
  /\ UNCHANGED <<clientes, cl, tramas>>
Cerrado_Nunca(b, n) == b
Cerrado(b, n) == [b EXCEPT ![n] = TRUE]
TextAll ==
  /\ cursor.en = Hecho
  /\ IF cursor.n \in DOMAIN bufs
     THEN /\ bufs' = Cerrado(bufs, cursor.n)
          /\ cursor' = [cursor EXCEPT !.en = IF clientes = <<>> THEN Nadie ELSE Head(clientes)]
     ELSE cursor' = Quieto /\ UNCHANGED bufs
  /\ UNCHANGED <<clientes, cl, creados, tramas>>
Siguiente == LET i == SelectInSeq(clientes, LAMBDA x : x = cursor.en)
             IN  IF i = Len(clientes) THEN Nadie ELSE clientes[i + 1]
TextAllCliente ==
  /\ cursor.en \in Clientes
  /\ cl' = [cl EXCEPT ![cursor.en] = QueueMessage(@, Mensaje(cursor.n, cursor.largo, TRUE))]
  /\ cursor' = [cursor EXCEPT !.en = Siguiente]
  /\ UNCHANGED <<clientes, bufs, creados, tramas>>
TextAllFin ==
  /\ cursor.n # 0 /\ cursor.en = Nadie
  /\ bufs' \in Limpios([bufs EXCEPT ![cursor.n] = FALSE], cl)
  /\ cursor' = Quieto
  /\ UNCHANGED <<clientes, cl, creados, tramas>>

Ping(c, n) ==
  /\ Activo(c) /\ cl[c].est = "CONNECTED" /\ tramas < ControlMax
  /\ cl' = [cl EXCEPT ![c] = QueueControl(@, Control("PING", n))]
  /\ tramas' = tramas + 1 /\ UNCHANGED <<clientes, bufs, creados, cursor>>
Close(c, n) ==
  /\ Activo(c) /\ cl[c].est = "CONNECTED" /\ tramas < ControlMax
  /\ cl' = [cl EXCEPT ![c] = QueueControl(@, Control("DISCONNECT", n))]
  /\ tramas' = tramas + 1 /\ UNCHANGED <<clientes, bufs, creados, cursor>>
\* count() and cleanupClients(): the oldest client, whatever its state.
Cuantos == Cardinality({c \in Clientes : cl[c].est = "CONNECTED"})
CleanupClients == Cuantos > MaxClientes /\ Close(Head(clientes), 0)

WsFin == cursor = Quieto /\ (\A c \in Clientes : cl[c].est # "no") /\ UNCHANGED wsvars

WsNext ==
  \/ \E c \in Clientes :
       \/ Conectar(c) \/ Acuse(c) \/ OnAck(c) \/ OnPoll(c) \/ Perder(c) \/ OnDataResto(c)
       \/ \E op \in {"PING", "DISCONNECT"}, n \in LargosControl : \E parte \in 0..n : OnData(c, op, n, parte)
       \/ \E l \in Largos : Text(c, l)
       \/ \E n \in LargosControl : Ping(c, n) \/ Close(c, n)
  \/ \E l \in Largos : MakeBuffer(l)
  \/ TextAll \/ TextAllCliente \/ TextAllFin \/ CleanupClients
  \/ WsFin

\* What is in flight is acked or lost, an ack is told, lwIP polls, the rest of a frame
\* comes, and the sketch goes on.  The weak fairness of Acuse or Perder, OnAck, OnPoll,
\* OnDataResto, TextAll, TextAllCliente and TextAllFin, with what enables each of them written
\* out: TLC would look for it in every state.
WsJusticia ==
  /\ \A c \in Clientes :
       /\ []<>(cl[c].vuelo = 0) \/ []<><<cl'[c].porAvisar > cl[c].porAvisar>>_cl
       /\ []<>(cl[c].porAvisar = 0 \/ cursor.en = c) \/ []<><<cl'[c].porAvisar < cl[c].porAvisar>>_cl
       /\ \/ []<>(~Activo(c) \/ Espacio(cl[c]) = 0 \/ RunQueue(cl[c]) = cl[c])
          \/ []<><<cl'[c] # cl[c] /\ cl'[c] = RunQueue(cl[c])>>_cl
       /\ []<>(cl[c].trama = Ninguna \/ cursor.en = c)
  /\ []<>(cursor = Quieto)
WsSpec == WsInit /\ [][WsNext]_wsvars /\ WsJusticia

-----------------------------------------------------------------------------
\* However the acks cut the window, each message reaches the peer as its first
\* frame, continuations behind one another and a last one, with no other message
\* between them, all of it and once (AsyncWebSocket.cpp:312-356, 408-457), and is
\* only taken off the queue of a client that stays after that.
MensajesEnteros ==
  /\ [](\A c \in Clientes : ~cl[c].par.mal)
  /\ [][\A c \in Clientes : \A i \in 1..Len(cl[c].mensajes) :
          LET n == cl[c].mensajes[i].n
          IN  Vivo(c)' => \/ cl[c].mensajes[i].largo = 0 \/ n \in cl'[c].par.hechos
                          \/ \E j \in 1..Len(cl'[c].mensajes) : cl'[c].mensajes[j].n = n]_wsvars

\* No message of a queue, and none that textAll() is about to queue, is of a buffer
\* that was deleted: _cleanBuffers() runs in the callbacks of other clients while
\* textAll() goes from one to the next (AsyncWebSocket.cpp:948-958, 1220-1229).  Not so
\* of a buffer that was made and not locked yet: that one they may delete.
BufferVivo ==
  /\ cursor.n # 0 /\ cursor.en # Hecho => cursor.n \in DOMAIN bufs
  /\ \A c \in Clientes : \A i \in 1..Len(cl[c].mensajes) :
       cl[c].mensajes[i].comun => cl[c].mensajes[i].n \in DOMAIN bufs

\* Whatever waits in the queues of a client is sent and acked, or the client is gone,
\* and one whose peer has closed is gone.  Not so once the count of acked bytes is
\* not that of the frames: a control frame was sent again before its ack
\* (AsyncWebSocket.cpp:531-532) or was acked in parts.
ColasAvanzan ==
  \A c \in Clientes :
    []<>(cl[c].descuadre \/ ~Vivo(c)
         \/ (cl[c].control = <<>> /\ cl[c].mensajes = <<>> /\ cl[c].est # "DISCONNECTING"))
=============================================================================
