----------------------------- MODULE WsServidor -----------------------------
(***************************************************************************)
(* WebSocketsServer.cpp and WebSockets.cpp, the server behind the panel:    *)
(* a fixed array of client slots that loop() serves in turn, on one thread. *)
(* fase and ranura say where the thread is: accepting (handleNewClients),   *)
(* then for every slot the data, ping and timeout parts of                  *)
(* handleClientData, then the rest of the sketch, which may broadcast.      *)
(* Each step runs at most one callback.  The network may lose a connection  *)
(* between any two steps.                                                   *)
(***************************************************************************)
EXTENDS Integers, Sequences, FiniteSetsExt

CONSTANTS
  NumRanuras,     \* WEBSOCKETS_SERVER_CLIENT_MAX (5)
  Conexiones,     \* TCP connections that can exist at once
  Nulo,           \* no connection
  Campos,         \* header fields that an upgrade needs
  Fijan,          \* what lines of a header, one or some together, set of them
  Quedan,         \* those that clientDisconnect() leaves: base64Authorization, of a
                  \* server with setAuthorization()
  Guiones,        \* what a peer may send: header lines, "fin", then frames, whose
                  \* kind is chosen when they arrive
  PingIntervalo, PongPlazo,  \* heartbeat, in units of time
  Limite,         \* disconnectTimeoutCount
  ModCuenta       \* pongTimeoutCount is a uint8_t: it counts modulo this

Ranuras == 0..(NumRanuras - 1)

ASSUME RanurasAssumption == NumRanuras \in Nat \ {0} /\ Nulo \notin Conexiones
ASSUME GuionesAssumption == 
  /\ Quedan \subseteq Campos /\ \A l \in DOMAIN Fijan : Fijan[l] \subseteq Campos
  /\ Guiones \subseteq Seq(DOMAIN Fijan \cup {"fin", "trama"})
ASSUME LatidoAssumption ==
  /\ PingIntervalo \in Nat \ {0} /\ PongPlazo \in Nat /\ PongPlazo < PingIntervalo
  /\ ModCuenta \in Nat \ {0} /\ Limite \in 0..(ModCuenta - 1)

VARIABLES
  corriendo, fase, ranura,
  latido,       \* _pingInterval # 0; every slot has a copy of it
  red,          \* per connection: "libre", "viva", "cortada" (connected() is false)
  cola,         \* connections that the listening socket holds
  entrada,      \* per connection: what its peer has still to send
  tcp, status,  \* per slot: WSclient_t
  cab,          \* per slot: the header fields cUrl, cIsUpgrade, ... that are set
  pongRecibido, edad, timeouts, \* per slot: pongReceived, time since lastPing, pongTimeoutCount
  pedidos,      \* history, per connection: fields its own lines have set
  enviado,      \* history, per connection: "nada", "tramas" or, out of order, "mal"
  vista         \* history, per slot: what the callbacks told the sketch

hilo   == <<corriendo, fase, ranura>>
pares  == <<red, cola, entrada, pedidos, enviado>>
cliente == <<tcp, status, cab, vista>>
pulso  == <<pongRecibido, edad, timeouts>>
vars   == <<hilo, latido, pares, cliente, pulso>>

Init ==
  /\ corriendo = TRUE /\ fase = "nuevos" /\ ranura = 0
  /\ latido \in BOOLEAN
  /\ red = [c \in Conexiones |-> "libre"] /\ cola = {}
  /\ entrada = [c \in Conexiones |-> <<>>]
  /\ tcp = [i \in Ranuras |-> Nulo] /\ status = [i \in Ranuras |-> "no"]
  /\ cab = [i \in Ranuras |-> {}]
  /\ pongRecibido = [i \in Ranuras |-> FALSE]
  /\ edad = [i \in Ranuras |-> PingIntervalo + 1]
  /\ timeouts = [i \in Ranuras |-> 0]
  /\ pedidos = [c \in Conexiones |-> {}] /\ enviado = [c \in Conexiones |-> "nada"]
  /\ vista = [i \in Ranuras |-> "libre"]

-----------------------------------------------------------------------------
\* The peers and the network.

Conectar(c, guion) ==
  /\ corriendo /\ red[c] = "libre"
  /\ red' = [red EXCEPT ![c] = "viva"] /\ cola' = cola \cup {c}
  /\ entrada' = [entrada EXCEPT ![c] = guion]
  /\ UNCHANGED <<hilo, latido, pedidos, enviado, cliente, pulso>>

Cortar(c) ==
  /\ red[c] = "viva"
  /\ red' = [red EXCEPT ![c] = "cortada"] /\ entrada' = [entrada EXCEPT ![c] = <<>>]
  /\ UNCHANGED <<hilo, latido, cola, pedidos, enviado, cliente, pulso>>

-----------------------------------------------------------------------------
\* What several operations share.

\* The connection is stopped and deleted: its name can be used again.
Cerradas(cs) ==
  /\ red' = [c \in Conexiones |-> IF c \in cs THEN "libre" ELSE red[c]]
  /\ entrada' = [c \in Conexiones |-> IF c \in cs THEN <<>> ELSE entrada[c]]
  /\ pedidos' = [c \in Conexiones |-> IF c \in cs THEN {} ELSE pedidos[c]]
  /\ enviado' = [c \in Conexiones |-> IF c \in cs THEN "nada" ELSE enviado[c]]

\* runCbEvent(): a session opens once, speaks while it is open, and closes.
Evento(i, tipo) ==
  vista' = [vista EXCEPT ![i] =
              IF tipo = "DISCONNECTED" THEN "libre"
              ELSE IF (tipo = "CONNECTED") = (@ = "libre") THEN "abierta" ELSE "mal"]

\* clientDisconnect(client), which leaves some fields of the header; its mutants drop
\* the connection and no more, or leave the state and all the fields.
ClientDisconnect_SinEvento(i) ==
  /\ Cerradas({tcp[i]})
  /\ tcp' = [tcp EXCEPT ![i] = Nulo] /\ status' = [status EXCEPT ![i] = "no"]
  /\ cab' = [cab EXCEPT ![i] = @ \cap Quedan]
  /\ UNCHANGED vista
ClientDisconnect_SoloTcp(i) ==
  /\ Cerradas({tcp[i]})
  /\ tcp' = [tcp EXCEPT ![i] = Nulo] /\ UNCHANGED <<status, cab>>
  /\ Evento(i, "DISCONNECTED")
Desconectar(i, quedan) ==
  /\ Cerradas({tcp[i]})
  /\ tcp' = [tcp EXCEPT ![i] = Nulo] /\ status' = [status EXCEPT ![i] = "no"]
  /\ cab' = [cab EXCEPT ![i] = @ \cap quedan]
  /\ Evento(i, "DISCONNECTED")
ClientDisconnect(i) == Desconectar(i, Quedan)

\* clientIsConnected(); one that is not, but still has a connection, is cleaned up.
ClientIsConnected(i) == tcp[i] # Nulo /\ red[tcp[i]] = "viva" /\ status[i] # "no"
PorLimpiar(i)        == tcp[i] # Nulo /\ ~ClientIsConnected(i)

\* sendFrame() of an open client.
PuedeEnviar_EnCabecera(i) == ClientIsConnected(i)
PuedeEnviar(i) == ClientIsConnected(i) /\ status[i] = "conectado"

SendFrame(i) ==
  enviado' = [enviado EXCEPT ![tcp[i]] = IF @ = "nada" THEN "mal" ELSE @]

Quieto == UNCHANGED <<cliente, red, entrada, pedidos>>
Siguiente(f, fin) ==
  /\ UNCHANGED corriendo
  /\ IF ranura = NumRanuras - 1 THEN fase' = fin /\ ranura' = 0
                                ELSE fase' = f /\ ranura' = ranura + 1
Ir(f) == fase' = f /\ UNCHANGED <<corriendo, ranura>>

-----------------------------------------------------------------------------
\* handleNewClients(), while (hasClient()).

\* newClient() takes the first slot that is not connected, cleaned up if need
\* be; without one the connection is dropped.  The mutant looks for a slot by its
\* state and not by its connection.
newClient_SinMirarTcp(c) ==
  LET libres == {i \in Ranuras : status[i] # "conectado"}
      i == Min(libres)
  IN  IF libres = {}
      THEN Cerradas({c}) /\ UNCHANGED <<cliente, pulso>>
      ELSE /\ tcp' = [tcp EXCEPT ![i] = c] /\ status' = [status EXCEPT ![i] = "cabecera"]
           /\ pongRecibido' = [pongRecibido EXCEPT ![i] = FALSE]
           /\ edad' = [edad EXCEPT ![i] = 0]
           /\ UNCHANGED <<cab, vista, red, entrada, pedidos, enviado, timeouts>>
newClient(c) ==
  LET libres == {i \in Ranuras : ~ClientIsConnected(i)}
      i == Min(libres)
  IN  IF libres = {}
      THEN Cerradas({c}) /\ UNCHANGED <<cliente, pulso>>
      ELSE /\ Cerradas({tcp[i]})
           /\ tcp' = [tcp EXCEPT ![i] = c] /\ status' = [status EXCEPT ![i] = "cabecera"]
           /\ IF tcp[i] # Nulo
              THEN cab' = [cab EXCEPT ![i] = @ \cap Quedan] /\ Evento(i, "DISCONNECTED")
              ELSE UNCHANGED <<cab, vista>>
           /\ pongRecibido' = [pongRecibido EXCEPT ![i] = FALSE]
           /\ edad' = [edad EXCEPT ![i] = 0]
           /\ UNCHANGED timeouts

handleNewClient(c) ==
  /\ corriendo /\ fase = "nuevos" /\ c \in cola
  /\ cola' = cola \ {c}
  /\ newClient(c)
  /\ UNCHANGED <<hilo, latido>>

FinDeNuevos ==
  /\ corriendo /\ fase = "nuevos" /\ cola = {}
  /\ Ir("datos")
  /\ UNCHANGED <<latido, pares, cliente, pulso>>

-----------------------------------------------------------------------------
\* handleClientData(), slot by slot.

\* No connection, or one that is found lost: nothing else for this slot.
\* The mutant leaves it to whoever meets it next.
SinCliente_SinLimpiar ==
  /\ fase = "datos" /\ ~ClientIsConnected(ranura)
  /\ Quieto /\ UNCHANGED enviado
  /\ Siguiente("datos", "fuera")
  /\ UNCHANGED <<latido, cola, pulso>>
SinCliente ==
  /\ fase = "datos" /\ ~ClientIsConnected(ranura)
  /\ IF PorLimpiar(ranura) THEN ClientDisconnect(ranura) ELSE Quieto /\ UNCHANGED enviado
  /\ Siguiente("datos", "fuera")
  /\ UNCHANGED <<latido, cola, pulso>>

\* Nothing has arrived (yet).
SinDatos ==
  /\ fase = "datos" /\ ClientIsConnected(ranura)
  /\ Ir("ping")
  /\ UNCHANGED <<latido, pares, cliente, pulso>>

Llega(clase) ==
  /\ fase = "datos" /\ ClientIsConnected(ranura)
  /\ entrada[tcp[ranura]] # <<>> /\ Head(entrada[tcp[ranura]]) \in clase
  /\ Ir("ping")
Consumir == entrada' = [entrada EXCEPT ![tcp[ranura]] = Tail(@)]

\* handleHeader(), a line that is not the empty one.
handleHeader ==
  /\ status[ranura] = "cabecera" /\ Llega(DOMAIN Fijan)
  /\ LET dice == Fijan[Head(entrada[tcp[ranura]])] IN
       /\ cab' = [cab EXCEPT ![ranura] = @ \cup dice]
       /\ pedidos' = [pedidos EXCEPT ![tcp[ranura]] = @ \cup dice]
  /\ Consumir
  /\ UNCHANGED <<latido, red, cola, enviado, tcp, status, vista, pulso>>

\* The empty line, with all the fields of an upgrade: handshake, ping, event.
Aceptar ==
  /\ status[ranura] = "cabecera" /\ Llega({"fin"}) /\ cab[ranura] = Campos
  /\ status' = [status EXCEPT ![ranura] = "conectado"]
  /\ enviado' = [enviado EXCEPT ![tcp[ranura]] = "tramas"]
  /\ Evento(ranura, "CONNECTED")
  /\ Consumir
  /\ UNCHANGED <<latido, red, cola, pedidos, tcp, cab, pulso>>

\* handleNonWebsocketConnection()
Rechazar ==
  /\ status[ranura] = "cabecera" /\ Llega({"fin"}) /\ cab[ranura] # Campos
  /\ ClientDisconnect(ranura)
  /\ UNCHANGED <<latido, cola, pulso>>

\* handleWebsocketPayloadCb() of a frame that is passed on.
Mensaje ==
  /\ status[ranura] = "conectado" /\ Llega({"trama"})
  /\ Evento(ranura, "TEXT") /\ Consumir
  /\ UNCHANGED <<latido, red, cola, pedidos, enviado, tcp, status, cab, pulso>>

RecibirPing ==
  /\ status[ranura] = "conectado" /\ Llega({"trama"})
  /\ SendFrame(ranura)
  /\ Evento(ranura, "PING") /\ Consumir
  /\ UNCHANGED <<latido, red, cola, pedidos, tcp, status, cab, pulso>>

RecibirPong ==
  /\ status[ranura] = "conectado" /\ Llega({"trama"})
  /\ pongRecibido' = [pongRecibido EXCEPT ![ranura] = TRUE]
  /\ Evento(ranura, "PONG") /\ Consumir
  /\ UNCHANGED <<latido, red, cola, pedidos, enviado, tcp, status, cab, edad, timeouts>>

\* A close frame, an unknown opcode, a payload too big, or a frame whose rest
\* does not come within WEBSOCKETS_TCP_TIMEOUT.
CerrarPorTrama ==
  /\ status[ranura] = "conectado" /\ Llega({"trama"})
  /\ ClientDisconnect(ranura)
  /\ UNCHANGED <<latido, cola, pulso>>

\* handleHBPing(): sendPing() looks at the connection again.
handleHBPing(entera) ==
  /\ fase = "ping" /\ Ir("plazo")
  /\ IF ~latido \/ edad[ranura] <= PingIntervalo
     THEN Quieto /\ UNCHANGED <<enviado, pulso>>
     ELSE /\ IF PorLimpiar(ranura) THEN ClientDisconnect(ranura)
             ELSE Quieto /\ IF PuedeEnviar(ranura) THEN SendFrame(ranura)
                                                   ELSE UNCHANGED enviado
          /\ IF PuedeEnviar(ranura) /\ entera
             THEN /\ edad' = [edad EXCEPT ![ranura] = 0]
                  /\ pongRecibido' = [pongRecibido EXCEPT ![ranura] = FALSE]
             ELSE UNCHANGED <<edad, pongRecibido>>
          /\ UNCHANGED timeouts
  /\ UNCHANGED <<latido, cola>>

\* handleHBTimeout(), also of a client that this pass has disconnected.
PlazoVencido(i) == latido /\ ~pongRecibido[i] /\ edad[i] > PongPlazo
Agotado(i)      == Limite > 0 /\ (timeouts[i] + 1) % ModCuenta >= Limite

handleHBTimeout ==
  /\ fase = "plazo" /\ Siguiente("datos", "fuera")
  /\ IF PlazoVencido(ranura)
     THEN /\ timeouts' = [timeouts EXCEPT ![ranura] = (@ + 1) % ModCuenta]
          /\ edad' = [edad EXCEPT ![ranura] = PingIntervalo + 1]
     ELSE /\ timeouts' = [timeouts EXCEPT ![ranura] =
                            IF latido /\ pongRecibido[ranura] THEN 0 ELSE @]
          /\ UNCHANGED edad
  /\ IF PlazoVencido(ranura) /\ Agotado(ranura)
     THEN ClientDisconnect(ranura) ELSE Quieto /\ UNCHANGED enviado
  /\ UNCHANGED <<pongRecibido, latido, cola>>

-----------------------------------------------------------------------------
\* The rest of the sketch, between two calls of loop().

\* The clock: the unit is the longest that a pass takes, so at most one goes by.
\* The age of a slot without a connection is never read.
Volver(dt) ==
  /\ fase = "fuera" /\ Ir("nuevos")
  /\ dt > 0 => latido
  /\ edad' = [i \in Ranuras |-> IF tcp[i] = Nulo THEN edad[i]
                                ELSE Min({edad[i] + dt, PingIntervalo + 1})]
  /\ UNCHANGED <<latido, pares, cliente, pongRecibido, timeouts>>

broadcastTXT ==
  /\ fase = "fuera" /\ Ir("difundir")
  /\ UNCHANGED <<latido, pares, cliente, pulso>>

\* One slot of the loop of broadcastTXT(); a lost client is cleaned up here too.
DifundirA ==
  /\ fase = "difundir" /\ Siguiente("difundir", "nuevos")
  /\ IF PorLimpiar(ranura) THEN ClientDisconnect(ranura)
     ELSE Quieto /\ IF PuedeEnviar(ranura) THEN SendFrame(ranura)
                                           ELSE UNCHANGED enviado
  /\ UNCHANGED <<latido, cola, pulso>>

\* disconnect(num)
disconnect(i) ==
  /\ fase = "fuera" /\ tcp[i] # Nulo
  /\ ClientDisconnect(i)
  /\ UNCHANGED <<hilo, latido, cola, pulso>>

\* close(): each slot is disconnected and made anew, and the listening socket is
\* closed with what it held.
close ==
  /\ corriendo /\ fase = "fuera"
  /\ corriendo' = FALSE /\ fase' = "cerrar" /\ UNCHANGED ranura
  /\ UNCHANGED <<latido, pares, cliente, pulso>>
CerrarRanura ==
  /\ fase = "cerrar" /\ Siguiente("cerrar", "cerrado")
  /\ IF tcp[ranura] # Nulo THEN Desconectar(ranura, {})
     ELSE /\ cab' = [cab EXCEPT ![ranura] = {}]
          /\ UNCHANGED <<tcp, status, vista, red, entrada, pedidos, enviado>>
  /\ UNCHANGED <<latido, cola, pulso>>
begin ==
  /\ fase = "cerrado"
  /\ corriendo' = TRUE /\ fase' = "nuevos" /\ UNCHANGED ranura
  /\ Cerradas(cola) /\ cola' = {}
  /\ pongRecibido' = [i \in Ranuras |-> FALSE]
  /\ edad' = [i \in Ranuras |-> PingIntervalo + 1]
  /\ timeouts' = [i \in Ranuras |-> 0]
  /\ UNCHANGED <<latido, cliente>>

-----------------------------------------------------------------------------
Servir ==
  \/ \E c \in Conexiones : handleNewClient(c)
  \/ FinDeNuevos
  \/ SinCliente \/ SinDatos
  \/ handleHeader \/ Aceptar \/ Rechazar
  \/ Mensaje \/ RecibirPing \/ RecibirPong \/ CerrarPorTrama
  \/ handleHBTimeout
  \/ \E entera \in BOOLEAN : handleHBPing(entera)
  \/ \E dt \in {0, 1} : Volver(dt)
  \/ broadcastTXT \/ DifundirA \/ CerrarRanura \/ begin

Next ==
  \/ Servir
  \/ \E c \in Conexiones : Cortar(c) \/ \E g \in Guiones : Conectar(c, g)
  \/ \E i \in Ranuras : disconnect(i)
  \/ close

Spec == Init /\ [][Next]_vars

-----------------------------------------------------------------------------
\* Type invariant; a slot without a connection is out of any session.
TypeOK ==
  /\ corriendo \in BOOLEAN /\ ranura \in Ranuras /\ latido \in BOOLEAN
  /\ fase \in {"nuevos", "datos", "ping", "plazo", "fuera", "difundir", "cerrar", "cerrado"}
  /\ red \in [Conexiones -> {"libre", "viva", "cortada"}] /\ cola \subseteq Conexiones
  /\ tcp \in [Ranuras -> Conexiones \cup {Nulo}]
  /\ status \in [Ranuras -> {"no", "cabecera", "conectado"}]
  /\ cab \in [Ranuras -> SUBSET Campos] /\ pedidos \in [Conexiones -> SUBSET Campos]
  /\ pongRecibido \in [Ranuras -> BOOLEAN]
  /\ edad \in [Ranuras -> 0..(PingIntervalo + 1)]
  /\ timeouts \in [Ranuras -> 0..(ModCuenta - 1)]
  /\ vista \in [Ranuras -> {"libre", "abierta", "mal"}]
  /\ enviado \in [Conexiones -> {"nada", "tramas", "mal"}]
  /\ \A i \in Ranuras : (tcp[i] = Nulo) <=> (status[i] = "no")

\* No connection is leaked or shared: each open one waits to be accepted or is in
\* exactly one slot (newClient 423-478, dropNativeClient 518-536), and no slot
\* holds one that has been deleted or is in a session without one.
UnaRanuraPorConexion ==
  /\ \A i, j \in Ranuras : tcp[i] # Nulo /\ tcp[i] = tcp[j] => i = j
  /\ \A c \in Conexiones :
       (red[c] # "libre") <=> (c \in cola \/ \E i \in Ranuras : tcp[i] = c)
  /\ \A i \in Ranuras : tcp[i] \notin cola /\ (tcp[i] = Nulo <=> status[i] = "no")

\* The sketch is told of every session in order: CONNECTED, its messages,
\* DISCONNECTED; whoever cleans up a lost client (newClient, handleClientData,
\* sendPing or a broadcast), the next client of the slot begins a session of its own.
\* It is opened on the header of its own connection: no field that an earlier client
\* of the slot sent counts, but for those that clientDisconnect() leaves (lines
\* 557-562); and no frame precedes its answer (lines 200-209, 822-853): a broadcast
\* that meets a client in its header skips it.
SesionesEnOrden ==
  /\ \A i \in Ranuras : vista[i] = IF status[i] = "conectado" THEN "abierta" ELSE "libre"
  /\ \A i \in Ranuras : tcp[i] # Nulo =>
       pedidos[tcp[i]] \subseteq cab[i] /\ cab[i] \subseteq pedidos[tcp[i]] \cup Quedan
  /\ \A c \in Conexiones : enviado[c] # "mal"

\* Every connection that comes in is taken up or turned away, and one that is lost,
\* still waiting or in whatever state of its slot, is in the end deleted.  With the
\* heartbeat on, a client that answers no ping loses its slot, in the middle of its
\* header or open, however its writes are cut (lines 866-877 and WebSockets.cpp
\* 741-761).
RanuraLiberada ==
  /\ \A c \in Conexiones :
       (c \in cola \/ red[c] = "cortada") ~> (c \notin cola /\ red[c] # "cortada")
  /\ latido /\ Limite > 0 =>
       \A c \in Conexiones :
         (\E i \in Ranuras : tcp[i] = c)
           ~> (\A i \in Ranuras : tcp[i] = c => pongRecibido[i])
=============================================================================
