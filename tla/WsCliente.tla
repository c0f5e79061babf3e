----------------------------- MODULE WsCliente -----------------------------
(***************************************************************************)
(* WebSocketsClient.cpp, with Socket.IO and without: one connection that      *)
(* loop() opens, upgrades line by line, watches over and opens again.  What   *)
(* the server sends is a line or a frame for each pass.  While the network is *)
(* bad anything may come and the connection may be lost; once it is good it   *)
(* stays so, and the server answers every request and every ping.             *)
(***************************************************************************)
EXTENDS Integers, Sequences

CONSTANTS
  Reconexion,               \* _reconnectInterval, in units of time
  Plazo,                    \* WEBSOCKETS_TCP_TIMEOUT
  PingIntervalo, PongPlazo, \* heartbeat
  Limite,                   \* disconnectTimeoutCount
  ModCuenta                 \* pongTimeoutCount is a uint8_t: it counts modulo this

\* The unit is the longest that a pass of loop() takes, and a response has up to five
\* lines: one that takes longer to read than the deadline never ends.
ClienteAssumption ==
  /\ {Reconexion, PingIntervalo, ModCuenta} \subseteq Nat \ {0} /\ PongPlazo \in Nat
  /\ Plazo \in Nat /\ Plazo > 5 /\ Limite \in 0..(ModCuenta - 1)

VARIABLES
  red,      \* "mala" or "buena"
  socketIO, \* isSocketIO
  k,        \* WebSocketsClient and its WSclient_t; ages instead of instants
  entrada   \* what a good server has sent

clvars == <<red, socketIO, k, entrada>>

Hasta(n, tope) == IF n < tope THEN n ELSE tope
Ahora == -1
\* begin().  evento is what the sketch was told last; intento and prisa are histories:
\* the age of the last attempt to connect, and whether one came too early.
ClInit ==
  /\ red = "mala" /\ socketIO \in BOOLEAN /\ entrada = <<>>
  /\ k = [tcp |-> "nulo", status |-> "no", codigo |-> "", upgrade |-> FALSE, websocket |-> TRUE,
          accept |-> "", sid |-> "", fallo |-> 0, cabecera |-> 0, ping |-> PingIntervalo + 1,
          pong |-> FALSE, timeouts |-> 0, evento |-> "DISCONNECTED",
          intento |-> Reconexion, prisa |-> FALSE]

-----------------------------------------------------------------------------
\* clientDisconnect(); WebSockets::clientDisconnect() sends a close frame before it.
\* The mutant does not note when it was.
Desconectar_SinFallo(c) ==
  [c EXCEPT !.tcp = "nulo", !.status = "no", !.codigo = "", !.upgrade = FALSE, !.websocket = FALSE,
            !.accept = "", !.sid = "", !.evento = IF c.tcp = "nulo" THEN @ ELSE "DISCONNECTED"]
Desconectar(c) ==
  [c EXCEPT !.tcp = "nulo", !.status = "no", !.codigo = "", !.upgrade = FALSE, !.websocket = FALSE,
            !.accept = "", !.sid = "", !.fallo = 0,
            !.evento = IF c.tcp = "nulo" THEN @ ELSE "DISCONNECTED"]

\* clientIsConnected(); one that is not is cleaned up.
Conectado(c) == c.tcp = "abierto" /\ c.status # "no"
Comprobado(c) == IF Conectado(c) \/ c.tcp = "nulo" THEN c ELSE Desconectar(c)

\* sendHeader(): a key of its own, so that an answer to an earlier one is of no use.
SendHeader(c) == [c EXCEPT !.cabecera = Ahora, !.accept = IF @ = "" THEN "" ELSE "otra"]
ConCabecera(c) == ~socketIO \/ c.sid # ""
\* What a good server answers; to a session that it does not know, that it does not.
Respuestas(c) ==
  IF ~ConCabecera(c) THEN {<<"200", "cookie", "fin">>, <<"200", "fin", "sid">>}
  ELSE IF c.sid = "vieja" THEN {<<"400", "fin">>}
  ELSE {<<"101", "conexion", "upgrade", "accept", "fin">>}
Entrada(c, resto) ==
  IF c.tcp # "abierto" THEN entrada' = <<>>
  ELSE IF red = "buena" /\ c.cabecera = Ahora THEN entrada' \in Respuestas(c)
  ELSE entrada' = resto

\* handleHeader(), a line with a field.
Linea(c, l) ==
  CASE l \in {"101", "200", "400"} -> [c EXCEPT !.codigo = l]
    [] l = "conexion" -> [c EXCEPT !.upgrade = TRUE]
    [] l = "upgrade"  -> [c EXCEPT !.websocket = TRUE]
    [] l = "accept"   -> [c EXCEPT !.accept = "suya"]
    [] l = "ajena"    -> [c EXCEPT !.accept = "otra"]
    [] l = "cookie"   -> [c EXCEPT !.sid = IF red = "buena" THEN "suya" ELSE "vieja"]

\* handleHeader(), the empty line, and a body with the session.
Vale(c) == c.upgrade /\ c.websocket
Acepta(c) == c.codigo = "101" \/ (c.codigo = "200" /\ socketIO)
FinDeCabecera(c0) ==
  LET c == [c0 EXCEPT !.status = "cabecera"]
      d == IF Vale(c) /\ ~Acepta(c) THEN Desconectar(c) ELSE c
  IN  IF socketIO /\ c0.sid = "" /\ Conectado(c0) THEN [c0 EXCEPT !.status = "cuerpo"]
      ELSE IF Vale(d) /\ d.accept = "suya" THEN [d EXCEPT !.status = "conectado",
                                                             !.evento = IF @ = "CONNECTED" THEN "mal" ELSE "CONNECTED"]
      ELSE IF ~socketIO THEN Desconectar(d)
      ELSE IF d.sid # "" THEN SendHeader(d) ELSE d
handleHeader(c, l) ==
  IF l = "fin" THEN FinDeCabecera(c)
  ELSE IF l = "sid"
       THEN IF socketIO /\ c.status = "cuerpo" /\ c.sid = ""
            THEN FinDeCabecera([c EXCEPT !.sid = IF red = "buena" THEN "suya" ELSE "vieja"])
            ELSE c
  ELSE Linea(c, l)

\* A frame: a close, or one that is broken, ends the connection.
Trama(c, f) ==
  CASE f = "pong"  -> [c EXCEPT !.pong = TRUE]
    [] f = "cierre" -> Desconectar(c)
    [] OTHER -> c

\* The deadline of handleClientData().  The mutant forgets the body.
Vencida_SoloCabecera(c) == c.status = "cabecera" /\ c.cabecera > Plazo
Vencida(c) == c.status \in {"cabecera", "cuerpo"} /\ c.cabecera > Plazo

Lineas == {"101", "200", "400", "conexion", "upgrade", "accept", "ajena", "cookie", "sid", "fin"}
handleClientData(c, x) ==
  IF Vencida(c) THEN Desconectar(c)
  ELSE IF x = "nada" THEN c
  ELSE IF c.status = "conectado" THEN Trama(c, x)
  ELSE handleHeader(c, x)

\* handleHBPing(): entera says whether the ping could be written.
TocaPing(c) == c.status = "conectado" /\ c.ping > PingIntervalo
handleHBPing(c, entera) ==
  IF ~TocaPing(c) THEN c
  ELSE IF entera THEN [c EXCEPT !.ping = 0, !.pong = FALSE]
  ELSE Desconectar(c)
\* handleHBTimeout()
handleHBTimeout(c) ==
  LET n == (c.timeouts + 1) % ModCuenta
      d == [c EXCEPT !.timeouts = n, !.ping = PingIntervalo + 1]
  IN  IF c.pong THEN [c EXCEPT !.timeouts = 0]
      ELSE IF c.ping <= PongPlazo THEN c
      ELSE IF Limite > 0 /\ n >= Limite THEN Desconectar(d) ELSE d

\* An attempt to connect.
Intento(c, abierto) ==
  LET d == [c EXCEPT !.intento = 0, !.prisa = @ \/ c.intento < Reconexion]
  IN  IF abierto
      THEN SendHeader([d EXCEPT !.tcp = "abierto", !.status = "cabecera", !.fallo = Reconexion])
      ELSE [d EXCEPT !.tcp = "cerrado", !.fallo = 0]

\* Time goes by, but for a request that was sent in this pass it only begins to.
Pasa(c, dt) ==
  [c EXCEPT !.fallo = Hasta(@ + dt, Reconexion), !.intento = Hasta(@ + dt, Reconexion),
            !.cabecera = IF @ = Ahora THEN dt ELSE Hasta(@ + dt, Plazo + 1),
            !.ping = Hasta(@ + dt, PingIntervalo + 1)]

\* loop() while there is no connection.
Reconectar(abierto, dt) ==
  LET c == Comprobado(k)
      d == IF c.fallo < Reconexion THEN c ELSE Intento(c, abierto)
  IN  /\ ~Conectado(k) /\ (red = "buena" => abierto)
      /\ k' = Pasa(d, dt) /\ Entrada(d, <<>>)
      /\ UNCHANGED <<red, socketIO>>

\* loop() over a connection: what has come, then the heartbeat.
Servir(x, entera, dt) ==
  LET c == handleClientData(k, x)
      d == IF c.status = "conectado" THEN handleHBTimeout(handleHBPing(c, entera)) ELSE c
      resto == IF x = "nada" THEN entrada ELSE Tail(entrada)
      pong == IF red = "buena" /\ TocaPing(c) THEN <<"pong">> ELSE <<>>
  IN  /\ Conectado(k)
      /\ red = "buena" => entera /\ x = IF entrada = <<>> THEN "nada" ELSE Head(entrada)
      /\ k' = Pasa(d, dt)
      /\ IF red = "buena" THEN Entrada(d, resto \o pong) ELSE UNCHANGED entrada
      /\ UNCHANGED <<red, socketIO>>

Entradas == IF k.status = "conectado" THEN {"nada", "pong", "trama", "cierre"} ELSE {"nada"} \cup Lineas
Loop(dt) ==
  \/ \E abierto \in BOOLEAN : Reconectar(abierto, dt)
  \/ \E x \in Entradas, entera \in BOOLEAN : Servir(x, entera, dt)

\* disconnect() of the sketch, and the network.
disconnect ==
  /\ red = "mala" /\ k' = IF Conectado(k) THEN Desconectar(k) ELSE Comprobado(k)
  /\ UNCHANGED <<red, socketIO, entrada>>
Cortar ==
  /\ red = "mala" /\ k.tcp = "abierto" /\ k' = [k EXCEPT !.tcp = "cerrado"]
  /\ UNCHANGED <<red, socketIO, entrada>>
Mejorar ==
  /\ red = "mala" /\ red' = "buena"
  /\ UNCHANGED <<socketIO, k, entrada>>

ClNext == (\E dt \in {0, 1} : Loop(dt)) \/ disconnect \/ Cortar \/ Mejorar
ClSpec == ClInit /\ [][ClNext]_clvars /\ WF_clvars(Loop(1))

-----------------------------------------------------------------------------
\* The server is not flooded: whatever ends a connection, and whoever finds it lost,
\* _reconnectInterval goes by between two attempts (WebSocketsClient.cpp:206-209); and
\* the sketch is told of each session in order, opened by an answer to the key of the
\* last request.
ClienteEnOrden ==
  /\ ~k.prisa
  /\ k.status = "conectado" <=> k.evento = "CONNECTED"
  /\ k.status = "conectado" => k.accept = "suya"

\* Whatever the network and the server did before, once both are good the client
\* comes to be connected and stays so: nothing of an earlier connection, neither a
\* header field nor a session, a count or an unanswered request, is in the way.
ClienteVuelve == red = "buena" ~> [](k.status = "conectado")
=============================================================================
