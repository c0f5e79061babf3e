--------------------------- MODULE WebSocketsLib ---------------------------
(***************************************************************************)
(* The two ends that the WebSockets library has, WebSocketsServer and         *)
(* WebSocketsClient, and an open connection between them.  The ends run on    *)
(* different boards and share no state, and neither looks into a frame where  *)
(* it keeps its connections: a behaviour is of one of the three.              *)
(***************************************************************************)
EXTENDS WsServidor

CONSTANTS Reconexion, PlazoCabecera, PingCliente, PongCliente,
          Alto, Larga, Paquete, MaxDatos, Claves, Cabidas, Envios, Avisos, EnviosMax

VARIABLES lado, redCl, socketIO, k, entradaCl, con, envios

Cli == INSTANCE WsCliente WITH
         red <- redCl, entrada <- entradaCl,
         Plazo <- PlazoCabecera, PingIntervalo <- PingCliente, PongPlazo <- PongCliente
ASSUME ClienteAssumption == Cli!ClienteAssumption
clvars == <<redCl, socketIO, k, entradaCl>>

Tr == INSTANCE Tramas
ASSUME TramasAssumption == Tr!TramasAssumption
trvars == <<con, envios>>
lados == <<lado, vars, clvars, trvars>>

\* The settings of the others do not matter.
LadosInit ==
  /\ lado \in {"servidor", "cliente", "trama"} /\ Init /\ Cli!ClInit /\ Tr!TrInit
  /\ lado # "servidor" => ~latido
  /\ lado # "cliente" => ~socketIO
  /\ lado # "trama" =>
       /\ con.io = "no" /\ con.memoria
       /\ con.clave = CHOOSE c \in Claves : TRUE
       /\ con.cabe = CHOOSE c \in Cabidas : TRUE

LadosNext ==
  \/ lado = "servidor" /\ Next /\ UNCHANGED <<lado, clvars, trvars>>
  \/ lado = "cliente" /\ Cli!ClNext /\ UNCHANGED <<lado, vars, trvars>>
  \/ lado = "trama" /\ (Tr!TrNext \/ Tr!TrQuieto) /\ UNCHANGED <<lado, vars, clvars>>

\* loop() of either is called again and again, and the clock does not stop.
Pasada ==
  \/ lado = "servidor" /\ Servir /\ UNCHANGED <<lado, clvars, trvars>>
  \/ lado = "cliente" /\ Cli!Loop(1) /\ UNCHANGED <<lado, vars, trvars>>
Reloj == lado = "servidor" /\ Volver(1) /\ UNCHANGED <<lado, clvars, trvars>>
LadosSpec == LadosInit /\ [][LadosNext]_lados /\ WF_lados(Pasada) /\ SF_lados(Reloj)

ClienteEnOrden == Cli!ClienteEnOrden
ClienteVuelve  == Cli!ClienteVuelve

\* Neither end is stuck for ever with a connection that is gone: the server frees the
\* slots (WebSocketsServer.cpp:423-478, 662-683 and 866-877), the client connects again
\* (WebSocketsClient.cpp:200-282).
LadosVuelven == RanuraLiberada /\ ClienteVuelve

\* What one end of a connection sends is what the other is told: frames with their
\* masks and lengths, pings and their answers, and the messages of Socket.IO
\* (WebSockets.cpp:93-538, WebSocketsServer.cpp:148-315, WebSocketsClient.cpp:301-370,
\* SocketIOclient.cpp:105-260).  An end that says that a write failed has written part
\* of it, and nothing is promised of what it sends from then on.
TramaFiel == Tr!TramaFiel
=============================================================================
