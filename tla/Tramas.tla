------------------------------- MODULE Tramas -------------------------------
(***************************************************************************)
(* What WebSockets.cpp writes on a connection that is open and what it reads *)
(* from it, with the functions of the two ends that send and are told, and   *)
(* SocketIOclient.cpp over the client.  A read of n bytes blocks its end     *)
(* until they come or time is up, so a frame is read in one step, once the   *)
(* channel holds the bytes that the step needs.                              *)
(***************************************************************************)
EXTENDS Integers, SequencesExt

CONSTANTS
  Alto,      \* bit 7 of a byte, 128: a byte is less than twice that
  Larga,     \* the first length that is written in eight bytes, 0xFFFF
  Paquete,   \* shorter frames go in one write if there is memory, 1400
  MaxDatos,  \* WEBSOCKETS_MAX_DATA_SIZE
  Claves,    \* masks that random() makes
  Cabidas,   \* bytes that each end may write before one write is cut, or SinCorte
  Envios,    \* what the sketch of each end asks of sendTXT(), sendBIN(), ...
  Avisos,    \* what a sketch asks of SocketIOclient::send()
  EnviosMax  \* bound on those calls in a behaviour

Base     == 2 * Alto
SinCorte == -1
TramasAssumption ==
  /\ Alto \in {16, 32, 64, 128} /\ Larga \in (Alto - 1)..(Base * Base - 1)
  /\ Paquete \in Nat /\ MaxDatos \in Nat /\ EnviosMax \in Nat
  /\ Cabidas \subseteq [{"cl", "sv"} -> Nat \cup {SinCorte}]
  /\ \A c \in Claves : Len(c) = 4 /\ Range(c) \subseteq 0..(Base - 1)

VARIABLES
  con,     \* the connection: both ends and the bytes on their way
  envios
tramas == <<con, envios>>

Extremos == {"cl", "sv"}
Otro(e)  == IF e = "cl" THEN "sv" ELSE "cl"

\* WSopcode_t, and the digits of Engine.IO and Socket.IO, each for its character.
CONTINUA == 0
TEXTO    == 1
BINARIO  == 2
CIERRE   == 8
PING     == 9
PONG     == 10
EIO_PING    == 2
EIO_PONG    == 3
EIO_MENSAJE == 4
EIO_UPGRADE == 5
SIO_CONNECT    == 0
SIO_DISCONNECT == 1
Probe == <<EIO_PING, 9>>

-----------------------------------------------------------------------------
\* Writing a frame.

\* The length of a payload, behind the bit that says whether it is masked.
Byte(n, lugar) == (n \div lugar) % Base
Dos(n) == <<Byte(n, Base), Byte(n, 1)>>
Medida_DeMas(n, m) ==
  IF n <= Alto - 2 THEN <<m + n>>
  ELSE IF n < Larga THEN <<m + Alto - 2, Byte(n, Base), Byte(n, 1)>>
  ELSE <<m + Alto - 1, 0, 0, 0, 0, Byte(n, Base * Base * Base), Byte(n, Base * Base), Byte(n, Base), Byte(n, 1)>>
Medida(n, m) ==
  IF n < Alto - 2 THEN <<m + n>>
  ELSE IF n < Larga THEN <<m + Alto - 2, Byte(n, Base), Byte(n, 1)>>
  ELSE <<m + Alto - 1, 0, 0, 0, 0, Byte(n, Base * Base * Base), Byte(n, Base * Base), Byte(n, Base), Byte(n, 1)>>
createHeader(op, n, mask, clave, fin) ==
  <<(IF fin THEN Alto ELSE 0) + op>> \o Medida(n, IF mask THEN Alto ELSE 0) \o (IF mask THEN clave ELSE <<>>)

Xor(a, b) ==
  FoldLeft(LAMBDA s, i : s + 2^(i - 1) * ((a \div 2^(i - 1) + b \div 2^(i - 1)) % 2), 0, <<1, 2, 3, 4, 5, 6, 7, 8>>)
Enmascara(datos, clave) == [i \in DOMAIN datos |-> Xor(datos[i], clave[((i - 1) % 4) + 1])]
SinClave == <<0, 0, 0, 0>>

\* write(): what lwIP takes before time is up; later calls find it ready again.
write(c, e, bytes) ==
  LET cabe == c.cabe[e]
      n    == IF cabe = SinCorte \/ cabe >= Len(bytes) THEN Len(bytes) ELSE cabe
  IN  [c EXCEPT !.canal[Otro(e)] = IF c.abierta[Otro(e)] THEN @ \o SubSeq(bytes, 1, n) ELSE @,
                !.cabe[e] = IF n < Len(bytes) \/ cabe = SinCorte THEN SinCorte ELSE cabe - n,
                !.rota[e] = @ \/ n < Len(bytes),
                !.ok = n = Len(bytes)]

sendFrameHeader(c, e, op, n, fin) == write(c, e, createHeader(op, n, e = "cl", SinClave, fin))

\* The type of the event for a frame (messageReceived).
Tipo(op, fin) ==
  CASE op = TEXTO    -> IF fin THEN "TEXT" ELSE "FRAGMENT_TEXT_START"
    [] op = BINARIO  -> IF fin THEN "BIN" ELSE "FRAGMENT_BIN_START"
    [] op = CONTINUA -> IF fin THEN "FRAGMENT_FIN" ELSE "FRAGMENT"
    [] op = PING     -> "PING"
    [] op = PONG     -> "PONG"
    [] OTHER         -> "ERROR"

\* History: what an end meant to send.
Anotar(c, e, op, datos, fin) ==
  IF op = CIERRE THEN c ELSE [c EXCEPT !.enviados[e] = Append(@, [tipo |-> Tipo(op, fin), datos |-> datos])]

\* sendFrame(): one write if the payload has room in front or there is memory for a
\* copy; otherwise the header and the payload, whether the header went or not.
DeUnaVez(c, n, reservado) == ~reservado /\ 0 < n /\ n < Paquete /\ c.memoria
\* Only a copy is masked: what is not the library's own goes under a mask of zero.
\* The mutant makes a mask for all that the client sends.
Mascara_Siempre(c, copia) == c.clave
Mascara(c, copia) == IF copia THEN c.clave ELSE SinClave
sendFrame(c0, e, op, datos, fin, reservado) ==
  LET c     == Anotar(c0, e, op, datos, fin)
      copia == DeUnaVez(c, Len(datos), reservado)
      clave == Mascara(c, copia)
      cab   == createHeader(op, Len(datos), e = "cl", clave, fin)
      a     == write(c, e, cab)
      b     == IF datos = <<>> THEN a ELSE write(a, e, datos)
  IN  IF ~c0.abierta[e] THEN [c0 EXCEPT !.ok = FALSE]
      ELSE IF copia THEN write(c, e, cab \o IF e = "cl" THEN Enmascara(datos, clave) ELSE datos)
      ELSE IF reservado THEN write(c, e, cab \o datos)
      ELSE [b EXCEPT !.ok = a.ok /\ @]

-----------------------------------------------------------------------------
\* What the sketches call.

\* A text of length 0 is measured by its NUL.
Contado(m) ==
  LET nulos == {i \in DOMAIN m.datos : m.datos[i] = 0}
  IN  IF m.op # TEXTO \/ m.largo > 0 THEN SubSeq(m.datos, 1, m.largo)
      ELSE IF nulos = {} THEN m.datos ELSE SubSeq(m.datos, 1, Min(nulos) - 1)

\* sendTXT(), sendBIN() and sendPing() of the server, and the same for all its clients;
\* and those of the client.
EnviarServidor(c, m) == sendFrame(c, "sv", m.op, Contado(m), m.fin, m.reservado)
EnviarCliente(c, m)  == sendFrame(c, "cl", m.op, Contado(m), m.fin, m.reservado)
sendTXT(c, datos)    == sendFrame(c, "cl", TEXTO, datos, TRUE, FALSE)
sendTXT_Letra(c, d)  == sendFrame(c, "cl", TEXTO, <<d>>, TRUE, TRUE)

-----------------------------------------------------------------------------
\* SocketIOclient.

runIOCbEvent(c, tipo, datos) == [c EXCEPT !.oidos = Append(@, [tipo |-> tipo, datos |-> datos])]

\* send(): three writes, and the first that is cut is the last.
SocketIOSend(c, a) ==
  LET datos == Contado([op |-> TEXTO, datos |-> a.datos, largo |-> a.largo])
      d  == Anotar(c, "cl", TEXTO, <<EIO_MENSAJE, a.tipo>> \o datos, TRUE)
      c1 == sendFrameHeader(d, "cl", TEXTO, Len(datos) + 2, TRUE)
      c2 == write(c1, "cl", <<EIO_MENSAJE, a.tipo>>)
  IN  IF ~c1.ok THEN c1 ELSE IF ~c2.ok \/ datos = <<>> THEN c2 ELSE write(c2, "cl", datos)

\* handleCbEvent(): CONNECTED, DISCONNECTED, TEXT.
AlConectar(c) ==
  IF c.io = "no" THEN c
  ELSE runIOCbEvent(sendTXT_Letra(sendTXT(c, Probe), EIO_UPGRADE), SIO_CONNECT, <<>>)
AlDesconectar(c) == IF c.io = "no" THEN c ELSE runIOCbEvent(c, SIO_DISCONNECT, <<>>)
AlTexto(c, t) ==
  IF Len(t) < 1 THEN c
  ELSE CASE t[1] = EIO_PING -> sendTXT(c, <<EIO_PONG>> \o Tail(t))
         [] t[1] = EIO_MENSAJE /\ Len(t) >= 2 /\ t[2] # SIO_CONNECT -> runIOCbEvent(c, t[2], SubSeq(t, 3, Len(t)))
         [] OTHER -> c

-----------------------------------------------------------------------------
\* Reading a frame.

\* clientDisconnect(): a close frame if there is a code, then the end.
Cerrar(c, e) ==
  LET d == [c EXCEPT !.abierta[e] = FALSE, !.canal[e] = <<>>]
  IN  IF e = "cl" THEN AlDesconectar(d) ELSE d
clientDisconnect(c, e, codigo) ==
  Cerrar([sendFrame(c, e, CIERRE, Dos(codigo), TRUE, FALSE) EXCEPT !.motivo[e] = codigo], e)

\* messageReceived() of either end.
messageReceived(c, e, op, datos, fin) ==
  LET d == [c EXCEPT !.recibidos[e] = Append(@, [tipo |-> Tipo(op, fin), datos |-> datos])]
  IN  IF e = "cl" /\ c.io # "no" /\ Tipo(op, fin) = "TEXT" THEN AlTexto(d, datos) ELSE d

\* The fields of a header in the bytes b that have come, as far as they have.
Extra(b)    == CASE b[2] % Alto = Alto - 2 -> 2 [] b[2] % Alto = Alto - 1 -> 8 [] OTHER -> 0
ConMask(b)  == b[2] >= Alto
Cabeza(b)   == 2 + Extra(b) + (IF ConMask(b) THEN 4 ELSE 0)
Largo(b) ==
  CASE Extra(b) = 0 -> b[2] % Alto
    [] Extra(b) = 2 -> b[3] * Base + b[4]
    [] OTHER        -> IF \E i \in 3..6 : b[i] # 0 THEN MaxDatos + 1
                       ELSE ((b[7] * Base + b[8]) * Base + b[9]) * Base + b[10]
Clave(b) == IF ConMask(b) THEN SubSeq(b, Cabeza(b) - 3, Cabeza(b)) ELSE SinClave

\* handleWebsocketCb(): each part is asked for when the one before is there.
Medido(b) == Len(b) >= 2 /\ Len(b) >= 2 + Extra(b)
Grande(b) == Medido(b) /\ Largo(b) > MaxDatos
Cabe(b)   == Medido(b) /\ Largo(b) <= MaxDatos /\ Len(b) >= Cabeza(b)
Entera(b) == Cabe(b) /\ Len(b) >= Cabeza(b) + Largo(b)

handleWebsocketPayloadCb(c0, e) ==
  LET b     == c0.canal[e]
      fin   == b[1] >= Alto
      op    == b[1] % 16
      n     == Cabeza(b) + Largo(b)
      datos == Enmascara(SubSeq(b, Cabeza(b) + 1, n), Clave(b))
      c     == [c0 EXCEPT !.canal[e] = SubSeq(b, n + 1, Len(b))]
  IN  CASE op \in {TEXTO, BINARIO, CONTINUA, PONG} -> messageReceived(c, e, op, datos, fin)
        [] op = PING   -> messageReceived(sendFrame(c, e, PONG, datos, TRUE, FALSE), e, op, datos, fin)
        [] op = CIERRE -> clientDisconnect(c, e, 1000)
        [] OTHER       -> clientDisconnect(c, e, 1002)

-----------------------------------------------------------------------------
\* The steps.

\* What the last write said is forgotten with the call.
Hecho(c) == [c EXCEPT !.ok = TRUE]

TrInit ==
  /\ envios = 0
  /\ \E cabe \in Cabidas, memoria \in BOOLEAN, clave \in Claves, io \in {"no", "EIO=3", "EIO=4"} :
       con = Hecho(AlConectar(
         [abierta |-> [e \in Extremos |-> TRUE], canal |-> [e \in Extremos |-> <<>>], cabe |-> cabe,
          rota |-> [e \in Extremos |-> FALSE], motivo |-> [e \in Extremos |-> 0], vencida |-> FALSE,
          enviados |-> [e \in Extremos |-> <<>>], recibidos |-> [e \in Extremos |-> <<>>],
          ok |-> TRUE, memoria |-> memoria, clave |-> clave, io |-> io, oidos |-> <<>>]))

Llamada(c) == envios < EnviosMax /\ envios' = envios + 1 /\ con' = Hecho(c)
EnviaServidor == con.abierta["sv"] /\ \E m \in Envios.sv : Llamada(EnviarServidor(con, m))
EnviaCliente  == con.abierta["cl"] /\ con.io = "no" /\ \E m \in Envios.cl : Llamada(EnviarCliente(con, m))
Avisa == con.abierta["cl"] /\ con.io # "no" /\ \E a \in Avisos : Llamada(SocketIOSend(con, a))
\* loop() of SocketIOclient, every EIO_HEARTBEAT_INTERVAL; initClient() turns it off
\* when the URL asks for version 4, in which the server pings.
ConLatido == con.io = "EIO=3"
Late  == con.abierta["cl"] /\ ConLatido /\ Llamada(sendTXT_Letra(con, EIO_PING))
Cierra == \E e \in Extremos : con.abierta[e] /\ Llamada(clientDisconnect(con, e, 1000))

Lee(e, c) == con.abierta[e] /\ con.canal[e] # <<>> /\ con' = Hecho(c) /\ UNCHANGED envios
Recibir    == \E e \in Extremos : Entera(con.canal[e]) /\ Lee(e, handleWebsocketPayloadCb(con, e))
Rechazar   == \E e \in Extremos : Grande(con.canal[e]) /\ Lee(e, clientDisconnect(con, e, 1009))
\* malloc() fails, or time is up before the rest comes.
SinMemoria == \E e \in Extremos :
  Cabe(con.canal[e]) /\ Largo(con.canal[e]) > 0 /\ ~con.memoria /\ Lee(e, clientDisconnect(con, e, 1011))
Vencer     == \E e \in Extremos : Lee(e, clientDisconnect([con EXCEPT !.vencida = TRUE], e, 1002))
\* The other end has closed, and all it sent was read.
Perder == \E e \in Extremos :
  con.abierta[e] /\ ~con.abierta[Otro(e)] /\ con.canal[e] = <<>> /\ con' = Cerrar(con, e) /\ UNCHANGED envios

TrNext ==
  EnviaServidor \/ EnviaCliente \/ Avisa \/ Late \/ Cierra \/ Recibir \/ Rechazar \/ SinMemoria \/ Vencer \/ Perder
TrQuieto ==
  /\ con.canal = [e \in Extremos |-> <<>>] /\ (envios = EnviosMax \/ \A e \in Extremos : ~con.abierta[e])
  /\ UNCHANGED tramas
TrSpec == TrInit /\ [][TrNext \/ TrQuieto]_tramas

-----------------------------------------------------------------------------
\* What the two ends make of each other.

De(s, tipo) == SelectSeq(s, LAMBDA m : m.tipo = tipo)
Textos(s)   == [i \in DOMAIN s |-> s[i].datos]
Abierta     == \A e \in Extremos : con.abierta[e]

\* Each end is told what the other meant, in order, and all of it when nothing is on
\* its way, unless a write was cut.
Legible(e) ==
  LET dicho == con.enviados[Otro(e)]
      oido  == con.recibidos[e]
  IN  /\ IsPrefix(oido, dicho)
      /\ Abierta /\ con.canal[e] = <<>> => oido = dicho

\* Every ping comes back with what it carried.
Eco(e) ==
  LET pings == Textos(De(con.enviados[e], "PING"))
      pongs == Textos(De(con.recibidos[e], "PONG"))
  IN  /\ IsPrefix(pongs, pings)
      /\ Abierta /\ con.canal = [x \in Extremos |-> <<>>] => pongs = pings

\* The sketch over Socket.IO hears of the messages in the texts, and each ping in
\* one is answered.
Oidos ==
  LET textos == Textos(De(con.recibidos["cl"], "TEXT"))
      msgs   == SelectSeq(textos, LAMBDA t : Len(t) >= 2 /\ t[1] = EIO_MENSAJE /\ t[2] # SIO_CONNECT)
      pings  == SelectSeq(textos, LAMBDA t : Len(t) >= 1 /\ t[1] = EIO_PING)
      pongs  == SelectSeq(Textos(De(con.enviados["cl"], "TEXT")), LAMBDA t : t[1] = EIO_PONG)
  IN  /\ con.oidos = <<[tipo |-> SIO_CONNECT, datos |-> <<>>]>>
                     \o [i \in DOMAIN msgs |-> [tipo |-> msgs[i][2], datos |-> SubSeq(msgs[i], 3, Len(msgs[i]))]]
                     \o IF con.abierta["cl"] THEN <<>> ELSE <<[tipo |-> SIO_DISCONNECT, datos |-> <<>>]>>
      /\ [i \in DOMAIN pongs |-> Tail(pongs[i])] = [i \in DOMAIN pings |-> Tail(pings[i])]

TramaFiel ==
  /\ \A e \in Extremos : ~con.rota[Otro(e)] =>
       /\ Legible(e)
       /\ ~con.rota[e] => Eco(e)
       /\ con.motivo[e] = 1002 => con.vencida
       /\ con.motivo[e] = 1009 => \E m \in Envios[Otro(e)] : Len(m.datos) > MaxDatos
  /\ con.io # "no" => Oidos
=============================================================================
