--------------------------- MODULE ServidorAsync ---------------------------
(***************************************************************************)
(* One connection of the ESPAsyncWebServer that serves the pages of the      *)
(* fireplace: the peer's request in packets cut anywhere, its handler, the   *)
(* response written as the window allows, and the timeouts of AsyncTCP.      *)
(* Every callback below runs in the one task of AsyncTCP.                    *)
(***************************************************************************)
EXTENDS PeticionAsync, RespuestaAsync, FiniteSets

CONSTANTS
  Casos,      \* what peers ask and handlers answer, a set of records
  TardesMax   \* times a source has nothing yet (RESPONSE_TRY_AGAIN) before it has

VARIABLES
  caso,       \* the request of this connection and the answer of its handler
  llegado,    \* symbols of the request that have arrived
  req,        \* AsyncWebServerRequest
  resp,       \* _response
  red,        \* what the connection took of the response, and what is not acked
  rxTimeout,  \* _rx_since_timeout is not 0
  tardes      \* times the source had nothing

vars == <<caso, llegado, req, resp, red, rxTimeout, tardes>>

Continue == 450   \* the bytes of "HTTP/1.1 100 Continue" as one

SinRespuesta == [Preparada("basica", <<>>) EXCEPT !.estado = "NULL"]
HayRespuesta == resp.estado # "NULL"

\* onClient(): the request is created with the connection, and its peer has three
\* seconds from one packet to the next.
Init ==
  /\ caso \in Casos
  /\ llegado = 0 /\ tardes = 0
  /\ req = Nueva /\ resp = SinRespuesta /\ red = RedNueva
  /\ rxTimeout = TRUE

-----------------------------------------------------------------------------
\* send() of what the handler answers: a handler without a function, and a source
\* that is not there, answer 500.
Respuesta ==
  IF caso.trivial \/ caso.clase = "invalida" THEN Preparada("basica", <<>>)
  ELSE IF caso.clase = "impresa"
  THEN FoldLeft(LAMBDA p, b : Impresa(p, <<b>>), Preparada("archivo", <<>>), caso.contenido)
  ELSE Preparada(caso.clase, caso.contenido)
\* A handler that prints goes on after it has sent.
Tras(p) == IF caso.clase = "impresa" THEN Impresa(p, <<1>>) ELSE p

\* The source has nothing yet when it is asked, which a chunk needs room for.
Tarda(otraVez, conexion) ==
  /\ otraVez => caso.tarda /\ tardes < TardesMax /\ Espacio(conexion) > 8 /\ resp.estado # "WAIT_ACK"
  /\ tardes' = tardes + (IF otraVez THEN 1 ELSE 0)
Falla(falla) == falla => ~red.fallida

\* _onData() and what it calls: 100 Continue, the handler and its response, and
\* the end of a connection whose first line is empty.
Atender(r, otraVez, falla) ==
  LET red0 == IF r.borrada THEN [red EXCEPT !.cerrada = TRUE] ELSE red
      red1 == IF r.continua /\ ~req.continua THEN write(red0, <<Continue>>, falla) ELSE red0
      s    == _respond(Respuesta, red1, otraVez, falla /\ ~red1.fallida)
      maneja == r.manejos > req.manejos
  IN  /\ Falla(falla) /\ Tarda(otraVez, red1) /\ (otraVez => maneja)
      /\ req' = r
      /\ resp' = IF maneja THEN Tras(s.p) ELSE resp
      /\ red' = IF maneja THEN s.red ELSE red1
      /\ rxTimeout' = (rxTimeout /\ ~maneja)
Estados == {"START", "HEADERS", "BODY", "END", "FAIL"}
Paquete(n, otraVez, falla, basura) ==
  /\ ~red.cerrada
  /\ n \in 1..(Len(caso.pedido) - llegado)
  /\ llegado' = llegado + n
  /\ Atender(_onData(req, SubSeq(caso.pedido, llegado + 1, llegado + n), caso.largo, caso.trivial,
                     basura),
             otraVez, falla)
  /\ UNCHANGED caso

\* _sent(), _onAck(): a response that had finished is deleted.
Confirmar(n, otraVez, falla) ==
  LET red1 == [red EXCEPT !.sinAck = @ - n, !.ocupado = FALSE]
      s    == _ack(resp, red1, n, otraVez, falla)
      sigue == HayRespuesta /\ ~Finished(resp)
  IN  /\ ~red.cerrada
      /\ n \in 1..red.sinAck
      /\ Falla(falla) /\ Tarda(otraVez, red1) /\ (otraVez => sigue)
      /\ resp' = IF sigue THEN s.p ELSE SinRespuesta
      /\ red' = IF sigue THEN s.red ELSE red1
      /\ UNCHANGED <<caso, llegado, req, rxTimeout>>

\* _poll(), _onPoll()
Sondear(otraVez, falla) ==
  LET s == _ack(resp, red, 0, otraVez, falla)
  IN  /\ ~red.cerrada /\ HayRespuesta /\ ~Finished(resp)
      /\ Espacio(red) > 0
      /\ Falla(falla) /\ Tarda(otraVez, red)
      /\ resp' = s.p /\ red' = s.red
      /\ UNCHANGED <<caso, llegado, req, rxTimeout>>

\* The end of the connection, from here or from the peer: _handleDisconnect()
\* deletes the request and with it the response.
Cerrar ==
  /\ ~red.cerrada
  /\ red' = [red EXCEPT !.cerrada = TRUE, !.sinAck = 0, !.ocupado = FALSE]
  /\ resp' = SinRespuesta
  /\ UNCHANGED <<caso, llegado, req, rxTimeout, tardes>>

PlazoAck == red.ocupado /\ Cerrar
Cortar   == Cerrar
\* The mutant keeps the timeout for the first line only.
PlazoRx_SoloInicio == rxTimeout /\ req.parseState = "START" /\ Cerrar
PlazoRx == rxTimeout /\ Cerrar

Acks == \E n \in 1..Ventana, o, f \in BOOLEAN : Confirmar(n, o, f)
Sondeo == \E o, f \in BOOLEAN : Sondear(o, f)

Next ==
  \/ \E n \in 1..(Len(caso.pedido) - llegado), o, f \in BOOLEAN :
       \E basura \in IF caso.pedido[1] = "LF" THEN Estados ELSE {"FAIL"} : Paquete(n, o, f, basura)
  \/ Acks
  \/ Sondeo
  \/ PlazoAck
  \/ PlazoRx
  \/ Cortar

\* When a poll, and an ack or its timeout, change something.
PuedeSondear ==
  /\ ~red.cerrada /\ HayRespuesta /\ ~Finished(resp) /\ Espacio(red) > 0
  /\ resp.estado = "WAIT_ACK" => ~SendContentLength(resp) \/ resp.ackedLength >= resp.writtenLength
  /\ resp.estado = "CONTENT" /\ Chunked(resp) => Espacio(red) > 8
PuedeConfirmar == ~red.cerrada /\ (red.sinAck > 0 \/ red.ocupado)

\* lwIP polls, what was sent is acked or its timeout comes, and so does the one of
\* the request: weak fairness of the three.  Two are written out because ENABLED
\* would make TLC compute whole responses.  Nothing makes the peer send or leave.
Justicia ==
  /\ []<>(~PuedeSondear) \/ []<><<Sondeo>>_vars
  /\ []<>(~PuedeConfirmar) \/ []<><<Acks \/ PlazoAck>>_vars
  /\ WF_vars(PlazoRx)
Spec == Init /\ [][Next]_vars /\ Justicia

-----------------------------------------------------------------------------
\* However the packets are cut, the handler is called once, when the whole request
\* has arrived, and finds the fields, the files and the body that the peer sent,
\* byte by byte and each upload call where the one before ended, also in a form that
\* states a wrong length.  When the length it states is short and a packet ends just
\* there, the handler finds what that much holds.  Of a request that was deleted and
\* read nothing is said (WebRequest.cpp:170-175, 380-552).
FormFiel ==
  LET corta == caso.breve /\ req.parsedLength = caso.largo
  IN  ~req.borrada =>
      /\ req.manejos <= 1
      /\ req.manejos = 1 => llegado >= caso.minimo \/ corta
      /\ req.parseState = "END" /\ ~caso.trivial =>
           /\ IF corta THEN IsPrefix(req.params, caso.params) ELSE req.params = caso.params
           /\ IF corta THEN IsPrefix(req.archivos, caso.archivos) ELSE req.archivos = caso.archivos
           /\ req.cuerpo = caso.cuerpo
           /\ req.enOrden

\* The template as its author reads it: every name between two marks is replaced.
Expansion[s \in Seq(Nat)] ==
  LET a == SelectInSeq(s, LAMBDA x : x = Por)
      resto == SubSeq(s, a + 1, Len(s))
      e == SelectInSeq(resto, LAMBDA x : x = Por)
  IN  IF a = 0 \/ e = 0 THEN s
      ELSE SubSeq(s, 1, a - 1) \o (IF e = 1 THEN <<Por>> ELSE Valor(SubSeq(resto, 1, e - 1)))
           \o Expansion[SubSeq(resto, e + 1, Len(resto))]

Enviado == SelectSeq(red.cable, LAMBDA x : x # Continue)
DatosEnviados  == SubSeq(Enviado, Len(Cabecera) + 1, Len(Enviado))
Expansiones == [c \in Casos |-> Expansion[c.contenido]]
Esperado ==
  IF caso.trivial \/ caso.clase = "invalida" THEN <<>>
  ELSE IF caso.clase = "plantilla" THEN Expansiones[caso] ELSE caso.contenido
Tallas(w) == {i \in 1..Len(w) : w[i] >= 500}

\* Each chunk holds as many bytes as it says, and the next begins behind it.
BienTrozado(w) ==
  /\ w # <<>> => 1 \in Tallas(w)
  /\ \A i \in Tallas(w) :
       LET n == w[i] - 500
           esContenido(j) == j \in (i + 6)..(i + 5 + n)
       IN  /\ i + 7 + n <= Len(w)
           /\ \A j \in (i + 1)..(i + 7 + n) : esContenido(j) <=> w[j] < Relleno
           /\ i + 7 + n = Len(w) \/ (n > 0 /\ i + 8 + n \in Tallas(w))

\* However the acks cut the window, the peer receives the head and then the content
\* in order, with every placeholder replaced, framed as chunks where the head says
\* so, and all of it when the response ends.  Not so if a write failed, or if the
\* source had nothing for the first one (WebResponses.cpp:275-297).  A response with
\* a length ends when all of it is acked, unless the ack of 100 Continue came late
\* and was counted as one of its bytes.
RespuestaIntegra ==
  /\ resp.estado = "END" /\ SendContentLength(resp) /\ ~req.continua => red.sinAck = 0
  /\ HayRespuesta /\ ~red.fallida /\ ~resp.pospuesta =>
       LET datos == SelectSeq(DatosEnviados, LAMBDA x : x < Relleno)
       IN  /\ IsPrefix(Cabecera, Enviado) \/ IsPrefix(Enviado, Cabecera)
           /\ IsPrefix(datos, Esperado)
           /\ Chunked(resp) => BienTrozado(DatosEnviados)
           /\ resp.estado = "END" =>
                /\ datos = Esperado
                /\ Chunked(resp) => 500 \in Range(DatosEnviados)

\* Every connection is closed or its response ends: a request that does not
\* arrive meets the timeout, one that does is answered.
Terminada == red.cerrada \/ Finished(resp)
PeticionTermina == <>Terminada
=============================================================================
