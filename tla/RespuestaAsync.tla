--------------------------- MODULE RespuestaAsync ---------------------------
(***************************************************************************)
(* The responses of ESPAsyncWebServer (WebResponses.cpp) as operators on a   *)
(* pair of records: the response p and what the connection has of it, red.   *)
(* The bytes on the wire are numbers: those of the content are below 400,    *)
(* the frame of a chunk is its size, 500 + n, and Relleno.                   *)
(***************************************************************************)
EXTENDS Integers, Sequences, SequencesExt

CONSTANTS
  Cabecera,   \* the head of a response, a sequence of bytes
  Ventana,    \* send buffer of a connection (TCP_SND_BUF, 5744)
  NombreMax,  \* TEMPLATE_PARAM_NAME_LENGTH (32)
  Valores     \* the names processor() knows, a function to their values

\* The 8 bytes of frame around a chunk fit beside the head in an empty window.
ASSUME RespuestaAssumption ==
  /\ Cabecera # <<>>
  /\ Ventana \in Nat /\ Ventana > Len(Cabecera) + 8
  /\ NombreMax \in Nat \ {0}

Relleno == 499
Por     == 399   \* the placeholder mark, "%"
Valor(n) == IF n \in DOMAIN Valores THEN Valores[n] ELSE <<>>
Bytes(n, b) == [i \in 1..n |-> b]
LOCAL Tomar(s, n) == SubSeq(s, 1, n)
LOCAL Dejar(s, n) == SubSeq(s, n + 1, Len(s))
LOCAL MinDe(a, b) == IF a < b THEN a ELSE b

-----------------------------------------------------------------------------
\* AsyncClient::space(), write(): what does not fit is not written, and a write
\* that lwIP has no memory for is not written at all.
RedNueva == [cable |-> <<>>, sinAck |-> 0, ocupado |-> FALSE, fallida |-> FALSE, cerrada |-> FALSE]
Espacio(red) == IF red.cerrada THEN 0 ELSE Ventana - red.sinAck
write(red, datos, falla) ==
  LET n == MinDe(Espacio(red), Len(datos))
  IN  IF n = 0 THEN red
      ELSE IF falla THEN [red EXCEPT !.fallida = TRUE]
      ELSE [red EXCEPT !.cable = @ \o Tomar(datos, n), !.sinAck = @ + n, !.ocupado = TRUE]

\* The response with the count of what this write took.
Escrita(p, red, red2) == [p EXCEPT !.writtenLength = @ + Len(red2.cable) - Len(red.cable)]

-----------------------------------------------------------------------------
\* The kinds: "basica" holds its content, and the others read it from a source:
\* "archivo" states its length, "flujo" has none and ends with the connection,
\* "trozos" and "plantilla" are chunked, the latter with its placeholders replaced.
Preparada(clase, contenido) ==
  [clase |-> clase, estado |-> "SETUP",
   head |-> IF clase = "basica" THEN <<>> ELSE Cabecera,
   content |-> contenido, cache |-> <<>>,
   contentLength |-> IF clase \in {"basica", "archivo"} THEN Len(contenido) ELSE 0,
   sentLength |-> 0, writtenLength |-> 0, ackedLength |-> 0, pospuesta |-> FALSE]
Chunked(p)           == p.clase \in {"trozos", "plantilla"}
SendContentLength(p) == p.clase \in {"basica", "archivo"}
\* AsyncResponseStream::write(): what is printed once the response has begun is lost.
Impresa(p, datos) ==
  IF p.estado # "SETUP" THEN p ELSE [p EXCEPT !.content = @ \o datos, !.contentLength = @ + Len(datos)]
Finished(p)          == p.estado \in {"END", "FAILED"}

\* AsyncBasicResponse::_respond().  When the head and the space are of one size
\* nothing is written until the next poll.
RespondBasica(p, red, falla) ==
  LET head == Cabecera
      todo == head \o p.content
      n    == Espacio(red)
      red2 == write(red, Tomar(todo, MinDe(n, Len(todo))), falla)
      k    == Len(head)
  IN  IF n >= Len(todo)
      THEN [p |-> [Escrita(p, red, red2) EXCEPT !.estado = "WAIT_ACK"], red |-> red2]
      ELSE IF 0 < n /\ n < k
      THEN [p |-> [Escrita(p, red, red2) EXCEPT !.estado = "CONTENT", !.content = Dejar(todo, n),
                                                !.contentLength = @ + k - n],
            red |-> red2]
      ELSE IF n > k
      THEN [p |-> [Escrita(p, red, red2) EXCEPT !.estado = "CONTENT", !.content = Dejar(todo, n),
                                                !.sentLength = @ + n - k],
            red |-> red2]
      ELSE [p |-> [p EXCEPT !.estado = "CONTENT", !.content = todo, !.contentLength = @ + k],
            red |-> red]

\* AsyncBasicResponse::_ack(): the last of the content has to be smaller than the
\* space.
AckBasica(p0, red, len, falla) ==
  LET p == [p0 EXCEPT !.ackedLength = @ + len]
      available == p.contentLength - p.sentLength
      n == Espacio(red)
      cabe == n > available
      red2 == write(red, Tomar(p.content, IF cabe THEN available ELSE n), falla)
  IN  IF p.estado = "CONTENT"
      THEN [p |-> IF cabe
                  THEN [Escrita(p, red, red2) EXCEPT !.content = <<>>, !.estado = "WAIT_ACK"]
                  ELSE [Escrita(p, red, red2) EXCEPT !.content = Dejar(@, n), !.sentLength = @ + n],
            red |-> red2]
      ELSE [p |-> IF p.estado = "WAIT_ACK" /\ p.ackedLength >= p.writtenLength
                  THEN [p EXCEPT !.estado = "END"] ELSE p,
            red |-> red]

-----------------------------------------------------------------------------
\* _fillBuffer() of the sources: a file, a stream, memory, a function of the sketch
\* that is told how far it has come, or what was printed: all that it has, up to n
\* bytes, and what is left of it.
_fillBuffer(fuente, n) ==
  LET m == MinDe(n, Len(fuente))
  IN  [datos |-> Tomar(fuente, m), fuente |-> Dejar(fuente, m)]

\* _readDataFromCacheOrContent(): the cache first, then the source.
Leer(cache, fuente, n) ==
  LET k == MinDe(n, Len(cache))
      f == _fillBuffer(fuente, n - k)
  IN  [datos |-> Tomar(cache, k) \o f.datos, cache |-> Dejar(cache, k), fuente |-> f.fuente]

\* The replacement of the placeholder in a..e of the buffer: the value is cut at
\* the end of the buffer, what it displaces or lacks goes to the cache, and the
\* room it leaves is filled.
Reemplazar(s, a, e, valor, cap) ==
  LET n     == Len(s.datos)
      m     == MinDe(Len(valor), cap - a + 1)
      fin   == a - 1 + m
      falta == fin > e /\ cap - (fin - e) < n
      cabe  == IF falta THEN cap - (fin - e) ELSE n
      nuevo == Tomar(s.datos, a - 1) \o Tomar(valor, m) \o SubSeq(s.datos, e + 1, cabe)
      cache == Dejar(Tomar(s.datos, n), cabe) \o s.cache
  IN  IF m < Len(valor)
      THEN [s EXCEPT !.datos = Tomar(nuevo, IF falta THEN cap ELSE n),
                     !.cache = Dejar(valor, m) \o cache]
      ELSE IF fin < e THEN LET l == Leer(s.cache, s.fuente, cap - Len(nuevo))
                           IN  [l EXCEPT !.datos = nuevo \o @]
      ELSE [s EXCEPT !.datos = nuevo, !.cache = cache]

\* The placeholder opens at a and does not close in the buffer: its end is sought
\* as far ahead as a name is long, and what was read ahead and not used is kept.
\* The mutant does not keep it.
Adelantar_SinCache(s, a) ==
  LET n == Len(s.datos)
      l == Leer(s.cache, s.fuente, NombreMax + 1 - (n - a))
      k == SelectInSeq(l.datos, LAMBDA x : x = Por)
  IN  [cierra |-> k > 0,
       nombre |-> SubSeq(s.datos, a + 1, n) \o Tomar(l.datos, IF k > 0 THEN k - 1 ELSE 0),
       s |-> [s EXCEPT !.cache = l.cache, !.fuente = l.fuente]]
Adelantar(s, a) ==
  LET n == Len(s.datos)
      l == Leer(s.cache, s.fuente, NombreMax + 1 - (n - a))
      k == SelectInSeq(l.datos, LAMBDA x : x = Por)
  IN  [cierra |-> k > 0,
       nombre |-> SubSeq(s.datos, a + 1, n) \o Tomar(l.datos, IF k > 0 THEN k - 1 ELSE 0),
       s |-> [s EXCEPT !.cache = Dejar(l.datos, k) \o l.cache, !.fuente = l.fuente]]

\* _fillBufferAndProcessTemplates(), from the i-th byte of the buffer on.
Bufer == [datos : Seq(Nat), cache : Seq(Nat), fuente : Seq(Nat)]
Expandir[s \in Bufer, i \in Nat, cap \in Nat] ==
  LET n == Len(s.datos)
      marcas == {j \in i..n : s.datos[j] = Por}
      a == CHOOSE j \in marcas : \A k \in marcas : j <= k
      otras == marcas \ {a}
      e == CHOOSE j \in otras : \A k \in otras : j <= k
      ad == Adelantar(s, a)
      sinDoble == Tomar(s.datos, a) \o Dejar(s.datos, e)
      l == Leer(s.cache, s.fuente, 1)
  IN  IF marcas = {} THEN s
      ELSE IF otras # {} /\ e = a + 1
      THEN Expandir[[l EXCEPT !.datos = sinDoble \o @], a + 1, cap]
      ELSE IF otras # {}
      THEN LET nombre == SubSeq(s.datos, a + 1, MinDe(e - 1, a + NombreMax))
           IN  Expandir[Reemplazar(s, a, e, Valor(nombre), cap), a, cap]
      ELSE IF n - a >= NombreMax + 1 THEN Expandir[s, a + 1, cap]
      ELSE IF ~ad.cierra THEN Expandir[ad.s, a + 1, cap]
      ELSE IF ad.nombre = <<>> THEN Expandir[ad.s, a, cap]
      ELSE Expandir[Reemplazar(ad.s, a, n, Valor(ad.nombre), cap), a, cap]

\* _fillBuffer() with at most cap bytes, and the placeholders replaced.
LlenarBufer(p, cap) ==
  LET l == Leer(p.cache, p.content, cap)
  IN  IF p.clase = "plantilla" THEN Expandir[l, 1, cap] ELSE l

\* A chunk of HTTP 1.1: its size in six bytes, the content, two more.
Trozo(datos) == <<500 + Len(datos)>> \o Bytes(5, Relleno) \o datos \o Bytes(2, Relleno)

-----------------------------------------------------------------------------
\* The last branch of AsyncAbstractResponse::_ack().
FinDeAck(p, red) ==
  IF p.estado = "WAIT_ACK" /\ (~SendContentLength(p) \/ p.ackedLength >= p.writtenLength)
  THEN [p |-> [p EXCEPT !.estado = "END"],
        red |-> IF p.clase = "flujo" THEN [red EXCEPT !.cerrada = TRUE] ELSE red]
  ELSE [p |-> p, red |-> red]

\* What was read goes out behind what is left of the head, as a chunk where the
\* head says so.
Sacar(p, red, l, falla) ==
  LET sale == p.head \o (IF Chunked(p) THEN Trozo(l.datos) ELSE l.datos)
      red2 == write(red, sale, falla)
      q    == [Escrita(p, red, red2)
                 EXCEPT !.head = <<>>, !.content = l.fuente, !.cache = l.cache,
                        !.sentLength = @ + Len(l.datos)]
      fin  == \/ Chunked(p) /\ l.datos = <<>>
              \/ ~SendContentLength(p) /\ sale = <<>>
              \/ ~Chunked(p) /\ q.sentLength = p.contentLength
  IN  [p |-> IF fin THEN [q EXCEPT !.estado = "WAIT_ACK"] ELSE q, red |-> red2]

\* The branch for the content.  In the call that ends the head, space is what the
\* head leaves, and the head goes out in the same write; a call that the source,
\* or malloc, has nothing for leaves it for the next one, which counts the whole
\* space for the content.
ContenidoDeAck(p, red, espacio, otraVez, falla) ==
  LET k   == MinDe(espacio, p.contentLength - p.sentLength)
      cap == IF Chunked(p) THEN espacio - 8 ELSE IF p.clase = "archivo" THEN k ELSE espacio
  IN  IF (Chunked(p) /\ espacio <= 8) \/ otraVez
      THEN [p |-> [p EXCEPT !.pospuesta = @ \/ p.head # <<>>], red |-> red]
      ELSE Sacar(p, red, LlenarBufer(p, cap), falla)

\* AsyncAbstractResponse::_ack()
AckAbstracta(p0, red, len, otraVez, falla) ==
  LET p == [p0 EXCEPT !.ackedLength = @ + len]
      n == Espacio(red)
      red2 == write(red, Tomar(p.head, n), falla)
  IN  IF p.estado = "HEADERS" /\ n < Len(p.head)
      THEN [p |-> [Escrita(p, red, red2) EXCEPT !.head = Dejar(@, n)], red |-> red2]
      ELSE IF p.estado \in {"HEADERS", "CONTENT"}
      THEN ContenidoDeAck([p EXCEPT !.estado = "CONTENT"], red,
                          IF p.estado = "HEADERS" THEN n - Len(p.head) ELSE n, otraVez, falla)
      ELSE FinDeAck(p, red)

_ack(p, red, len, otraVez, falla) ==
  IF p.clase = "basica" THEN AckBasica(p, red, len, falla)
  ELSE AckAbstracta(p, red, len, otraVez, falla)

_respond(p, red, otraVez, falla) ==
  IF p.clase = "basica" THEN RespondBasica(p, red, falla)
  ELSE AckAbstracta([p EXCEPT !.estado = "HEADERS"], red, 0, otraVez, falla)
=============================================================================
