---------------------------- MODULE ServidorHttp ----------------------------
(***************************************************************************)
(* The WebServer library of the ESP32 core (WebServer.cpp, Parsing.cpp): one *)
(* client at a time, read by blocking calls that give up after a timeout.    *)
(* Each read of a line, of a body or of a byte of an uploaded file is a      *)
(* step, and the client may be slow or vanish before any of them.  A line    *)
(* that does not come in time is read as the empty one, "".  Lines are whole *)
(* symbols, those of a file are its bytes; a line that is taken for a piece  *)
(* of a file counts as one byte of it.                                       *)
(***************************************************************************)
EXTENDS Integers, Sequences, SequencesExt

CONSTANTS
  Peticiones,  \* records [metodo, version, manejador, tipo, largo, query, texto]
  Frontera,    \* the boundary of a multipart form, a sequence of bytes
  MaxArgs,     \* WEBSERVER_MAX_POST_ARGS
  BufLen,      \* HTTP_UPLOAD_BUFLEN
  MaxEspera    \* HTTP_MAX_DATA_WAIT, in passes of handleClient()

Bytes   == {"CR", "LF", "-"} \cup Range(Frontera)
Lineas  == {"linea", "cabeceras", "dato", "abre", "cierra", "campo", "archivo", "tipo", "vacia",
            "mas", "fin", "cola"}  \* the last one is what is left of a line
Metodos == {"GET", "POST", "otro", "mudo"}  \* the last one sends nothing
Tipos   == {"texto", "encoded", "form"}

ASSUME PeticionesAssumption ==
  \A p \in Peticiones :
    /\ p.metodo \in Metodos /\ p.version \in {0, 1} /\ p.tipo \in Tipos
    /\ p.manejador \in {"ninguno", "estatico", "fn", "fnSubida"}
    /\ p.largo \in Nat /\ p.query \in Nat
    /\ p.texto \in Seq(Lineas \cup Bytes)
ASSUME FronteraAssumption ==
  Frontera \in Seq(Bytes) /\ Len(Frontera) > 0 /\ "CR" \notin Range(Frontera)
ASSUME LimitesAssumption ==
  MaxArgs \in Nat \ {0} /\ BufLen \in Nat \ {0} /\ MaxEspera \in Nat

VARIABLES
  estado,     \* _currentStatus
  red,        \* the peer: "sin", "viva", "cortada"
  entrada,    \* what it has still to send
  espera,     \* passes since _statusChange
  paso,       \* where the parser or the handler is
  pet,        \* the request, as its own bytes describe it
  leido,      \* bytes of the body that have been read
  args,       \* _currentArgs
  postArgs,   \* _postArgs: of which request each one is, "esta" or "otra"
  subida,     \* _currentUpload: [buf, total], or Nada
  retenido,   \* the bytes that may begin the delimiter of the file
  chunked,    \* _chunked
  salida,     \* history: what the response looks like so far
  aviso,      \* history: the last upload callback of the sketch
  entregado,  \* history: the bytes it has been given of the file
  desde,      \* history: what its peer sends after the header of the file
  duda        \* history: "cabecera" when that header was not read as it is, "strstr"
              \* when its end was found behind the buffer that holds it, or "ninguna"

entradas  == <<red, entrada, pet>>
cuerpo    == <<leido, args, postArgs>>
archivo   == <<subida, retenido, aviso, entregado, desde, duda>>
respuesta == <<chunked, salida>>
vars == <<estado, espera, paso, entradas, cuerpo, archivo, respuesta>>

Nada  == [buf |-> <<>>, total |-> -1]
Nadie == CHOOSE p \in Peticiones : TRUE
Init ==
  /\ estado = "HC_NONE" /\ red = "sin" /\ entrada = <<>> /\ espera = 0 /\ paso = "reposo"
  /\ pet = Nadie /\ leido = 0 /\ args = <<>> /\ postArgs = <<>>
  /\ subida = Nada /\ retenido = <<>> /\ chunked = FALSE
  /\ salida = "nada" /\ aviso = "nada" /\ entregado = <<>> /\ desde = <<>>
  /\ duda = "ninguna"

-----------------------------------------------------------------------------
\* The peer.
Conectar(p) ==
  /\ red = "sin" /\ red' = "viva" /\ pet' = p
  /\ entrada' = IF p.metodo = "mudo" THEN <<>> ELSE <<"linea", "cabeceras">> \o p.texto
  /\ postArgs' = [i \in DOMAIN postArgs |-> "otra"]
  /\ salida' = "nada" /\ aviso' = "nada"
  /\ UNCHANGED <<estado, espera, paso, leido, args, subida, retenido, entregado, desde, duda, chunked>>

Cortar ==
  /\ red = "viva" /\ red' = "cortada" /\ entrada' = <<>>
  /\ UNCHANGED <<estado, espera, paso, pet, cuerpo, archivo, respuesta>>

-----------------------------------------------------------------------------
\* The end of a call of handleClient() that does not keep the client.  The old
\* _currentArgs are not read before they are made anew, and are forgotten here.
Soltar ==
  /\ estado' = "HC_NONE" /\ paso' = "reposo" /\ espera' = 0
  /\ red' = "sin" /\ entrada' = <<>>
  /\ subida' = Nada /\ retenido' = <<>> /\ leido' = 0
  /\ pet' = Nadie /\ entregado' = <<>> /\ desde' = <<>> /\ duda' = "ninguna" /\ args' = <<>>

Aceptar ==
  /\ estado = "HC_NONE" /\ red # "sin"
  /\ estado' = "HC_WAIT_READ" /\ espera' = 0
  /\ UNCHANGED <<paso, entradas, cuerpo, archivo, respuesta>>

\* No data yet.  The mutant never gives up.
EsperarDatos_SinPlazo ==
  /\ estado = "HC_WAIT_READ" /\ paso = "reposo"
  /\ IF red = "viva"
     THEN espera' = Min({espera + 1, MaxEspera + 1})
          /\ UNCHANGED <<estado, paso, entradas, leido, args, subida, retenido, entregado, desde, duda>>
     ELSE Soltar
  /\ UNCHANGED <<postArgs, aviso, respuesta>>
EsperarDatos ==
  /\ estado = "HC_WAIT_READ" /\ paso = "reposo"
  /\ IF red = "viva" /\ espera <= MaxEspera
     THEN espera' = espera + 1
          /\ UNCHANGED <<estado, paso, entradas, leido, args, subida, retenido, entregado, desde, duda>>
     ELSE Soltar
  /\ UNCHANGED <<postArgs, aviso, respuesta>>

\* readStringUntil() of a CR and then of its LF, each with a timeout: the next line,
\* or "" when it does not come whole.  What is late is read later, or the second of
\* the two takes it, or part of it; bytes that are read as a line reach to its end.
Lee(l) == l = "" \/ (red = "viva" /\ entrada # <<>> /\ l = Head(entrada))
FinDeLinea ==
  Min({k \in DOMAIN entrada : \/ entrada[k] \in Lineas
                              \/ entrada[k] = "LF" /\ \E j \in 1..k : entrada[j] = "CR"}
      \cup {Len(entrada)})
Restos(l) ==
  IF l # "" THEN {Tail(entrada)}
  ELSE {SubSeq(entrada, k + 1, Len(entrada)) : k \in 0..FinDeLinea}
       \cup {<<"cola">> \o Tail(e) : e \in {x \in {entrada} : x # <<>> /\ Head(x) \in Lineas}}

\* _parseArguments() of n arguments of the URL and of a form that is encoded.
Argumentos(n) == [i \in 1..n |-> "esta"]

Rechazar == Soltar /\ UNCHANGED <<postArgs, aviso, respuesta>>

-----------------------------------------------------------------------------
\* _parseRequest(); a line that does not come whole is not a request.
LineaDePeticion(entera) ==
  /\ estado = "HC_WAIT_READ" /\ paso = "reposo"
  /\ red = "viva" /\ entrada # <<>>
  /\ IF pet.metodo = "otro" \/ ~entera THEN Rechazar
     ELSE /\ paso' = "cabeceras" /\ chunked' = FALSE /\ entrada' = Tail(entrada)
          /\ UNCHANGED <<estado, espera, red, pet, cuerpo, archivo, salida>>

\* A header that does not come in time reads as the empty line that ends them:
\* without Content-Type and Content-Length the request has no body.
Cabeceras(l) ==
  /\ paso = "cabeceras" /\ Lee(l) /\ entrada' \in Restos(l)
  /\ LET conCuerpo == pet.metodo = "POST" /\ l # ""
         siguiente == IF conCuerpo /\ pet.tipo = "form" THEN "form"
                      ELSE IF conCuerpo /\ pet.largo > 0 THEN "cuerpo" ELSE "manejar"
     IN  /\ paso' = siguiente
         /\ args' = IF siguiente = "cuerpo" THEN args ELSE Argumentos(pet.query)
  /\ UNCHANGED <<estado, espera, red, pet, leido, postArgs, archivo, respuesta>>

\* readBytesWithTimeout(): whatever has arrived, past Content-Length too.
Cuerpo(k) ==
  /\ paso = "cuerpo" /\ red = "viva" /\ k \in 1..Len(entrada)
  /\ entrada' = SubSeq(entrada, k + 1, Len(entrada)) /\ leido' = leido + k
  /\ IF leido' < pet.largo THEN UNCHANGED <<paso, args>>
     ELSE /\ paso' = "manejar"
          /\ args' = Argumentos(pet.query + IF pet.tipo = "encoded" THEN leido' ELSE 1)
  /\ UNCHANGED <<estado, espera, red, pet, postArgs, archivo, respuesta>>

CuerpoTarde == paso = "cuerpo" /\ Rechazar

-----------------------------------------------------------------------------
\* _parseForm()
Form(l) ==
  /\ paso = "form" /\ Lee(l)
  /\ IF l # "abre" THEN Rechazar
     ELSE /\ paso' = "parte" /\ postArgs' = <<>> /\ entrada' \in Restos(l)
          /\ UNCHANGED <<estado, espera, red, pet, leido, args, archivo, respuesta>>

\* The upload callback of the sketch, if canUpload() finds one.
Avisar(tipo)     == aviso' = IF pet.manejador = "fnSubida" THEN tipo ELSE aviso
Entregar(buf)    == IF pet.manejador = "fnSubida" THEN entregado \o buf ELSE entregado

\* The header of a part is up to three reads.  The line that opens it; any other is
\* skipped.  What the peer sends after its Content-Type and its blank line is its
\* body.
TrasCabecera(e) ==
  LET t == IF e # <<>> /\ Head(e) = "tipo" THEN Tail(e) ELSE e
  IN  IF t # <<>> THEN Tail(t) ELSE t
Parte(l) ==
  /\ paso = "parte" /\ Lee(l) /\ entrada' \in Restos(l)
  /\ paso' = CASE l = "campo" -> "tipoCampo" [] l = "archivo" -> "tipoArchivo" [] OTHER -> "parte"
  /\ duda' = "ninguna"
  /\ desde' = IF l = "archivo" THEN TrasCabecera(entrada') ELSE desde
  /\ UNCHANGED <<estado, espera, red, pet, cuerpo, subida, retenido, aviso, entregado, respuesta>>

\* After its header: the value of a field, or a file.
EmpezarParte(l) ==
  IF paso \in {"tipoCampo", "blancoCampo"}
  THEN paso' = "valor" /\ UNCHANGED <<subida, aviso, entregado, duda>>
  ELSE /\ paso' = "subir" /\ subida' = [buf |-> <<>>, total |-> 0]
       /\ Avisar("START") /\ entregado' = <<>> /\ duda' = IF l = "vacia" THEN "ninguna" ELSE "cabecera"

\* The next line: a Content-Type, or else the header ends here, whatever was read.
\* The mutant does not skip the blank line after a Content-Type.
TipoDeParte_SinBlanco(l) ==
  /\ paso \in {"tipoCampo", "tipoArchivo"} /\ Lee(l) /\ entrada' \in Restos(l)
  /\ EmpezarParte(IF l = "tipo" THEN "vacia" ELSE l)
  /\ UNCHANGED <<estado, espera, red, pet, cuerpo, retenido, desde, respuesta>>
TipoDeParte(l) ==
  /\ paso \in {"tipoCampo", "tipoArchivo"} /\ Lee(l) /\ entrada' \in Restos(l)
  /\ IF l = "tipo"
     THEN /\ paso' = IF paso = "tipoCampo" THEN "blancoCampo" ELSE "blancoArchivo"
          /\ UNCHANGED <<subida, aviso, entregado, duda>>
     ELSE EmpezarParte(l)
  /\ UNCHANGED <<estado, espera, red, pet, cuerpo, retenido, desde, respuesta>>
\* The line after a Content-Type is skipped, whatever it is.
BlancoDeParte(l) ==
  /\ paso \in {"blancoCampo", "blancoArchivo"} /\ Lee(l) /\ entrada' \in Restos(l)
  /\ EmpezarParte(l)
  /\ UNCHANGED <<estado, espera, red, pet, cuerpo, retenido, desde, respuesta>>

\* A field, whose value goes on until a line begins with the boundary; the mutant
\* has no limit on the number of fields.
Valor_SinLimite(l) ==
  /\ paso = "valor" /\ Lee(l) /\ entrada' \in Restos(l)
  /\ IF l \notin {"abre", "cierra"} THEN UNCHANGED <<paso, postArgs>>
     ELSE /\ paso' = IF l = "cierra" THEN "finForm" ELSE "parte"
          /\ postArgs' = Append(postArgs, "esta")
  /\ UNCHANGED <<estado, espera, red, pet, leido, args, archivo, respuesta>>
Valor(l) ==
  /\ paso = "valor" /\ Lee(l)
  /\ postArgs' = IF l \in {"abre", "cierra"} THEN Append(postArgs, "esta") ELSE postArgs
  /\ IF l = "abre" /\ Len(postArgs') >= MaxArgs
     THEN Soltar /\ UNCHANGED aviso
     ELSE /\ paso' = CASE l = "cierra" -> "finForm" [] l = "abre" -> "parte" [] OTHER -> paso
          /\ entrada' \in Restos(l)
          /\ UNCHANGED <<estado, espera, red, pet, leido, args, archivo>>
  /\ UNCHANGED respuesta

\* The end of the form: the arguments of the URL join its fields while there is
\* room, and all of them become the arguments of the request.  The mutant has no limit.
UnirArgumentos_SinLimite ==
  /\ paso = "finForm" /\ paso' = "copiar" /\ postArgs' = postArgs \o args
  /\ UNCHANGED <<estado, espera, entradas, leido, args, archivo, respuesta>>
UnirArgumentos ==
  /\ paso = "finForm" /\ paso' = "copiar"
  /\ postArgs' = postArgs \o SubSeq(args, 1, Min({Len(args), MaxArgs - Len(postArgs)}))
  /\ UNCHANGED <<estado, espera, entradas, leido, args, archivo, respuesta>>
CopiarArgumentos ==
  /\ paso = "copiar" /\ paso' = "manejar"
  /\ args' = postArgs /\ postArgs' = <<>>
  /\ UNCHANGED <<estado, espera, entradas, leido, archivo, respuesta>>

-----------------------------------------------------------------------------
\* The bytes of a file.

\* _uploadWriteByte(), for each byte of a sequence: a full buffer is handed over
\* when the next byte comes.
Escribir(bytes) ==
  LET todo  == subida.buf \o bytes
      queda == IF Len(todo) <= BufLen THEN Len(todo) ELSE 1 + ((Len(todo) - 1) % BufLen)
      dado  == Len(todo) - queda
  IN  [buf |-> SubSeq(todo, dado + 1, Len(todo)), total |-> subida.total + dado,
       dado |-> SubSeq(todo, 1, dado)]

Delimitador == <<"CR", "LF", "-", "-">> \o Frontera

\* What a byte adds to the file, given the bytes kept back because they may begin
\* the delimiter: readfile, and the goto back to it with the byte read again.
\* Within the boundary only its whole length is compared, by strstr() on a buffer
\* without a zero at its end, which may find the boundary in what lies behind
\* (strstr is its result).  The mutant loses the one dash of a delimiter that breaks after it.
Suelta_SinGuion(b, strstr) ==
  LET visto == Append(retenido, b)
      n     == Len(visto)
      sigue == IF n <= 4 THEN b = Delimitador[n] ELSE b # "CR"
      roto  == IF n = 4 THEN SubSeq(retenido, 1, 2) ELSE retenido
  IN  IF ~sigue
      THEN IF b = "CR" THEN [escribe |-> roto, guarda |-> <<b>>]
                       ELSE [escribe |-> Append(roto, b), guarda |-> <<>>]
      ELSE IF n = Len(Delimitador) /\ strstr = "NULL"
           THEN [escribe |-> visto, guarda |-> <<>>]
           ELSE [escribe |-> <<>>, guarda |-> visto]
Suelta(b, strstr) ==
  LET visto == Append(retenido, b)
      n     == Len(visto)
      sigue == IF n <= 4 THEN b = Delimitador[n] ELSE b # "CR"
      otra  == IF b = "CR" THEN [escribe |-> retenido, guarda |-> <<b>>]
                           ELSE [escribe |-> visto, guarda |-> <<>>]
  IN  IF ~sigue THEN otra
      ELSE IF n = Len(Delimitador) /\ strstr = "NULL"
           THEN [escribe |-> visto, guarda |-> <<>>]
           ELSE [escribe |-> <<>>, guarda |-> visto]

\* _uploadReadByte() waits for a byte; SubidaRota is its timeout.
HayByte == red = "viva" /\ entrada # <<>>

Subir(strstr) ==
  /\ paso = "subir" /\ HayByte
  /\ Append(retenido, Head(entrada)) = Delimitador => strstr # "NULL"
  /\ LET s == Suelta(Head(entrada), strstr)
         u == Escribir(s.escribe)
     IN  IF Len(s.guarda) = Len(Delimitador)
         THEN /\ entregado' = Entregar(subida.buf) /\ Avisar("END")
              /\ subida' = [subida EXCEPT !.total = @ + Len(subida.buf)]
              /\ retenido' = <<>> /\ paso' = "trasArchivo"
              /\ duda' = IF s.guarda = Delimitador THEN duda ELSE "strstr"
         ELSE /\ entregado' = Entregar(u.dado)
              /\ IF u.total = subida.total THEN UNCHANGED aviso ELSE Avisar("WRITE")
              /\ subida' = [buf |-> u.buf, total |-> u.total]
              /\ retenido' = s.guarda /\ UNCHANGED <<paso, duda>>
  /\ entrada' = Tail(entrada)
  /\ UNCHANGED <<estado, espera, red, pet, desde, cuerpo, respuesta>>

\* _parseFormUploadAborted(): the time for a byte is over, or the client is gone;
\* the mutant does not tell the sketch.
SubidaRota_SinAviso ==
  /\ paso = "subir" /\ Soltar
  /\ UNCHANGED <<postArgs, aviso, respuesta>>
SubidaRota ==
  /\ paso = "subir" /\ Soltar /\ Avisar("ABORTED")
  /\ UNCHANGED <<postArgs, respuesta>>

\* What follows the boundary on its line: "--" ends the form.
TrasArchivo(l) ==
  /\ paso = "trasArchivo" /\ Lee(l) /\ entrada' \in Restos(l)
  /\ paso' = IF l = "fin" THEN "finForm" ELSE "parte"
  /\ UNCHANGED <<estado, espera, red, pet, cuerpo, archivo, respuesta>>

-----------------------------------------------------------------------------
\* _handleRequest(): the handler, the sketch's answer for what is not found, or
\* a 404; and what they write.

\* send() of n bytes; desconocido is setContentLength(CONTENT_LENGTH_UNKNOWN).
Trozo(n, s) ==
  IF s = "trozos" THEN IF n = 0 THEN "terminada" ELSE "trozos"
  ELSE IF s = "terminada" THEN "mal" ELSE s
send(desconocido, n) ==
  /\ paso = "manejar" /\ salida = "nada"
  /\ (desconocido \/ n = 0) => pet.manejador # "ninguno"
  /\ chunked' = (desconocido /\ pet.version = 1)
  /\ LET s == IF chunked' THEN "trozos" ELSE IF desconocido THEN "cierre" ELSE "largo"
     IN  salida' = IF n > 0 THEN Trozo(n, s) ELSE s
  /\ UNCHANGED <<estado, espera, paso, entradas, cuerpo, archivo>>

\* sendContent(): the sketch goes on until it sends an empty piece itself, or not.
sendContent(n) ==
  /\ paso = "manejar" /\ salida \in {"trozos", "cierre"} /\ pet.manejador # "ninguno"
  /\ salida' = Trozo(n, salida) /\ chunked' = (chunked /\ n > 0)
  /\ UNCHANGED <<estado, espera, paso, entradas, cuerpo, archivo>>

\* A handler may return without an answer; what is not found gets one.
FinDeManejar ==
  /\ paso = "manejar"
  /\ salida = "nada" => pet.manejador \notin {"ninguno", "estatico"}
  /\ paso' = "finalizar"
  /\ UNCHANGED <<estado, espera, entradas, cuerpo, archivo, respuesta>>

_finalizeResponse_SinTrozo ==
  /\ paso = "finalizar" /\ Soltar
  /\ UNCHANGED <<postArgs, aviso, respuesta>>
_finalizeResponse ==
  /\ paso = "finalizar" /\ Soltar
  /\ salida' = IF chunked THEN Trozo(0, salida) ELSE salida
  /\ chunked' = FALSE
  /\ UNCHANGED <<postArgs, aviso>>

-----------------------------------------------------------------------------
handleClient ==
  \/ Aceptar \/ EsperarDatos \/ \E entera \in BOOLEAN : LineaDePeticion(entera)
  \/ \E l \in {"cabeceras", ""} : Cabeceras(l)
  \/ \E k \in 1..Len(entrada) : Cuerpo(k)
  \/ CuerpoTarde
  \/ \E l \in Lineas \cup {""} : \/ Form(l) \/ Parte(l) \/ TipoDeParte(l) \/ BlancoDeParte(l)
                                \/ Valor(l) \/ TrasArchivo(l)
  \/ UnirArgumentos \/ CopiarArgumentos
  \/ \E strstr \in {"NULL", "halla"} : Subir(strstr)
  \/ SubidaRota
  \/ \E desconocido \in BOOLEAN, n \in {0, 1} : send(desconocido, n)
  \/ \E n \in {0, 1} : sendContent(n)
  \/ FinDeManejar \/ _finalizeResponse
Next == handleClient \/ Cortar \/ \E p \in Peticiones : Conectar(p)

Spec == Init /\ [][Next]_vars
\* loop() calls handleClient() for ever, its reads give up after their timeout, and
\* a handler of the sketch ends.
FairSpec == Spec /\ WF_vars(handleClient) /\ WF_vars(FinDeManejar)

-----------------------------------------------------------------------------
\* The array of WEBSERVER_MAX_POST_ARGS never overflows, neither with the fields of
\* a form (lines 416-427) nor with the arguments of the URL that join them (526-533),
\* nor does the buffer of an upload (lines 303-311).
CabenArgumentos == Len(postArgs) <= MaxArgs /\ Len(subida.buf) <= BufLen

\* The file, as its peer sends it: from the end of its header to the first delimiter.
Archivo ==
  LET d == Len(Delimitador)
      fin == CHOOSE k \in 0..(Len(desde) - d) :
               /\ SubSeq(desde, k + 1, k + d) = Delimitador
               /\ \A j \in 0..(k - 1) : SubSeq(desde, j + 1, j + d) # Delimitador
  IN  SubSeq(desde, 1, fin)

\* An upload that ends has handed over exactly the bytes of the file, in order,
\* whatever parts of the delimiter they contain (lines 440-519); and every upload
\* that the sketch saw begin ends or is aborted before the client is let go.  Two
\* cases are left out (duda).  A line of the part's header that comes late, or is
\* none that lines 398-404 expect, ends the header where it is, and what is left of
\* it becomes bytes of the file.  And strstr() of line 490 may find the boundary in
\* the bytes behind its buffer, and end the file too soon.
ArchivoIntegro ==
  /\ paso = "trasArchivo" /\ pet.manejador = "fnSubida" /\ duda = "ninguna" =>
       entregado = Archivo /\ subida.total = Len(Archivo)
  /\ estado = "HC_NONE" => aviso \notin {"START", "WRITE"} /\ subida = Nada

\* A chunked response ends with its empty chunk, once and last.
RespuestaBienFormada ==
  /\ salida # "mal"
  /\ estado = "HC_NONE" => ~chunked /\ salida # "trozos"

\* A request without a form, complete or not, ends: the next client is served.
SinFormTermina ==
  (estado = "HC_WAIT_READ" /\ paso \notin {"parte", "valor"})
    ~> (estado = "HC_NONE" \/ paso \in {"parte", "valor"})

=============================================================================
