----------------------------- MODULE SitioAsync -----------------------------
(***************************************************************************)
(* The handlers of ESPAsyncWebServer and the files they serve and write:    *)
(* rewrites, the choice of a handler, functions, static files with their     *)
(* compressed copies, JSON bodies and the file editor.  Every callback runs  *)
(* in the task of AsyncTCP, and the connections interleave between two of    *)
(* them.  A URL, a name and a pattern are sequences of tokens, "/", ".gz"    *)
(* and words; the content of a file is a sequence of numbers.                *)
(***************************************************************************)
EXTENDS ServidorAsync

CONSTANTS
  Conexiones,    \* numbers; a connection takes the first that is free
  Manejadores,   \* the handlers in the order of addHandler()
  Reescrituras,  \* the rewrites in the order of addRewrite()
  Visitas,       \* the requests that browsers make
  ArchivosDe,    \* what the file system may hold at boot, a set of functions
  Copias,        \* what the browsers may keep from before the board booted
  Patrones,      \* the lines of /.exclude.files, sequences of tokens
  Basura,        \* what _contentLength may hold before it is set
  LineaMax,      \* SPIFFS_MAXLENGTH_FILEPATH
  VisitasMax     \* bound on the requests of a behaviour

VARIABLES
  fs,        \* the files: a function from their names to their contents
  con,       \* the request of each connection
  propio,    \* the members of each handler: _gzipStats, _gzipFirst, _contentLength
  excludes,  \* the patterns of the editor, or SinLeer
  cache,     \* the browser's copies: a function from URLs to contents
  visitas

sitio == <<fs, con, propio, excludes, cache, visitas>>

Nada    == <<>>
SinLeer == <<"sin leer">>
GZ      == ".gz"
INDICE  == <<"index.htm">>
LOCAL Dejar(s, n) == SubSeq(s, n + 1, Len(s))
\* What is not the program's to say: whether the memory behind a JSON text ends it,
\* goes on with it or spoils it, and whether the flash opens a file.
Azares == {"termina", "sigue", "falla"}
LOCAL Termina(s, x) == s # <<>> /\ Last(s) = x
LOCAL Tiene(n) == n \in DOMAIN fs
LOCAL Quitar(n) == Restrict(fs, DOMAIN fs \ {n})
LOCAL Poner(n, b) == [m \in DOMAIN fs \cup {n} |-> IF m = n THEN b ELSE fs[m]]

\* A response: its code, whether it says Content-Encoding: gzip, the file it reads
\* or the text it holds, its length and what was sent of it.  The rest is history:
\* the content when it was opened, and whether somebody wrote it since.
Codigo(n)   == [codigo |-> n, gz |-> FALSE, lee |-> Nada, texto |-> <<>>, largo |-> 0,
                enviado |-> <<>>, original |-> <<>>]
Texto(t)    == [Codigo(200) EXCEPT !.texto = t, !.largo = Len(t)]
Libre       == [estado |-> "libre", pet |-> Nada, man |-> 0, archivo |-> Nada, objeto |-> Nada,
                llegado |-> 0, copia |-> Nada, entera |-> FALSE, resp |-> Codigo(0), tocado |-> FALSE, llena |-> FALSE]

SitioInit ==
  /\ fs \in ArchivosDe
  /\ con = [c \in Conexiones |-> Libre]
  /\ \E n \in Basura : propio = [i \in DOMAIN Manejadores |-> [stats |-> 248, first |-> FALSE, largo |-> n]]
  /\ excludes = SinLeer /\ cache \in Copias /\ visitas = 0

-----------------------------------------------------------------------------
\* The choice of a handler.

\* AsyncWebHandler::filter() and AsyncWebRewrite::filter(), with ON_STA_FILTER and
\* ON_AP_FILTER.
filter(h, pet) == h.filtro = "" \/ h.filtro = (IF pet.ap THEN "ap" ELSE "sta")

\* _rewriteRequest(): each rewrite looks at what the one before it left.
_rewriteRequest(pet) ==
  FoldLeft(LAMBDA q, r : IF r.de = q.url /\ filter(r, q) THEN [q EXCEPT !.url = r.a] ELSE q,
           pet, Reescrituras)

\* _fileExists(): the name that opens a file, the plain one or the compressed one
\* first.
_fileExists(i, nombre) ==
  LET gz == Append(nombre, GZ)
      orden == IF propio[i].first THEN <<gz, nombre>> ELSE <<nombre, gz>>
  IN  IF Tiene(orden[1]) THEN orden[1] ELSE IF Tiene(orden[2]) THEN orden[2] ELSE Nada

\* The file a static handler finds for a URL and the name it was sought by: the path
\* itself, unless it can only be a directory, or else the default file under it.
_getFile(i, url) ==
  LET h == Manejadores[i]
      resto == Dejar(url, Len(h.uri))
      saltar == (h.isDir /\ resto = <<>>) \/ Termina(resto, "/")
      path == h.path \o resto
      defecto == (IF Termina(path, "/") THEN path ELSE Append(path, "/")) \o INDICE
      directo == IF saltar THEN Nada ELSE _fileExists(i, path)
  IN  IF directo # Nada THEN [archivo |-> directo, nombre |-> path]
      ELSE [archivo |-> _fileExists(i, defecto), nombre |-> defecto]

\* _gzipStats keeps whether each of the last eight files was compressed.
_countBits(n) == Cardinality({k \in 0..7 : (n \div 2^k) % 2 = 1})
Estadistica(g, comprimido) ==
  LET n == (g.stats * 2 + (IF comprimido THEN 1 ELSE 0)) % 256
  IN  [g EXCEPT !.stats = n, !.first = _countBits(n) > 4]

\* canHandle() of AsyncCallbackWebHandler.
AceptaFuncion(h, pet) ==
  /\ pet.metodo \in h.metodos
  /\ CASE h.modo = "extension" -> IsSuffix(h.uri, pet.url)
       [] h.modo = "bajo"      -> IsPrefix(h.uri, pet.url)
       [] h.modo = "exacta"    -> h.uri = <<>> \/ pet.url = h.uri \/ IsPrefix(Append(h.uri, "/"), pet.url)
\* canHandle() of AsyncCallbackJsonWebHandler.
AceptaJson(h, pet) ==
  /\ pet.metodo \in h.metodos /\ pet.tipo = "json"
  /\ h.uri = <<>> \/ pet.url = h.uri \/ IsPrefix(Append(h.uri, "/"), pet.url)
\* canHandle() of AsyncStaticWebHandler.
AceptaEstatico(i, pet) ==
  /\ pet.metodo = "GET" /\ IsPrefix(Manejadores[i].uri, pet.url)
  /\ _getFile(i, pet.url).archivo # Nada
\* canHandle() of SPIFFSEditor.
AceptaEditor(pet) ==
  /\ pet.url = <<"/", "edit">>
  /\ \/ pet.metodo \in {"POST", "DELETE", "PUT"}
     \/ pet.metodo = "GET" /\ (pet.orden \in {"edit", "download"} => Tiene(pet.param))

canHandle(i, pet) ==
  LET h == Manejadores[i]
  IN  CASE h.clase = "funcion"  -> AceptaFuncion(h, pet)
        [] h.clase = "json"     -> AceptaJson(h, pet)
        [] h.clase = "editor"   -> AceptaEditor(pet)
        [] h.clase = "estatico" -> AceptaEstatico(i, pet)

\* _attachHandler(): the first that accepts the request; 0 is _catchAllHandler.
_attachHandler(pet) ==
  SelectInSeq([i \in DOMAIN Manejadores |-> i],
              LAMBDA i : filter(Manejadores[i], pet) /\ canHandle(i, pet))

-----------------------------------------------------------------------------
\* The list of the editor.

\* matchWild(): nxPat and nxTst are where the last "*" was and what it has taken.
Posiciones == [p : Nat, t : Nat, nxPat : Nat, nxTst : Nat, pattern : Seq(STRING), testee : Seq(STRING)]
Casa[s \in Posiciones] ==
  LET mas == IF s.p <= Len(s.pattern) THEN s.pattern[s.p] ELSE ""
  IN  IF s.t > Len(s.testee) THEN \A k \in s.p..Len(s.pattern) : s.pattern[k] = "*"
      ELSE IF mas \in {"?", s.testee[s.t]} THEN Casa[[s EXCEPT !.p = @ + 1, !.t = @ + 1]]
      ELSE IF mas = "*" THEN Casa[[s EXCEPT !.p = @ + 1, !.nxPat = s.p, !.nxTst = s.t]]
      ELSE /\ s.nxPat > 0
           /\ Casa[[s EXCEPT !.p = s.nxPat + 1, !.t = s.nxTst + 1, !.nxTst = @ + 1]]
matchWild(pattern, testee) ==
  Casa[[p |-> 1, t |-> 1, nxPat |-> 0, nxTst |-> 0, pattern |-> pattern, testee |-> testee]]

\* loadExcludeList(): a line that is too long is cut, an empty one ends the list, and
\* one that just fills linebuf[] takes the line behind it for its own end.
loadExcludeList ==
  LET linea(s, l) ==
        IF s.fin THEN s
        ELSE IF s.isOverflowed THEN [s EXCEPT !.isOverflowed = FALSE]
        ELSE IF l = <<>> THEN [s EXCEPT !.fin = TRUE]
        ELSE [s EXCEPT !.lista = Append(@, SubSeq(l, 1, LineaMax - 1)), !.isOverflowed = Len(l) = LineaMax - 1]
  IN  FoldLeft(linea, [lista |-> <<>>, isOverflowed |-> FALSE, fin |-> FALSE], Patrones).lista

isExcluded(lista, nombre) == \E p \in Range(lista) : matchWild(p, nombre)
Leidos == IF excludes \in {SinLeer, <<>>} THEN loadExcludeList ELSE excludes
Listado == {n \in DOMAIN fs : ~isExcluded(Leidos, n)}

-----------------------------------------------------------------------------
\* AsyncFileResponse over an open file, sought by another name perhaps.  The mutant
\* does not say that it is compressed.
AsyncFileResponse_SinMarca(archivo, nombre, download) ==
  [Codigo(200) EXCEPT !.lee = archivo, !.largo = Len(fs[archivo]), !.original = fs[archivo]]
AsyncFileResponse(archivo, nombre, download) ==
  [Codigo(200) EXCEPT !.lee = archivo, !.largo = Len(fs[archivo]), !.original = fs[archivo],
                      !.gz = ~download /\ Termina(archivo, GZ) /\ ~Termina(nombre, GZ)]

\* send() of a name of the file system: its compressed copy stands in for it.
EnviarNombre(nombre) ==
  LET gz == Append(nombre, GZ)
  IN  IF Tiene(nombre) THEN AsyncFileResponse(nombre, nombre, FALSE)
      ELSE IF Tiene(gz) THEN AsyncFileResponse(gz, nombre, FALSE)
      ELSE Codigo(404)

\* handleRequest() of a static handler: the tag of a file is its size.  The mutant takes
\* any tag for it.
SinCambios_SinComparar(h, k) ==
  \/ h.fecha # "" /\ k.pet.desde = h.fecha
  \/ h.cache /\ k.copia # Nada
SinCambios(h, k) ==
  \/ h.fecha # "" /\ k.pet.desde = h.fecha
  \/ h.cache /\ k.copia # Nada /\ Len(k.copia) = Len(fs[k.archivo])
RespuestaEstatica(h, k) ==
  IF SinCambios(h, k) THEN [Codigo(304) EXCEPT !.original = fs[k.archivo]]
  ELSE AsyncFileResponse(k.archivo, k.objeto, FALSE)

\* handleRequest() of a JSON handler.  deserializeJson() is told neither the length of
\* the text nor finds its end: a document that does not end in the text, an open one,
\* is read on in the memory behind it.  Without a body, the length is that of the
\* last body that any request brought.
Detras == <<"detras">>
RespuestaJson(i, k, azar) ==
  LET largo == IF k.pet.cuerpo = <<>> THEN propio[i].largo ELSE Len(k.pet.cuerpo)
  IN  IF k.objeto # Nada /\ (k.pet.documento = "abierto" => azar # "falla")
      THEN Texto(IF k.pet.documento = "abierto" /\ azar = "sigue" THEN k.objeto \o Detras ELSE k.objeto)
      ELSE Codigo(IF k.objeto = Nada /\ largo > Manejadores[i].max THEN 413 ELSE 400)

\* handleRequest() of SPIFFSEditor; Abre: the flash opens the new file of a PUT.
Abre(azar) == azar # "falla"
RespuestaEditor(k, azar) ==
  CASE k.pet.metodo = "GET" /\ k.pet.orden = "list" ->
         [Codigo(200) EXCEPT !.texto = Listado, !.original = DOMAIN fs]
    [] k.pet.metodo = "GET" /\ k.pet.orden \in {"edit", "download"} ->
         AsyncFileResponse(k.archivo, k.archivo, k.pet.orden = "download")
    [] k.pet.metodo = "GET" /\ k.pet.orden = "" ->
         IF k.pet.desde = "build" THEN Codigo(304) ELSE [Codigo(200) EXCEPT !.gz = TRUE]
    [] k.pet.metodo = "DELETE" -> Codigo(IF k.pet.param = Nada THEN 404 ELSE 200)
    [] k.pet.metodo = "POST"   -> [Codigo(IF k.pet.param # Nada /\ Tiene(k.pet.param) THEN 200 ELSE 500)
                                     EXCEPT !.original = IF Tiene(k.pet.param) THEN fs[k.pet.param] ELSE Nada]
    [] k.pet.metodo = "PUT"    -> Codigo(IF k.pet.param = Nada THEN 400
                                         ELSE IF Tiene(k.pet.param) \/ Abre(azar) THEN 200 ELSE 500)
\* What it does to the files before it answers: f.write(0x00) in a new file.
Editado(k, azar) ==
  IF k.pet.param = Nada THEN fs
  ELSE CASE k.pet.metodo = "DELETE" -> Quitar(k.pet.param)
         [] k.pet.metodo = "PUT" /\ ~Tiene(k.pet.param) /\ Abre(azar) -> Poner(k.pet.param, <<0>>)
         [] OTHER -> fs

\* handleRequest() of whichever handler the request has; the last one, without a
\* function, answers 500.
handleRequest(k, azar) ==
  IF k.man = 0 THEN Codigo(500)
  ELSE LET h == Manejadores[k.man]
       IN  CASE h.clase = "funcion"  -> IF h.envia = Nada THEN Texto(<<k.man>>) ELSE EnviarNombre(h.envia)
             [] h.clase = "json"     -> RespuestaJson(k.man, k, azar)
             [] h.clase = "editor"   -> RespuestaEditor(k, azar)
             [] h.clase = "estatico" -> RespuestaEstatica(h, k)
EsEditor(k) == k.man # 0 /\ Manejadores[k.man].clase = "editor"

-----------------------------------------------------------------------------
\* Whoever reads or writes a file that another connection writes or removes.
Avisadas(f, c, n) ==
  [d \in Conexiones |-> IF d # c /\ n # Nada /\ n \in {f[d].archivo, f[d].resp.lee}
                        THEN [f[d] EXCEPT !.tocado = TRUE] ELSE f[d]]

\* The end of a request in connection c: its handler answers.
Contestar(c, k, azar) ==
  LET r == handleRequest(k, azar)
      f == IF EsEditor(k) THEN Editado(k, azar) ELSE fs
  IN  /\ fs' = f
      /\ con' = Avisadas([con EXCEPT ![c] = [k EXCEPT !.estado = "responde", !.resp = r]],
                         c, IF f # fs THEN k.pet.param ELSE Nada)
      /\ excludes' = IF EsEditor(k) /\ k.pet.metodo = "GET" /\ k.pet.orden = "list" /\ DOMAIN fs # {}
                     THEN Leidos ELSE excludes

\* The head of a request has arrived: _rewriteRequest(), _attachHandler() and,
\* without a body, handleRequest().
Pedir(c, p, azar) ==
  LET pet == _rewriteRequest(p)
      i == _attachHandler(pet)
      estatico == i # 0 /\ Manejadores[i].clase = "estatico"
      g == _getFile(i, pet.url)
      k == [Libre EXCEPT !.estado = "cuerpo", !.pet = pet, !.man = i,
                         !.copia = IF p.pide \in DOMAIN cache THEN cache[p.pide].bytes ELSE Nada,
                         !.entera = p.pide \in DOMAIN cache /\ cache[p.pide].entera,
                         !.archivo = IF estatico THEN g.archivo
                                     ELSE IF pet.orden \in {"edit", "download"} THEN pet.param ELSE Nada,
                         !.objeto = IF estatico THEN g.nombre ELSE Nada]
  IN  /\ con[c].estado = "libre" /\ \A d \in Conexiones : d < c => con[d].estado # "libre"
      /\ visitas < VisitasMax
      /\ visitas' = visitas + 1
      /\ propio' = IF estatico THEN [propio EXCEPT ![i] = Estadistica(@, Termina(g.archivo, GZ))] ELSE propio
      /\ IF p.largo > 0 THEN con' = [con EXCEPT ![c] = k] /\ UNCHANGED <<fs, excludes>>
         ELSE Contestar(c, k, azar)
      /\ UNCHANGED cache

EsJson(k) == k.man # 0 /\ Manejadores[k.man].clase = "json"
Resto(k)  == IF k.estado = "libre" THEN 0 ELSE Len(k.pet.cuerpo) - k.llegado

\* handleBody() of a JSON handler, and handleRequest() with the last piece.  A body
\* as long as the limit is not kept.
\* The mutant puts each piece at the beginning.
ConTrozo_AlPrincipio(k, n) ==
  LET trozo == SubSeq(k.pet.cuerpo, k.llegado + 1, k.llegado + n)
  IN  [k EXCEPT !.llegado = @ + n,
                !.objeto = IF Len(k.pet.cuerpo) < Manejadores[k.man].max
                           THEN trozo \o Dejar(@, n) ELSE @]
ConTrozo(k, n) ==
  LET trozo == SubSeq(k.pet.cuerpo, k.llegado + 1, k.llegado + n)
  IN  [k EXCEPT !.llegado = @ + n,
                !.objeto = IF Len(k.pet.cuerpo) < Manejadores[k.man].max
                           THEN SubSeq(@, 1, k.llegado) \o trozo ELSE @]
TrozoJson(c, n, azar) ==
  LET k == con[c]
  IN  /\ k.estado = "cuerpo" /\ EsJson(k) /\ n \in 1..Resto(k)
      /\ propio' = [propio EXCEPT ![k.man].largo = Len(k.pet.cuerpo)]
      /\ IF n = Resto(k) THEN Contestar(c, ConTrozo(k, n), azar)
         ELSE con' = [con EXCEPT ![c] = ConTrozo(k, n)] /\ UNCHANGED <<fs, excludes>>
      /\ UNCHANGED <<cache, visitas>>

\* handleUpload() of the editor: the first piece opens the file and empties it.  The
\* flash takes m of the n bytes, or does not open the file when m is -1, and nobody
\* looks at that.
TrozoSubida(c, n, m) ==
  LET k == con[c]
      nombre == k.pet.param
      primero == k.llegado = 0
      abierto == IF primero THEN (IF m < 0 THEN Nada ELSE nombre) ELSE k.archivo
      escribe == abierto # Nada /\ (primero \/ Tiene(nombre))
      antes == IF primero THEN <<>> ELSE fs[nombre]
  IN  /\ k.estado = "cuerpo" /\ EsEditor(k) /\ n \in 1..Resto(k)
      /\ m \in 0..n \/ (m = -1 /\ primero)
      /\ fs' = IF escribe
               THEN Poner(nombre, antes \o SubSeq(k.pet.cuerpo, k.llegado + 1, k.llegado + m)) ELSE fs
      /\ con' = Avisadas([con EXCEPT ![c] = [k EXCEPT !.llegado = @ + n, !.archivo = abierto,
                                                      !.llena = @ \/ m < n]],
                         c, IF escribe THEN nombre ELSE Nada)
      /\ UNCHANGED <<propio, excludes, cache, visitas>>

\* The end of the body of a form: handleRequest().
Acabar(c, azar) ==
  LET k == con[c]
  IN  /\ k.estado = "cuerpo" /\ ~EsJson(k) /\ Resto(k) = 0
      /\ Contestar(c, [k EXCEPT !.archivo = Nada], azar)
      /\ UNCHANGED <<propio, cache, visitas>>

\* AsyncFileResponse::_fillBuffer(): the next bytes of the file, of which one stands
\* for any number.  A file that was cut or removed gives no more, and the response
\* waits for ever.
Enviar(c) ==
  LET k == con[c]
      n == Len(k.resp.enviado)
      r == [k.resp EXCEPT !.enviado = Append(@, fs[k.resp.lee][n + 1])]
      estatico == k.man # 0 /\ Manejadores[k.man].clase = "estatico"
  IN  /\ k.estado = "responde" /\ k.resp.lee # Nada /\ n < k.resp.largo
      /\ Tiene(k.resp.lee) /\ n < Len(fs[k.resp.lee])
      /\ con' = [con EXCEPT ![c].resp = r]
      /\ cache' = IF n + 1 = k.resp.largo /\ estatico /\ Manejadores[k.man].cache
                  THEN [u \in DOMAIN cache \cup {k.pet.pide} |->
                          IF u = k.pet.pide THEN [bytes |-> r.enviado, entera |-> ~k.tocado] ELSE cache[u]]
                  ELSE cache
      /\ UNCHANGED <<fs, propio, excludes, visitas>>

\* The connection ends, when its response does or before: ~AsyncWebServerRequest().
Soltar(c) ==
  /\ con[c].estado # "libre"
  /\ con' = [con EXCEPT ![c] = Libre]
  /\ UNCHANGED <<fs, propio, excludes, cache, visitas>>

SitioNext ==
  \E c \in Conexiones :
    \/ \E p \in Visitas, azar \in Azares : Pedir(c, p, azar)
    \/ \E n \in 1..Resto(con[c]), azar \in Azares : TrozoJson(c, n, azar)
    \/ \E n \in 1..Resto(con[c]), m \in -1..Resto(con[c]) : TrozoSubida(c, n, m)
    \/ \E azar \in Azares : Acabar(c, azar)
    \/ Enviar(c)
    \/ Soltar(c)

-----------------------------------------------------------------------------
\* The contents that files have when no upload is under way or was cut short; the
\* compressed ones begin with 10 or more.
Versiones == UNION {Range(f) : f \in ArchivosDe} \cup {p.cuerpo : p \in Visitas} \cup {<<0>>}
EstaComprimido(bytes) == bytes # <<>> /\ Head(bytes) >= 10

\* A pattern as its author reads it.
Abarca(pattern, testee) ==
  \E huecos \in [1..Len(pattern) -> 0..Len(testee)] :
    LET fin(k) == SumFunctionOnSet(huecos, 1..k)
    IN  /\ fin(Len(pattern)) = Len(testee)
        /\ \A k \in 1..Len(pattern) :
             \/ pattern[k] = "*"
             \/ huecos[k] = 1 /\ pattern[k] \in {"?", testee[fin(k)]}

\* While nobody else writes the file, a browser receives it whole, in order, and
\* marked as compressed when it is and was asked for by its own name; a browser that
\* is told that its copy is good has what the file holds, of contents that differ in
\* size (WebHandlers.cpp:195-207, WebResponses.cpp:537-566).
ArchivoFiel(k) ==
  /\ k.resp.lee # Nada /\ ~k.tocado => IsPrefix(k.resp.enviado, k.resp.original)
  /\ k.resp.lee # Nada /\ k.pet.url # <<"/", "edit">> /\ k.resp.original # <<>> =>
       (k.resp.gz <=> EstaComprimido(k.resp.original) /\ ~Termina(k.pet.url, GZ))
  /\ /\ k.resp.codigo = 304 /\ ~EsEditor(k) /\ Manejadores[k.man].fecha = ""
     /\ k.entera /\ {k.copia, k.resp.original} \subseteq Versiones
     => k.copia = k.resp.original

\* A function is given the document of its own request, whatever bodies arrive
\* between its pieces, and of an open document all of it and perhaps what memory holds
\* behind it; nobody is given a request without a body, and of those with one only a
\* body that is too long is refused for its length (AsyncJson.h:206-250).
JsonFiel(k) ==
  EsJson(k) =>
    /\ k.resp.codigo = 200 =>
         /\ k.pet.cuerpo # <<>>
         /\ IF k.pet.documento = "abierto" THEN IsPrefix(k.pet.cuerpo, k.resp.texto)
            ELSE k.resp.texto = k.pet.cuerpo
    /\ k.pet.cuerpo # <<>> => (k.resp.codigo = 413 <=> k.resp.codigo # 0 /\ Len(k.pet.cuerpo) > Manejadores[k.man].max)
    /\ k.resp.codigo # 0 /\ k.pet.documento = "entero" /\ Len(k.pet.cuerpo) < Manejadores[k.man].max =>
         k.resp.codigo = 200

\* "UPLOADED" is said of a file that holds what was sent, if the flash had room and
\* nobody else wrote it; the list of the editor leaves out exactly what the patterns
\* cover (SPIFFSEditor.cpp:279-297, 363-375, 505-510, 528-544).
EdicionFiel(k) ==
  EsEditor(k) /\ k.resp.codigo = 200 =>
    /\ k.pet.metodo = "POST" /\ k.pet.cuerpo # <<>> /\ ~k.llena /\ ~k.tocado =>
         k.resp.original = k.pet.cuerpo
    /\ k.pet.metodo = "GET" /\ k.pet.orden = "list" =>
         k.resp.texto = {n \in k.resp.original : \A p \in Range(Leidos) : ~Abarca(p, n)}
-----------------------------------------------------------------------------
\* The two halves of the library: one connection, byte by byte (ServidorAsync), and the
\* handlers and files behind several.  A behaviour is of one of them.

VARIABLE mitad
http == <<mitad, vars, sitio>>

LOCAL Una(S) == CHOOSE x \in S : TRUE
HttpInit ==
  /\ Init /\ SitioInit
  /\ \/ mitad = "conexion" /\ fs = Una(ArchivosDe) /\ cache = Una(Copias) /\ propio[1].largo = Una(Basura)
     \/ mitad = "sitio" /\ caso = Una(Casos)

HttpNext ==
  \/ mitad = "conexion" /\ Next /\ UNCHANGED <<mitad, sitio>>
  \/ mitad = "sitio" /\ SitioNext /\ UNCHANGED <<mitad, vars>>

HttpJusticia == []<>(mitad = "sitio") \/ Justicia
HttpSpec == HttpInit /\ [][HttpNext]_http /\ HttpJusticia

-----------------------------------------------------------------------------
\* What a handler is given is what the peer sent it (WebRequest.cpp:101-179,
\* AsyncJson.h:206-250), and what a browser gets is what the handler or the file held
\* (WebResponses.cpp:181-473, WebHandlers.cpp:190-215, SPIFFSEditor.cpp:435-544).
PeticionFiel == FormFiel /\ \A c \in Conexiones : JsonFiel(con[c])
RespuestaFiel ==
  RespuestaIntegra /\ \A c \in Conexiones : ArchivoFiel(con[c]) /\ EdicionFiel(con[c])

\* Every connection is closed or its response ends, whatever the peer sends or fails to
\* (AsyncTCP.cpp:912-978).
ConexionTermina == mitad = "conexion" => PeticionTermina
=============================================================================
