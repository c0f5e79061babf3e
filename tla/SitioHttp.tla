----------------------------- MODULE SitioHttp -----------------------------
(***************************************************************************)
(* WebServer of the ESP32 core as the sketch uses it: the choice of a        *)
(* handler, the arguments and headers it reads, files, passwords, and the    *)
(* response that its calls make.  Requests come one after another, read as   *)
(* ServidorHttp says, and the members of the server outlast each of them.    *)
(* A URL, a name and a text are sequences of characters, or of words where   *)
(* only whole words matter.                                                  *)
(***************************************************************************)
EXTENDS ServidorHttp, FiniteSets, Functions

CONSTANTS
  Handlers,      \* the handlers in the order of on() and serveStatic()
  NoEncontrado,  \* the calls of onNotFound(), or <<>> when it is not set
  Collect,       \* the names given to collectHeaders()
  Archivos,      \* the files: a function from names to [de, gz, n]
  Visitas,       \* the requests that browsers make
  VisitasMax     \* bound on the requests of a behaviour

\* A form with more fields is not read to its end (Valor of ServidorHttp).
ASSUME VisitasAssumption ==
  \A v \in Visitas : v.cuerpo \in {"form", "rota"} => Len(v.mas) <= MaxArgs

VARIABLES
  etapa,      \* "libre", "leida" (the sketch may read the request), "hecha", or
              \* "sin" while ServidorHttp reads the requests
  srv,        \* the members of the server that outlast a request
  visita,     \* history: the request that is being served, as the browser made it
  escrito,    \* what its browser was sent
  entra,      \* history: what authenticate() said in it
  retos,      \* the challenge that each browser answers
  ultimo,     \* history: the last challenge of the server
  visitas

sitio == <<etapa, srv, visita, escrito, entra, retos, ultimo, visitas>>

SIN_LARGO   == -1   \* CONTENT_LENGTH_NOT_SET
DESCONOCIDO == -2   \* CONTENT_LENGTH_UNKNOWN
GZ          == ".gz"
INDEX       == "index.htm"
Ninguno     == 0
Navegadores == {v.quien : v \in Visitas}
SinReto     == [realm |-> "", nonce |-> ""]
SinVisita   == [quien |-> 0]

\* initPathArgs() of a pattern with braces.
Huecos(uri) == Cardinality({i \in DOMAIN uri : uri[i] = "{"})
SrvInit == [metodo |-> "", uri |-> <<>>, version |-> 0, handler |-> Ninguno,
            pathArgs |-> [i \in DOMAIN Handlers |-> [k \in 1..Huecos(Handlers[i].uri) |-> <<>>]],
            currentArgs |-> <<>>, postArgs |-> <<>>, headers |-> [h \in {"Authorization"} \cup Collect |-> <<>>],
            host |-> <<>>, respHeaders |-> <<>>, largo |-> SIN_LARGO, chunked |-> FALSE,
            cors |-> FALSE, snonce |-> "", srealm |-> "", vez |-> 0]
SitioInit ==
  /\ \E c \in BOOLEAN : srv = [SrvInit EXCEPT !.cors = c]
  /\ etapa = "libre" /\ visita = SinVisita /\ escrito = <<>> /\ entra = "nada"
  /\ retos = [n \in Navegadores |-> SinReto] /\ ultimo = SinReto /\ visitas = 0

-----------------------------------------------------------------------------
\* The arguments of a URL or of an encoded body.

Hexadecimal == <<"2", "6">> :> "&" @@ <<"3", "D">> :> "=" @@ <<"2", "5">> :> "%"

\* urlDecode(): two characters after a "%" are taken whatever they are; what is no
\* number is read as zero.
Decodifica(e, c) ==
  IF Len(e.hex) = 1
  THEN [texto |-> Append(e.texto, IF <<e.hex[1], c>> \in DOMAIN Hexadecimal
                                  THEN Hexadecimal[<<e.hex[1], c>>] ELSE "NUL"),
        hex |-> <<>>, abre |-> FALSE, quedan |-> e.quedan - 1]
  ELSE IF e.abre THEN [e EXCEPT !.hex = <<c>>, !.quedan = @ - 1]
  ELSE IF c = "%" /\ e.quedan > 2 THEN [e EXCEPT !.abre = TRUE, !.quedan = @ - 1]
  ELSE [e EXCEPT !.texto = Append(@, IF c = "+" THEN " " ELSE c), !.quedan = @ - 1]
urlDecode(t) ==
  FoldLeft(Decodifica, [texto |-> <<>>, hex |-> <<>>, abre |-> FALSE, quedan |-> Len(t)], t).texto

\* _parseArguments(): the next pair begins at pos; a piece without "=" is skipped.
Desde(data, c, pos) == LET S == {i \in pos..Len(data) : data[i] = c} IN IF S = {} THEN 0 ELSE Min(S)
UnArgumento(data, e) ==
  LET igual == Desde(data, "=", e.pos)
      otro  == Desde(data, "&", e.pos)
      hasta == IF otro = 0 THEN Len(data) ELSE otro - 1
      arg   == <<urlDecode(SubSeq(data, e.pos, igual - 1)), urlDecode(SubSeq(data, igual + 1, hasta))>>
  IN  [pos |-> otro + 1, sigue |-> otro # 0,
       args |-> IF igual = 0 \/ (otro # 0 /\ igual > otro) THEN e.args ELSE Append(e.args, arg)]
_parseArguments(data) ==
  FoldLeft(LAMBDA e, i : IF e.sigue THEN UnArgumento(data, e) ELSE e,
           [pos |-> 1, sigue |-> data # <<>>, args |-> <<>>],
           [i \in 1..(1 + Cardinality({k \in DOMAIN data : data[k] = "&"})) |-> i]).args

\* What the sketch reads: arg() and hasArg() look at the fields of a form first.
arg(s, nombre) ==
  LET todos == s.postArgs \o s.currentArgs
      i == SelectInSeq(todos, LAMBDA a : a[1] = nombre)
  IN  IF i = 0 THEN <<>> ELSE todos[i][2]
hasArg(s, nombre) == \E i \in DOMAIN (s.postArgs \o s.currentArgs) : (s.postArgs \o s.currentArgs)[i][1] = nombre
header(s, nombre) == IF nombre \in DOMAIN s.headers THEN s.headers[nombre] ELSE <<>>
pathArg(s, k) == IF s.handler = Ninguno THEN <<>> ELSE s.pathArgs[s.handler][k]

-----------------------------------------------------------------------------
\* The choice of a handler.

\* canHandle() of UriBraces, from the i-th character of the pattern and the r-th of
\* the request: a "{}" takes what comes before the character after it, or all the
\* rest.  What it took stays taken when the rest does not match.
Caracter(t, r) == IF r \in DOMAIN t THEN t[r] ELSE "fin"
UnaLetra(uri, pedido, e) ==
  LET fin == Caracter(uri, e.i + 2)
      u   == IF e.r > Len(pedido) THEN 0 ELSE Desde(pedido, fin, e.r)
      hasta == IF fin = "fin" THEN Len(pedido) ELSE u - 1
      toma  == [e EXCEPT !.args[e.k] = SubSeq(pedido, e.r, hasta), !.k = @ + 1, !.i = @ + 3, !.r = u + 1]
  IN  IF uri[e.i] = Caracter(pedido, e.r) THEN [e EXCEPT !.i = @ + 1, !.r = @ + 1]
      ELSE IF uri[e.i] # "{" THEN [e EXCEPT !.res = "no"]
      ELSE IF fin = "fin" THEN [toma EXCEPT !.res = IF "/" \in Range(toma.args[e.k]) THEN "no" ELSE "si"]
      ELSE IF u = 0 THEN [e EXCEPT !.res = "no"] ELSE toma
Llaves(uri, pedido, dados) ==
  LET e == FoldLeft(LAMBDA x, i : IF x.res = "" /\ x.i <= Len(uri) THEN UnaLetra(uri, pedido, x) ELSE x,
                    [i |-> 1, r |-> 1, k |-> 1, args |-> dados, res |-> ""], uri)
  IN  [args |-> e.args, casa |-> e.res = "si" \/ (e.res = "" /\ e.r > Len(pedido))]

\* canHandle() of FunctionRequestHandler, with the arguments of the path, and of
\* StaticRequestHandler; the pattern of a UriGlob ends in its one star.  The mutant
\* lets a pattern of braces pass when only its beginning matches.
CasaUri_Comienzo(h, uri, dados) ==
  IF h.modo = "exacta" THEN [args |-> dados, casa |-> h.uri = uri]
  ELSE IF h.modo = "llaves" /\ h.uri # uri
  THEN [Llaves(h.uri, uri, dados) EXCEPT !.casa = IsPrefix(SubSeq(h.uri, 1, 2), uri)]
  ELSE [args |-> dados, casa |-> h.uri = uri \/ h.modo = "glob"]
CasaUri(h, uri, dados) ==
  CASE h.modo = "exacta" -> [args |-> dados, casa |-> h.uri = uri]
    [] h.modo = "glob"   -> [args |-> dados, casa |-> IsPrefix(Front(h.uri), uri)]
    [] h.modo = "llaves" -> IF h.uri = uri THEN [args |-> dados, casa |-> TRUE] ELSE Llaves(h.uri, uri, dados)
EsArchivo(h) == h.path \in DOMAIN Archivos
CasaEstatico(h, metodo, uri) ==
  metodo = "GET" /\ (EsArchivo(h) => uri = h.uri) /\ IsPrefix(h.uri, uri)
canHandle(s, i) ==
  LET h == Handlers[i]
  IN  IF h.clase = "estatico" THEN [args |-> s.pathArgs[i], casa |-> CasaEstatico(h, s.metodo, s.uri)]
      ELSE IF h.metodo \notin {"ANY", s.metodo} THEN [args |-> s.pathArgs[i], casa |-> FALSE]
      ELSE CasaUri(h, s.uri, s.pathArgs[i])

\* The first that can; those before it have looked at the request.
Prueba(s, i) ==
  IF s.handler # Ninguno THEN s
  ELSE LET c == canHandle(s, i)
       IN  [s EXCEPT !.pathArgs[i] = c.args, !.handler = IF c.casa THEN i ELSE Ninguno]
Elegir(s) == FoldLeft(Prueba, [s EXCEPT !.handler = Ninguno], [i \in DOMAIN Handlers |-> i])

-----------------------------------------------------------------------------
\* _parseRequest(), once its lines are there.

\* _collectHeader() of one line [nombre, espacio, valor]: without a body two
\* characters after the name are left out, whatever they are.  The mutant keeps the
\* values of the request before.
ConCuerpo == {"POST", "PUT", "PATCH", "DELETE"}
Valor0(s, l) == IF s.metodo \in ConCuerpo \/ l.espacio THEN l.valor ELSE Tail(l.valor)
_collectHeader(s, l) ==
  [s EXCEPT !.headers = IF l.nombre \in DOMAIN @ THEN [@ EXCEPT ![l.nombre] = Valor0(s, l)] ELSE @,
            !.host = IF l.nombre = "Host" THEN Valor0(s, l) ELSE @]
SinCabeceras_Viejas(s) == s
SinCabeceras(s) == [s EXCEPT !.headers = [h \in DOMAIN s.headers |-> <<>>]]

\* The text of fields, as a browser encodes it.
Codigos == [c \in {"&", "=", "%", " ", "a", "b"} |->
             CASE c = "&" -> <<"%", "2", "6">> [] c = "=" -> <<"%", "3", "D">> [] c = "%" -> <<"%", "2", "5">>
               [] c = " " -> <<"+">> [] OTHER -> <<c>>]
Codifica(t) == FlattenSeq([i \in DOMAIN t |-> Codigos[t[i]]])
Texto(campos) ==
  FlattenSeq([i \in DOMAIN campos |-> (IF i > 1 THEN <<"&">> ELSE <<>>)
                                       \o Codifica(campos[i][1]) \o <<"=">> \o Codifica(campos[i][2])])

\* The body: encoded fields are added to those of the URL, another text is kept
\* under "plain", and a form that breaks leaves what it had.  The fields of a form
\* come first, and of the URL's only as many as there is room for.
Caben(campos, mas) == SubSeq(campos, 1, Min({Len(campos), MaxArgs - Len(mas)}))
Unidos(a, b) == IF a = <<>> THEN b ELSE a \o <<"&">> \o b
ConArgumentos(s, v) ==
  LET url == Texto(v.campos)
  IN  CASE v.cuerpo = "encoded" -> [s EXCEPT !.currentArgs = _parseArguments(Unidos(url, Texto(v.mas)))]
        [] v.cuerpo = "plano"   -> [s EXCEPT !.currentArgs = Append(_parseArguments(url), <<<<"plain">>, v.mas>>)]
        [] v.cuerpo = "form"    -> [s EXCEPT !.currentArgs = v.mas \o Caben(_parseArguments(url), v.mas), !.postArgs = <<>>]
        [] v.cuerpo = "rota"    -> [s EXCEPT !.currentArgs = _parseArguments(url), !.postArgs = v.mas]
        [] OTHER                -> [s EXCEPT !.currentArgs = _parseArguments(url)]
_parseRequest(s0, v, lineas) ==
  LET s1 == [SinCabeceras(s0) EXCEPT !.metodo = v.metodo, !.uri = v.uri, !.version = v.version, !.chunked = FALSE]
  IN  ConArgumentos(FoldLeft(_collectHeader, Elegir(s1), lineas), v)

-----------------------------------------------------------------------------
\* The response.  A call has the server and what was written: [s, w].

Cabecera(s, n, x) == [n |-> n, v |-> x, de |-> s.vez]
sendHeader(s, n, x) == [s EXCEPT !.respHeaders = Append(@, Cabecera(s, n, x))]
Cors(s) == [i \in 1..(IF s.cors THEN 3 ELSE 0) |-> Cabecera(s, "Access-Control", i)]

\* _prepareHeader(); the mutant does not forget the headers that it wrote.
Medida(s, largo) ==
  IF s.largo = SIN_LARGO THEN <<Cabecera(s, "Content-Length", largo)>>
  ELSE IF s.largo # DESCONOCIDO THEN <<Cabecera(s, "Content-Length", s.largo)>>
  ELSE IF s.version = 1 THEN <<Cabecera(s, "Accept-Ranges", 0), Cabecera(s, "Transfer-Encoding", 0)>>
  ELSE <<>>
_prepareHeader_SinOlvido(s, codigo, largo) ==
  [s |-> [s EXCEPT !.chunked = @ \/ (s.largo = DESCONOCIDO /\ s.version = 1)],
   cabeza |-> [codigo |-> codigo, lineas |-> s.respHeaders \o Medida(s, largo)]]
_prepareHeader(s, codigo, largo) ==
  [s |-> [s EXCEPT !.chunked = @ \/ (s.largo = DESCONOCIDO /\ s.version = 1), !.respHeaders = <<>>],
   cabeza |-> [codigo |-> codigo,
               lineas |-> <<Cabecera(s, "Content-Type", 0)>> \o s.respHeaders \o Medida(s, largo)
                            \o Cors(s) \o <<Cabecera(s, "Connection", 0)>>]]

\* sendContent() and sendContent_P() of n bytes.
Contenido(e, n) ==
  [e EXCEPT !.s.chunked = @ /\ n > 0,
            !.w = Append(@, [que |-> IF e.s.chunked THEN "trozo" ELSE "bytes", n |-> n])]

\* send(), of any type; and send_P() of a text that ends in a zero, or of so many
\* bytes, which writes its head with sendContent().
ConCabeza(e, codigo, n) ==
  LET p == _prepareHeader(e.s, codigo, n)
  IN  [e EXCEPT !.s = p.s, !.w = Append(@, [que |-> "cabeza"] @@ p.cabeza)]
Enviar(e, codigo, n) ==
  LET c == ConCabeza(e, codigo, n) IN IF n > 0 THEN Contenido(c, n) ELSE c
send_P(e, codigo, n) == Contenido(ConCabeza(e, codigo, n), n)
send_P_Largo(e, codigo, n) ==
  LET c == ConCabeza(e, codigo, n)
      w == IF c.s.chunked THEN Append(e.w, [que |-> "trozo", n |-> 1]) ELSE c.w
  IN  Contenido([c EXCEPT !.w = w], n)

-----------------------------------------------------------------------------
\* Files.

\* getContentType(), and the two of its types that _streamFileCore() asks for.
Tipo(nombre) ==
  CASE Last(nombre) = GZ -> "gz" [] Last(nombre) \in {INDEX, ".js"} -> "texto" [] OTHER -> "octetos"
_streamFileCore(s, nombre, tipo) ==
  LET s1 == [s EXCEPT !.largo = Archivos[nombre].n]
  IN  IF Last(nombre) = GZ /\ tipo \notin {"gz", "octetos"} THEN sendHeader(s1, "Content-Encoding", 0) ELSE s1

\* handle() of StaticRequestHandler: the name that is opened.
Ruta(h, uri) ==
  LET pedido == IF Last(uri) = "/" THEN Append(uri, INDEX) ELSE uri
  IN  IF EsArchivo(h) THEN h.path ELSE h.path \o SubSeq(pedido, Len(h.uri) + 1, Len(pedido))
Abre(ruta) ==
  IF Last(ruta) # GZ /\ ruta \notin DOMAIN Archivos /\ Append(ruta, GZ) \in DOMAIN Archivos
  THEN Append(ruta, GZ) ELSE ruta
streamFile(e, h, ruta) ==
  LET nombre == Abre(ruta)
      s1 == IF h.cache THEN sendHeader(e.s, "Cache-Control", 0) ELSE e.s
      c  == Enviar([e EXCEPT !.s = _streamFileCore(s1, nombre, Tipo(ruta))], 200, 0)
  IN  [c EXCEPT !.w = Append(@, [que |-> "bytes", n |-> Archivos[nombre].n, de |-> nombre])]

-----------------------------------------------------------------------------
\* Passwords.

USUARIO == "u"
CLAVE   == "buena"

\* _extractParam(): the first place where the name ends; md5str() is one to one.
Acaban(p) == IF p = "nonce" THEN {"nonce", "cnonce"} ELSE {p}
_extractParam(a, p) ==
  LET i == SelectInSubSeq(a, 2, Len(a), LAMBDA f : f.n \in Acaban(p))
  IN  IF i = 0 THEN "" ELSE a[i].v
md5str(x) == <<"md5", x>>

\* The response to a challenge, by RFC 2617 or, without qop, by RFC 2069.
Respuesta(metodo, uri, realm, clave, nonce, cnonce, qop) ==
  LET H1 == md5str(<<USUARIO, realm, clave>>)
      H2 == md5str(<<metodo, uri>>)
  IN  md5str(IF qop THEN <<H1, nonce, "nc", cnonce, H2>> ELSE <<H1, nonce, H2>>)

\* authenticate(); every method but four is taken for a GET.  The mutant takes the
\* answer to any challenge.
Conocidos == {"GET", "POST", "PUT", "DELETE"}
Digest_CualquierReto(s, a) ==
  _extractParam(a, "response") =
    Respuesta(IF s.metodo \in Conocidos THEN s.metodo ELSE "GET", _extractParam(a, "uri"), _extractParam(a, "realm"),
              CLAVE, _extractParam(a, "nonce"), _extractParam(a, "cnonce"), _extractParam(a, "qop") # "")
Digest(s, a) ==
  /\ _extractParam(a, "username") = USUARIO
  /\ \A p \in {"realm", "nonce", "opaque"} : _extractParam(a, p) # ""
  /\ _extractParam(a, "opaque") = s.snonce /\ _extractParam(a, "nonce") = s.snonce
  /\ _extractParam(a, "realm") = s.srealm
  /\ _extractParam(a, "response") =
       Respuesta(IF s.metodo \in Conocidos THEN s.metodo ELSE "GET", _extractParam(a, "uri"), s.srealm,
                 CLAVE, s.snonce, _extractParam(a, "cnonce"), _extractParam(a, "qop") # "")
authenticate(s) ==
  LET a == header(s, "Authorization")
  IN  a # <<>> /\ IF a[1] = "Basic" THEN a[2].v = CLAVE ELSE Digest(s, a)

\* requestAuthentication(): nonce and opaque are made anew together, the realm is
\* kept in either mode.
requestAuthentication(e, modo, realm) ==
  LET s1 == IF modo = "digest" THEN [e.s EXCEPT !.srealm = realm, !.snonce = ToString(e.s.vez)]
                               ELSE [e.s EXCEPT !.srealm = realm]
      reto == [realm |-> realm, nonce |-> IF modo = "digest" THEN s1.snonce ELSE ""]
  IN  [Enviar([e EXCEPT !.s = sendHeader(s1, "WWW-Authenticate", 0)], 401, 0) EXCEPT !.reto = reto]

\* What a browser that has a challenge sends; some put their own nonce first.
Campo(n, v) == [n |-> n, v |-> v]
Autorizacion(v) ==
  LET r == retos[v.quien]
      qop == v.auth # "antiguo"
      unos == <<Campo("username", USUARIO), Campo("realm", r.realm)>>
      suyo == IF qop THEN <<Campo("qop", "auth"), Campo("cnonce", "c")>> ELSE <<>>
      otros == <<Campo("nonce", r.nonce), Campo("uri", v.uri), Campo("opaque", r.nonce),
                 Campo("response", Respuesta(v.metodo, v.uri, r.realm, v.clave, r.nonce, IF qop THEN "c" ELSE "", qop))>>
      a == IF v.auth = "Basic" THEN <<"Basic", Campo("clave", v.clave)>>
           ELSE <<"Digest">> \o unos \o IF v.auth = "primero" THEN suyo \o otros ELSE otros \o suyo
  IN  IF v.auth = "nada" THEN <<>> ELSE <<[nombre |-> "Authorization", espacio |-> TRUE, valor |-> a]>>

-----------------------------------------------------------------------------
\* A request is read, and its handler is called.

\* The calls of the sketch, until a password is missing.
Llamada(e, c) ==
  CASE ~e.sigue            -> e
    [] c = "sendHeader"    -> [e EXCEPT !.s = sendHeader(@, "X", 0)]
    [] c = "sinLargo"      -> [e EXCEPT !.s.largo = DESCONOCIDO]
    [] c = "largo"         -> [e EXCEPT !.s.largo = 2]
    [] c = "send"          -> Enviar(e, 200, 2)
    [] c = "sendVacio"     -> Enviar(e, 200, 0)
    [] c = "sendContent"   -> Contenido(e, 2)
    [] c = "send_P"        -> send_P(e, 200, 2)
    [] c = "send_P_Largo"  -> send_P_Largo(e, 200, 2)
    [] c \in {"basic", "digest"} ->
         IF authenticate(e.s) THEN [e EXCEPT !.entra = "si"]
         ELSE [requestAuthentication(e, c, c) EXCEPT !.entra = "no", !.sigue = FALSE]
Llamadas(e, cs) == FoldLeft(Llamada, e, cs)

NotFound(e) == IF NoEncontrado = <<>> THEN Enviar(e, 404, 1) ELSE Llamadas(e, NoEncontrado)
_finalize(e) == IF e.s.chunked THEN Contenido(e, 0) ELSE e
handle(e, i) ==
  LET h == Handlers[i]
      ruta == Ruta(h, e.s.uri)
  IN  IF h.clase = "fn" THEN Llamadas(e, h.fn)
      ELSE IF Abre(ruta) \in DOMAIN Archivos /\ Archivos[Abre(ruta)].n > 0 THEN streamFile(e, h, ruta)
      ELSE NotFound(e)
_handleRequest(s) ==
  LET e == [s |-> [s EXCEPT !.largo = SIN_LARGO], w |-> <<>>, sigue |-> TRUE, entra |-> "nada", reto |-> SinReto]
  IN  _finalize(IF s.handler = Ninguno THEN NotFound(e) ELSE handle(e, s.handler))

\* A form that breaks is not handled.
Pedir(v) ==
  /\ etapa # "leida" /\ visitas < VisitasMax
  /\ v.auth \in {"nada", "Basic"} \/ retos[v.quien] # SinReto
  /\ srv' = _parseRequest([srv EXCEPT !.vez = visitas + 1], v, v.lineas \o Autorizacion(v))
  /\ etapa' = IF v.cuerpo = "rota" THEN "libre" ELSE "leida"
  /\ visita' = v /\ visitas' = visitas + 1
  /\ escrito' = <<>> /\ entra' = "nada"
  /\ UNCHANGED <<retos, ultimo>>

Atender ==
  /\ etapa = "leida" /\ etapa' = "hecha"
  /\ LET e == _handleRequest(srv)
     IN  /\ srv' = e.s /\ escrito' = e.w /\ entra' = e.entra
         /\ retos' = IF e.reto.nonce = "" THEN retos ELSE [retos EXCEPT ![visita.quien] = e.reto]
         /\ ultimo' = IF e.reto = SinReto THEN ultimo ELSE e.reto
  /\ UNCHANGED <<visita, visitas>>

SitioNext == Atender \/ \E v \in Visitas : Pedir(v)
SitioQuieto == etapa # "leida" /\ visitas = VisitasMax /\ UNCHANGED <<vars, sitio>>

\* The library in use: its reads and its writes byte by byte (ServidorHttp), or whole
\* requests and the sketch that answers them.
SinSitio ==
  /\ etapa = "sin" /\ srv = SrvInit /\ visita = SinVisita /\ escrito = <<>> /\ entra = "nada"
  /\ retos = [n \in Navegadores |-> SinReto] /\ ultimo = SinReto /\ visitas = 0
UsoInit == Init /\ (SitioInit \/ SinSitio)
UsoNext ==
  \/ etapa = "sin" /\ Next /\ UNCHANGED sitio
  \/ etapa # "sin" /\ SitioNext /\ UNCHANGED vars
  \/ SitioQuieto
UsoSpec ==
  UsoInit /\ [][UsoNext]_<<vars, sitio>> /\ WF_vars(handleClient) /\ WF_vars(FinDeManejar)

-----------------------------------------------------------------------------
\* The request as its browser means it.
Rellena(h, a) ==
  FoldLeft(LAMBDA e, c : IF c = "{" THEN [t |-> e.t \o a[e.k], k |-> e.k + 1]
                         ELSE IF c = "}" THEN e ELSE [e EXCEPT !.t = Append(@, c)],
           [t |-> <<>>, k |-> 1], h.uri).t
Trozos(t) == {<<>>} \cup {SubSeq(t, i, j) : i, j \in DOMAIN t}
EsSuya(h, v) ==
  CASE h.clase = "estatico"           -> v.metodo = "GET" /\ IF EsArchivo(h) THEN v.uri = h.uri ELSE IsPrefix(h.uri, v.uri)
    [] h.metodo \notin {"ANY", v.metodo} -> FALSE
    [] h.modo = "glob"                -> IsPrefix(Front(h.uri), v.uri)
    [] OTHER -> \E a \in [1..Huecos(h.uri) -> {t \in Trozos(v.uri) : "/" \notin Range(t)}] : Rellena(h, a) = v.uri
Campos(v) ==
  CASE v.cuerpo = "encoded" -> v.campos \o v.mas
    [] v.cuerpo = "plano"   -> Append(v.campos, <<<<"plain">>, v.mas>>)
    [] v.cuerpo = "form"    -> v.mas \o [i \in 1..Min({Len(v.campos), MaxArgs - Len(v.mas)}) |-> v.campos[i]]
    [] OTHER                -> v.campos
De(lineas, n) ==
  LET suyas == SelectSeq(lineas, LAMBDA l : l.nombre = n) IN IF suyas = <<>> THEN <<>> ELSE Last(suyas).valor

\* What the sketch reads is what this browser sent in this request: the first handler
\* whose pattern it fits, the segments of its path, its fields and its headers, and
\* nothing of an earlier request (Parsing.cpp:76-301, UriBraces.h:28-63), but for the
\* fields that a broken form left, which arg() finds first (WebServer.cpp:534-544), and
\* the fields of the URL for which a form has left no room (Parsing.cpp:528).
LeeLoSuyo ==
  etapa = "leida" =>
    /\ srv.handler = Min({i \in DOMAIN Handlers : EsSuya(Handlers[i], visita)} \cup {Len(Handlers) + 1})
                       % (Len(Handlers) + 1)
    /\ srv.handler # Ninguno /\ Handlers[srv.handler].modo = "llaves" =>
         /\ Rellena(Handlers[srv.handler], srv.pathArgs[srv.handler]) = srv.uri
         /\ pathArg(srv, 1) # <<>> => "/" \notin Range(pathArg(srv, 1))
    /\ srv.currentArgs = Campos(visita)
    /\ srv.postArgs = <<>> => \A a \in Range(Campos(visita)) :
         hasArg(srv, a[1]) /\ \E b \in Range(Campos(visita)) : b = <<a[1], arg(srv, a[1])>>
    /\ \A n \in Collect : header(srv, n) = De(visita.lineas, n)

\* A protected handler lets in who answers the server's last challenge with the right
\* password, and nobody else; a browser that puts its own nonce first is not understood
\* (WebServer.cpp:110-115).
EntraConClave ==
  etapa = "leida" =>
    (authenticate(srv) <=>
       /\ visita.auth \in {"Basic", "qop", "antiguo"} /\ visita.clave = CLAVE
       /\ visita.auth # "Basic" => retos[visita.quien] = ultimo)

\* What is written is one response, with the headers of this request alone, and its
\* length or its chunks tell the browser where it ends (WebServer.cpp:392-526, 630-661).
Bytes0(w) == FoldLeft(LAMBDA n, x : n + x.n, 0, w)
RespondeEntero ==
  etapa = "hecha" /\ escrito # <<>> =>
    LET cabeza == Head(escrito)
        resto  == Tail(escrito)
        largos == {l.v : l \in {x \in Range(cabeza.lineas) : x.n = "Content-Length"}}
        porTrozos == \E l \in Range(cabeza.lineas) : l.n = "Transfer-Encoding"
    IN  /\ cabeza.que = "cabeza" /\ \A x \in Range(resto) : x.que = IF porTrozos THEN "trozo" ELSE "bytes"
        /\ \A l \in Range(cabeza.lineas) : l.de = visitas
        /\ largos # {} => largos = {Bytes0(resto)} /\ ~porTrozos
        /\ porTrozos => \A i \in DOMAIN resto : resto[i].n = 0 <=> i = Len(resto)
        /\ ~srv.chunked

\* The sketch and the browser understand each other (WebServer.cpp:97-158, 392-526,
\* Parsing.cpp:74-300).
SitioFiel == LeeLoSuyo /\ EntraConClave /\ RespondeEntero
=============================================================================
