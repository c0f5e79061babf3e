--------------------------- MODULE MCServidorAsync ---------------------------
EXTENDS SitioAsync

MCFrontera == <<"f">>
MCCabecera == <<401, 402>>
MCValores  == <<7>> :> <<21, 22, 23>> @@ <<8, 9>> :> <<24>>

Linea(l) == <<l, "LF">>
Inicio(ls) == Linea("pide") \o FlattenSeq([i \in 1..Len(ls) |-> Linea(ls[i])]) \o <<"LF">>
Pide(ls, cuerpo) == Inicio(ls) \o cuerpo

Caso(ls, cuerpo, largo, clase, contenido) ==
  [pedido |-> Pide(ls, cuerpo), largo |-> largo, minimo |-> Len(Inicio(ls)) + largo,
   trivial |-> FALSE, breve |-> FALSE, tarda |-> FALSE, clase |-> clase, contenido |-> contenido,
   params |-> <<>>, archivos |-> <<>>, cuerpo |-> <<>>]
Get(clase, contenido) == Caso(<<>>, <<>>, 0, clase, contenido)
Dado(n, v) == [nombre |-> n, valor |-> v]
Arch(n, v) == [nombre |-> n, bytes |-> v]

\* A value longer than its name, one that is shorter, and a name without value.
Pagina == <<Por, 5, Por, 1, 2, 3, 4, Por, 7, Por, 1, Por, 8, 9, Por, 2>>
Respuestas ==
  {Get("basica", <<1, 2, 3>>),
   Get("basica", [i \in 1..12 |-> i]),
   Get("basica", <<>>),
   Get("archivo", [i \in 1..14 |-> i]),
   Get("flujo", <<1, 2, 3>>),
   Get("impresa", <<1, 2, 3>>),
   Get("invalida", <<>>),
   [Get("trozos", <<1, 2, 3, 4>>) EXCEPT !.tarda = TRUE],
   Get("plantilla", Pagina),
   [Get("basica", <<1>>) EXCEPT !.trivial = TRUE]}

Parte(l, v) == Linea(l) \o <<"LF">> \o v
Otra  == Delimitador \o <<"CR", "LF">>
Cierre == Delimitador \o <<"-", "-", "CR", "LF">>
\* Values that hold or end with a beginning of the delimiter, and one that is empty.
Campo == <<"x", "CR", "CR", "LF", "-", "y">>
Fichero == <<"a", "CR", "LF", "-", "-", "CR", "b", "CR">>
Formulario == Apertura \o Parte("campo", Campo) \o Otra
              \o Parte("archivo", Fichero) \o Otra
              \o Parte("campo", <<>>) \o Cierre
Corto == Apertura \o Parte("archivo", Fichero) \o Cierre
\* A form that states a length of its own: that of its body, more or less.
DeForma(largo) ==
  [Caso(<<"multipart", "largo">>, Corto, largo, "basica", <<>>)
     EXCEPT !.archivos = <<Arch("archivo", Fichero)>>, !.breve = largo < Len(Corto),
            !.minimo = Len(Inicio(<<"multipart", "largo">>)) + Len(Corto)]

Encoded == <<"ssid", "=", "a", "%26", "&", "ip", "=", "&", "b", "=", "=">>
\* A name without value, a piece that is empty, a value with "=" and one that ends it.
Consulta == <<"pide", "?", "a", "&", "&", "b", "=", "+", "=", "&", "c", "=", "LF">>
Pedidos ==
  {[Caso(<<"multipart", "largo">>, Formulario, Len(Formulario), "basica", <<>>)
      EXCEPT !.params = <<Dado("campo", Campo), Dado("campo", <<>>)>>,
             !.archivos = <<Arch("archivo", Fichero)>>],
   [Caso(<<"largo", "multipart", "expect">>, Corto, Len(Corto), "basica", <<>>)
      EXCEPT !.archivos = <<Arch("archivo", Fichero)>>],
   [Caso(<<"encoded", "largo">>, Encoded, Len(Encoded), "basica", <<1>>)
      EXCEPT !.params = <<Dado("ssid", <<"a", "&">>), Dado("ip", <<>>), Dado("b", <<"=">>)>>],
   [Get("basica", <<1>>)
      EXCEPT !.pedido = Consulta \o <<"LF">>, !.minimo = Len(Consulta) + 1,
             !.params = <<Dado("a", <<>>), Dado("", <<>>), Dado("b", <<" ", "=">>), Dado("c", <<>>)>>],
   [Caso(<<"texto", "largo">>, <<"{", "a", "=", "b">>, 4, "archivo", <<1>>)
      EXCEPT !.cuerpo = <<"{", "a", "=", "b">>],
   [Caso(<<"encoded", "largo">>, <<"a", "=", "b", "c">>, 3, "basica", <<1>>)
      EXCEPT !.params = <<Dado("a", <<"b">>)>>],
   [Caso(<<"multipart", "largo">>, Corto, Len(Corto), "basica", <<1>>) EXCEPT !.trivial = TRUE],
   [Caso(<<>>, <<>>, 0, "basica", <<1>>) EXCEPT !.pedido = <<"LF", "LF">>]}

\* Stated lengths that end behind the form, in its end, in its file and before it.
MalMedidas == {DeForma(Len(Corto) + d) : d \in {3, -2, -11, -21}}
MCCasos == Respuestas \cup Pedidos \cup MalMedidas

-----------------------------------------------------------------------------
\* A small site: the page of the fireplace, a JSON function, the editor and the files.
Metodos == {"GET", "POST", "PUT", "DELETE"}
Funcion(uri, modo, envia, filtro) ==
  [clase |-> "funcion", uri |-> uri, modo |-> modo, metodos |-> Metodos, envia |-> envia, filtro |-> filtro]
Estatico(uri, path, fecha) ==
  [clase |-> "estatico", uri |-> uri, path |-> path, isDir |-> TRUE, fecha |-> fecha,
   cache |-> fecha = "", filtro |-> ""]
MCManejadores ==
  <<Funcion(<<"/">>, "exacta", <<"/", "p">>, ""),
    Funcion(<<"/", "x", "/">>, "bajo", <<>>, "ap"),
    Funcion(<<".js">>, "extension", <<>>, ""),
    [clase |-> "json", uri |-> <<"/", "j">>, metodos |-> {"POST", "PUT"}, max |-> 3, filtro |-> ""],
    [clase |-> "editor", filtro |-> "sta"],
    Estatico(<<"/", "s">>, <<"/", "d">>, "ayer"),
    Estatico(<<>>, <<>>, "")>>
MCReescrituras == <<[de |-> <<"/", "viejo">>, a |-> <<"/", "b">>, filtro |-> ""],
                    [de |-> <<"/", "b">>, a |-> <<"/", "a">>, filtro |-> "sta"]>>

Fich(n) == <<"/", n>>
Comp(n) == <<"/", n, ".gz">>
MCArchivosDe ==
  {Fich("a") :> <<1, 1>> @@ <<"/", "d", "/", "index.htm">> :> <<3>>,
   Comp("a") :> <<11, 11, 11>> @@ Fich("p") :> <<4>>,
   Fich("a") :> <<1, 1>> @@ Comp("a") :> <<11, 11, 11>> @@ Comp("p") :> <<14, 14>>}

Visita(m, url) ==
  [metodo |-> m, url |-> url, pide |-> url, ap |-> FALSE, desde |-> "", tipo |-> "", orden |-> "",
   param |-> <<>>, cuerpo |-> <<>>, documento |-> "", largo |-> 0]
Editor(m, orden, param, cuerpo) ==
  [Visita(m, <<"/", "edit">>) EXCEPT !.orden = orden, !.param = param, !.cuerpo = cuerpo,
                                     !.largo = IF m = "GET" THEN 0 ELSE 1]
Json(cuerpo, documento) ==
  [Visita("POST", <<"/", "j">>) EXCEPT !.tipo = "json", !.cuerpo = cuerpo, !.documento = documento,
                                       !.largo = Len(cuerpo)]
MCVisitas ==
  {Visita("GET", u) : u \in {<<"/">>, Fich("a"), Comp("a"), Fich("viejo"), <<"/", "s", "/">>}}
  \cup {[Visita("GET", <<"/", "s">>) EXCEPT !.desde = "ayer"],
        [Visita("GET", <<"/", "x", "/", "y", ".js">>) EXCEPT !.ap = TRUE],
        Visita("GET", <<"/", "y", ".js">>),
        Editor("GET", "list", <<>>, <<>>), Editor("GET", "download", Comp("a"), <<>>),
        Editor("GET", "", <<>>, <<>>),
        Editor("DELETE", "", Fich("a"), <<>>), Editor("PUT", "", Fich("a"), <<>>),
        Editor("POST", "", Fich("a"), <<2, 2, 2, 2>>),
        Json(<<1, 2>>, "entero"), Json(<<1, 2>>, "abierto"), Json(<<1, 2, 3>>, "entero"),
        Json(<<1, 2, 3, 4>>, "entero"), Json(<<>>, "")}
MCCopias == {<<>>, Fich("a") :> [bytes |-> <<1, 1>>, entera |-> TRUE]}
\* One pattern that is cut, one that needs matchWild() to go back and takes the next
\* for its end, and one behind an empty line.
MCPatrones == <<<<"/", "*", "p", "q">>, <<"*", "a", "?">>, <<"*">>, <<>>, <<"*">>>>
=============================================================================
