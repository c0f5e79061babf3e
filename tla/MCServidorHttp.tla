--------------------------- MODULE MCServidorHttp ---------------------------
\* Small instances of ServidorHttp for TLC: requests without a form, forms of
\* fields, and forms whose file is any short sequence of bytes without the
\* delimiter, alone or after a field and before another.
EXTENDS SitioHttp

MCFrontera == <<"b", "c">>

Base == [metodo |-> "GET", version |-> 1, manejador |-> "fn", tipo |-> "texto",
         largo |-> 0, query |-> 1, texto |-> <<>>]
SinForm ==
  {[Base EXCEPT !.metodo = m, !.version = v, !.manejador = h] :
     m \in {"GET", "otro", "mudo"}, v \in {0, 1}, h \in {"ninguno", "estatico", "fn"}}
  \cup {[Base EXCEPT !.metodo = "POST", !.tipo = t, !.largo = 2, !.texto = <<"dato", "dato", "dato">>] :
     t \in {"texto", "encoded"}}
Form1(texto, q) ==
  [Base EXCEPT !.metodo = "POST", !.tipo = "form", !.query = q, !.manejador = "fnSubida", !.texto = texto]
UnCampo == <<"campo", "vacia", "dato">>
ConTipo == <<"campo", "tipo", "vacia", "dato">>
DeCampos ==
  {Form1(<<"abre">> \o UnCampo \o <<"abre">> \o UnCampo \o <<f>>, q) : f \in {"abre", "cierra"}, q \in {0, 1}}
  \cup {Form1(<<"dato">>, 0), Form1(<<"abre">> \o UnCampo \o <<"abre">> \o UnCampo \o <<"abre">> \o UnCampo \o <<"cierra">>, 0),
        Form1(<<"abre">> \o ConTipo \o <<"cierra">>, 2)}

Contenidos ==
  UNION {[1..n -> {"CR", "LF", "-", "b"}] : n \in 0..3}
  \cup {<<"CR", "LF">> \o c : c \in [1..2 -> {"CR", "LF", "-", "b"}]}
  \cup {<<"CR", "LF", "-", "-", "b", "b">>, <<"CR", "LF", "-", "-", "b", "-", "c">>,
          <<"CR", "CR", "LF", "-", "-", "b">>, <<"CR", "LF", "-", "-", "CR", "b", "c">>}
DeArchivo ==
  {Form1(<<"abre", "archivo", "tipo", "vacia">> \o c \o Delimitador \o <<"fin">>, 0) : c \in Contenidos}
  \cup {Form1(<<"abre">> \o UnCampo \o <<"abre", "archivo", "vacia", "b">> \o Delimitador
                  \o <<"mas">> \o UnCampo \o <<"cierra">>, 1)}
MCPeticiones == SinForm \cup DeCampos \cup DeArchivo

-----------------------------------------------------------------------------
\* A site: handlers with fixed, open and braced paths, a directory and a file, and
\* one handler behind each kind of password.
Fn(metodo, modo, uri, fn) == [clase |-> "fn", metodo |-> metodo, modo |-> modo, uri |-> uri, fn |-> fn]
Estatico(uri, path, cache) == [clase |-> "estatico", modo |-> "", uri |-> uri, path |-> path, cache |-> cache]
MCHandlers == <<
  Fn("GET",  "exacta", <<"/", "a">>, <<"sendHeader", "send">>),
  Fn("POST", "exacta", <<"/", "a">>, <<"send_P">>),
  Fn("ANY",  "llaves", <<"/", "{", "}", "/", "b">>, <<"sinLargo", "sendVacio", "sendContent", "sendContent">>),
  Fn("GET",  "exacta", <<"/", "k">>, <<"digest", "send">>),
  Fn("GET",  "exacta", <<"/", "l">>, <<"basic", "send_P_Largo">>),
  Estatico(<<"/", "s", "/">>, <<"/d/">>, TRUE),
  Estatico(<<"/", "f">>, <<"/d/", "x", ".js">>, FALSE),
  Fn("ANY",  "llaves", <<"/", "u", "/", "{", "}">>, <<"largo", "send">>),
  Fn("ANY",  "glob",   <<"/", "g", "*">>, <<"sendVacio">>) >>
MCNoEncontrado == <<"sinLargo", "send">>
MCCollect == {"X-a"}
MCArchivos ==
  (<<"/d/", "x", ".js", ".gz">> :> [n |-> 3]) @@ (<<"/d/", "x", ".js">> :> [n |-> 4])
  @@ (<<"/d/", "y", ".js", ".gz">> :> [n |-> 5]) @@ (<<"/d/", "index.htm">> :> [n |-> 6])
  @@ (<<"/d/", "z", ".js">> :> [n |-> 0])

Visita0 == [quien |-> 1, metodo |-> "GET", version |-> 1, uri |-> <<"/", "a">>, campos |-> <<>>,
            cuerpo |-> "nada", mas |-> <<>>, lineas |-> <<>>, auth |-> "nada", clave |-> "buena"]
A(n, x) == <<n, x>>
Linea(n, e, x) == [nombre |-> n, espacio |-> e, valor |-> x]
Raros == <<A(<<"a">>, <<"&", "=", "%">>), A(<<"b", " ">>, <<>>)>>
PorRuta ==
  {[Visita0 EXCEPT !.uri = u, !.version = x] : x \in {0, 1}, u \in
     {<<"/", "a">>, <<"/", "x", "/", "b">>, <<"/", "x", "/", "x">>, <<"/", "u", "/", "x", "x">>, <<"/", "u", "/">>,
      <<"/", "u", "/", "x", "/", "x">>, <<"/", "g", "x">>, <<"/", "f">>,
      <<"/", "s", "/">>, <<"/", "s", "/", "x", ".js">>, <<"/", "s", "/", "y", ".js">>, <<"/", "s", "/", "z", ".js">>}}
PorCampos ==
  {[Visita0 EXCEPT !.campos = c, !.lineas = l] : c \in {<<>>, Raros}, l \in
     {<<>>, <<Linea("X-a", TRUE, <<"v">>)>>, <<Linea("Host", TRUE, <<"h">>), Linea("X-b", TRUE, <<"v">>)>>}}
  \cup {[Visita0 EXCEPT !.metodo = "POST", !.campos = Raros, !.cuerpo = c, !.mas = Raros,
                        !.lineas = <<Linea("X-a", e, <<"w">>)>>] : c \in {"encoded", "form", "rota"}, e \in BOOLEAN}
  \cup {[Visita0 EXCEPT !.metodo = "POST", !.campos = Raros, !.cuerpo = "plano", !.mas = <<"%", "2", "6">>],
        [Visita0 EXCEPT !.metodo = "POST", !.campos = Raros, !.cuerpo = "form", !.mas = <<A(<<"c">>, <<"x">>)>>]}
PorClave ==
  {[Visita0 EXCEPT !.quien = n, !.uri = u, !.auth = a, !.clave = c] :
     n \in {1, 2}, u \in {<<"/", "k">>, <<"/", "l">>}, a \in {"nada", "Basic", "qop", "antiguo", "primero"},
     c \in {"buena", "mala"}}
MCVisitas == PorRuta \cup PorCampos \cup PorClave
=============================================================================
