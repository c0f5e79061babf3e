------------------------------- MODULE MCJson -------------------------------
EXTENDS ArduinoJson, FiniteSetsExt

\* Filters: true, {"a":true}, [{"a":true}], {"*":true,"a":false}.
Solo(clave, f) == [clase |-> "objeto", de |-> <<[clave |-> clave, f |-> f]>>]
SoloA == Solo(<<97>>, Todo)
ListaA == [clase |-> "lista", de |-> <<[clave |-> <<>>, f |-> SoloA]>>]
MenosA == [clase |-> "objeto",
           de |-> <<[clave |-> Asterisco, f |-> Todo], [clave |-> <<97>>, f |-> Nunca]>>]
Filtros == {Todo, SoloA, ListaA, MenosA}
\* What is left for an element (of key <<>>) or a member.
Deja(f, clave) ==
  CASE f = Todo   -> Todo
    [] f = SoloA  -> IF clave = <<97>> THEN Todo ELSE Nunca
    [] f = ListaA -> SoloA
    [] f = MenosA -> IF clave = <<97>> THEN Nunca ELSE Todo

\* A value: its text in each style, and what each filter leaves of it.
Textos == {"normal", "espaciado", "desnudo"}
Paquetes == {"corto", "largo"}
Estilos == Textos \cup Paquetes
Nulo == <<110, 117, 108, 108>>
Resto(salida, paquete, ranuras, cadenas) ==
  [salida |-> salida, paquete |-> paquete, ranuras |-> ranuras, cadenas |-> cadenas]
NuloResto == Resto(Nulo, <<192>>, 0, {})
Hoja(texto, salida, corto, largo, cadenas) ==
  [texto |-> [e \in Estilos |-> CASE e = "corto" -> corto [] e = "largo" -> largo [] OTHER -> texto],
   fondo |-> 0, larga |-> Max({Len(c) : c \in cadenas} \cup {0}),
   queda |-> [f \in Filtros |-> IF PermiteValor(f) THEN Resto(salida, corto, 0, cadenas) ELSE NuloResto]]
\* A string of so many bytes, in two forms.
Corta(cs) == <<160 + Len(cs)>> \o cs
Ancha2(cs) == <<218, 0, Len(cs)>> \o cs
HojaCadena(texto, salida, cs) == Hoja(texto, salida, Corta(cs), Ancha2(cs), {cs})
Uno(cs) == <<34>> \o cs \o <<34>>
Hojas == {Hoja(<<49, 50>>, <<49, 50>>, <<12>>, <<205, 0, 12>>, {}),
          Hoja(<<45, 55>>, <<45, 55>>, <<249>>, <<210, 255, 255, 255, 249>>, {}),
          Hoja(Nulo, Nulo, <<192>>, <<192>>, {}),
          HojaCadena(<<34, 34>>, <<34, 34>>, <<>>),
          HojaCadena(Uno(<<97, 98, 99>>), Uno(<<97, 98, 99>>), <<97, 98, 99>>)}
\* "\/\n", "\u00e9\ud83d\ude00", true
Raras == {HojaCadena(Uno(<<92, 47, 92, 110>>), Uno(<<47, 92, 110>>), <<47, 10>>),
          HojaCadena(Uno(<<92, 117, 48, 48, 101, 57, 92, 117, 100, 56, 51, 100, 92, 117, 68, 69, 48, 48>>),
                     Uno(<<195, 169, 240, 159, 152, 128>>), <<195, 169, 240, 159, 152, 128>>),
          Hoja(<<116, 114, 117, 101>>, <<116, 114, 117, 101>>, <<195>>, <<195>>, {})}

Suma(vs, f) == FoldSeq(LAMBDA v, n : v.queda[f].ranuras + n, 0, vs)
Cadenas(vs, f) == UNION {vs[i].queda[f].cadenas : i \in 1..Len(vs)}
Junta(vs, e) == ConComas([i \in 1..Len(vs) |-> IF e = "espaciado" THEN <<32>> \o vs[i].texto[e] \o <<10>>
                                               ELSE vs[i].texto[e]])
Fondo(vs) == 1 + Max({vs[i].fondo : i \in 1..Len(vs)} \cup {0})
Larga(vs) == Max({vs[i].larga : i \in 1..Len(vs)} \cup {0})
Seguidos(vs, e) == FlattenSeq([i \in 1..Len(vs) |-> vs[i].texto[e]])
Lista(vs) ==
  [texto |-> [e \in Estilos |-> CASE e = "corto" -> <<144 + Len(vs)>> \o Seguidos(vs, e)
                                  [] e = "largo" -> <<220, 0, Len(vs)>> \o Seguidos(vs, e)
                                  [] OTHER -> <<91>> \o Junta(vs, e) \o <<93>>],
   fondo |-> Fondo(vs), larga |-> Larga(vs),
   queda |-> [f \in Filtros |->
     LET g == Deja(f, <<>>) IN
     IF ~PermiteColeccion(f, "lista") THEN NuloResto
     ELSE Resto(<<91>> \o ConComas([i \in 1..Len(vs) |-> vs[i].queda[g].salida]) \o <<93>>,
                <<144 + Len(vs)>> \o FlattenSeq([i \in 1..Len(vs) |-> vs[i].queda[g].paquete]),
                Len(vs) + Suma(vs, g), Cadenas(vs, g))]]
ConClave(k, v) ==
  [v EXCEPT !.texto = [e \in Estilos |-> CASE e = "normal" -> Uno(k) \o <<58>> \o v.texto[e]
                                           [] e = "espaciado" -> <<39>> \o k \o <<39, 32, 58, 32>> \o v.texto[e]
                                           [] e = "desnudo" -> k \o <<58>> \o v.texto[e]
                                           [] e = "corto" -> Corta(k) \o v.texto[e]
                                           [] e = "largo" -> <<217, Len(k)>> \o k \o v.texto[e]],
            !.larga = Max({@, Len(k)})]
Objeto(ks, vs) ==
  LET ms == [i \in 1..Len(ks) |-> ConClave(ks[i], vs[i])] IN
  [texto |-> [e \in Estilos |-> CASE e = "corto" -> <<128 + Len(vs)>> \o Seguidos(ms, e)
                                  [] e = "largo" -> <<223, 0, 0, 0, Len(vs)>> \o Seguidos(ms, e)
                                  [] OTHER -> <<123>> \o Junta(ms, e) \o <<125>>],
   fondo |-> Fondo(vs), larga |-> Larga(ms),
   queda |-> [f \in Filtros |->
     LET g(i) == Deja(f, ks[i])
         pasan == SelectSeq([i \in 1..Len(ks) |-> i], LAMBDA i : Permite(g(i)))
         q(i) == vs[pasan[i]].queda[g(pasan[i])]
     IN
     IF ~PermiteColeccion(f, "objeto") THEN NuloResto
     ELSE Resto(<<123>> \o ConComas([i \in 1..Len(pasan) |-> Miembro(ks[pasan[i]], q(i).salida)])
                        \o <<125>>,
                <<128 + Len(pasan)>>
                  \o FlattenSeq([i \in 1..Len(pasan) |-> Corta(ks[pasan[i]]) \o q(i).paquete]),
                Len(pasan) + FoldSeq(LAMBDA i, n : q(i).ranuras + n, 0, [i \in 1..Len(pasan) |-> i]),
                UNION {q(i).cadenas \cup {ks[pasan[i]]} : i \in 1..Len(pasan)})]]

A == <<97>>
AB == <<97, 98>>
Pocas == {h \in Hojas : h.texto["normal"] \in {Nulo, <<45, 55>>}}
Pares(S) == {<<x, y>> : x, y \in S}
Llanas == Hojas \cup Raras \cup {Lista(s) : s \in {<<>>} \cup {<<x>> : x \in Raras} \cup Pares(Hojas \ Pocas)}
          \cup {Objeto(<<>>, <<>>)} \cup {Objeto(<<AB, A>>, <<x, y>>) : x \in Hojas, y \in Raras}
Dentro == {Lista(<<>>), Objeto(<<>>, <<>>), Objeto(<<A>>, <<Lista(<<>>)>>)}
          \cup {Lista(<<x>>) : x \in Raras} \cup {Objeto(<<A, AB>>, <<x, y>>) : x, y \in Raras}
Hondas == {Lista(<<x, Objeto(<<A>>, <<y>>)>>) : x \in Dentro, y \in Raras}
          \cup {Objeto(<<AB, A>>, <<x, y>>) : x \in Dentro, y \in {Lista(<<>>), Objeto(<<A>>, <<Lista(<<>>)>>)}}
Valores == Llanas \cup Hondas

Caso(v, e, f) ==
  [texto |-> v.texto[e], filtro |-> f, clase |-> "clara", salida |-> v.queda[f].salida,
   paquete |-> v.queda[f].paquete,
   fondo |-> v.fondo, larga |-> v.larga, ranuras |-> v.queda[f].ranuras,
   cadenas |-> FoldSet(LAMBDA c, n : Len(c) + 1 + n, 0, v.queda[f].cadenas)]
Cerradas == {Objeto(<<AB, A>>, <<x, y>>) : x \in Raras, y \in {Lista(<<z>>) : z \in Hojas}}
Cortados(S) == UNION {{[Caso(v, e, f) EXCEPT !.texto = SubSeq(@, 1, n), !.clase = "cortada"] :
                      n \in 0..(Len(v.texto[e]) - 1)}
                   : v \in Cerradas, e \in S, f \in {Todo, SoloA}}

Vacio == Caso(Lista(<<>>), "normal", Todo)
\* {"a":[1],"a":2}  {a:1,a:null}  {"a" 1}  [1 2]  [1,]  {,}  nulo  12x  12 3  ["\q"]
\* ["\u00g0"]  [[[[  1.5e3  1.  -  300  ["\ud83d","\ude00"]  ["\u00?`"]  1e999x  1.e308x
Malos == {<<123, 34, 97, 34, 58, 91, 49, 93, 44, 34, 97, 34, 58, 50, 125>>,
          <<123, 97, 58, 49, 44, 97, 58, 110, 117, 108, 108, 125>>,
          <<123, 34, 97, 34, 32, 49, 125>>, <<91, 49, 32, 50, 93>>, <<91, 49, 44, 93>>, <<123, 44, 125>>,
          <<110, 117, 108, 111, 120>>, <<49, 50, 120>>, <<49, 50, 32, 51>>, <<91, 34, 92, 113, 34, 93>>,
          <<91, 34, 92, 117, 48, 48, 103, 48, 34, 93>>, <<91, 91, 91, 91>>, <<49, 46, 53, 101, 51>>,
          <<91, 34, 92, 117, 48, 48, 63, 96, 34, 93>>, <<49, 101, 57, 57, 57, 120>>,
          <<49, 46, 101, 51, 48, 56, 120>>, <<49, 46>>, <<45>>, <<51, 48, 48>>,
          <<91, 34, 92, 117, 100, 56, 51, 100, 34, 44, 34, 92, 117, 100, 101, 48, 48, 34, 93>>}
Otros(S) == {[Vacio EXCEPT !.texto = t, !.filtro = f, !.clase = "otra"] : t \in S, f \in Filtros}
MCCasos == {Caso(v, e, f) : v \in Llanas, e \in Textos, f \in Filtros}
           \cup {Caso(v, "espaciado", f) : v \in Hondas, f \in Filtros}
           \cup Cortados({"espaciado", "desnudo"}) \cup Otros(Malos)

\* What is never used; a key that is no string; binary, extended and real values and
\* the other numbers in a map; a name that comes twice, and one with a NUL.
MalosMp == {<<193>>, <<129, 1, 1>>, <<130, 161, 98, 196, 2, 7, 7, 161, 97, 199, 1, 9, 9>>,
            <<130, 161, 97, 203, 1, 2, 3, 4, 5, 6, 7, 8, 161, 98, 202, 1, 2, 3, 4>>,
            <<131, 161, 97, 204, 200, 161, 98, 208, 128, 161, 99, 212, 1, 1>>,
            <<130, 161, 97, 209, 255, 0, 161, 97, 207, 0, 0, 0, 0, 0, 0, 1, 0>>,
            <<129, 162, 97, 0, 145, 194>>, <<129, 145, 145, 145, 145>>, <<129, 161, 97, 217, 3, 1>>}
ConElementos(v) == v.texto["corto"][1] \in 145..159
MCCasosMp == {Caso(v, e, f) : v \in Valores, e \in Paquetes, f \in Filtros \ {MenosA}}
             \cup {Caso(v, e, MenosA) : v \in {x \in Valores : ~ConElementos(x)}, e \in Paquetes}
             \cup Cortados(Paquetes) \cup Otros(MalosMp)

-----------------------------------------------------------------------------
\* Keys and strings 1, 2 and 3, the last of two bytes; propia is one that is copied.
MCLargo == <<1, 1, 2>>
K(c) == [c |-> c, propia |-> FALSE]
KP(c) == [c |-> c, propia |-> TRUE]
I(i) == [i |-> i]
V(t, v) == [t |-> t, v |-> v, h |-> <<>>]
Llamada(cmd, ruta, x, de) == [cmd |-> cmd, d |-> 1, ruta |-> ruta, x |-> x, de |-> de, ok |-> TRUE]
SinValor(cmd, ruta) == Llamada(cmd, ruta, ArbolNulo, <<>>)
ConValor(cmd, ruta, x) == Llamada(cmd, ruta, x, <<>>)
Rutas == {<<KP(1)>>, <<K(2)>>, <<I(1)>>, <<KP(1), I(0)>>, <<KP(1), KP(3)>>}
MCLlamadas ==
  {ConValor("set", r, x) : r \in Rutas, x \in {V("natural", 1), V("propia", 3)}}
  \cup {ConValor("set", <<>>, V("enlazada", 2))}
  \cup {Llamada("setDeAqui", r, ArbolNulo, de) :
          r \in {<<KP(1)>>, <<K(2)>>}, de \in {<<KP(1)>>, <<K(1), I(0)>>}}
  \cup {Llamada("setDeOtro", r, ArbolNulo, de) : r \in {<<>>, <<KP(1)>>}, de \in {<<>>, <<K(1)>>}}
  \cup {ConValor("add", r, x) : r \in {<<>>, <<K(2)>>}, x \in {V("entero", -1), V("propia", 3), V("lista", 0)}}
  \cup {ConValor("copyArray", r, [V("lista", 0) EXCEPT !.h = [i \in 1..2 |-> [k |-> 0, propia |-> FALSE, x |-> V("propia", i)]]])
          : r \in {<<>>, <<K(2)>>}}
  \cup {ConValor("to", r, V(t, 0)) : r \in {<<>>, <<K(1)>>}, t \in {"lista", "objeto"}}
  \cup {SinValor("clear", r) : r \in {<<>>, <<K(1)>>}}
  \cup {SinValor("remove", r) : r \in {<<K(1)>>, <<K(2)>>, <<I(0)>>, <<K(1), I(0)>>}}
  \cup {SinValor("as", r) : r \in {<<K(1), K(2)>>, <<I(0), I(0)>>}}
  \cup {ConValor("refAdd", <<K(1)>>, V("propia", 1)), ConValor("refSet", <<KP(3)>>, V("logico", 1)),
        ConValor("refClear", <<>>, V("lista", 0)), ConValor("refRemove", <<>>, V("objeto", 0))}
  \cup {SinValor(cmd, <<>>) : cmd \in {"shrinkToFit", "garbageCollect", "copia", "mueve"}}
  \cup {[SinValor("mueve", <<>>) EXCEPT !.d = 2]}
  \cup {Llamada(cmd, <<>>, ArbolNulo, <<K(1)>>) : cmd \in {"asigna", "nuevo"}}

\* {2: 1, 1: ["3", "3"]}, {1: 1}, {1: 1, 2: "3"}
ListaDentro ==
  LET D == Pon(Con(300, 24), <<K(2)>>, V("natural", 1))
      E == Pon(D, <<KP(1)>>, V("lista", 0))
  IN  Anade(Anade(E, <<KP(1)>>, V("propia", 3)), <<KP(1)>>, V("propia", 3))
Corto == Pon(Con(100, 16), <<K(1)>>, V("natural", 1))
Parejo == Pon(Pon(Con(200, 26), <<K(1)>>, V("natural", 1)), <<KP(2)>>, V("propia", 3))
MCInicial == {<<Con(100, 16), ListaDentro>>, <<ListaDentro, Con(200, 22)>>,
              <<Corto, Parejo>>, <<Con(0, 0), Parejo>>}
=============================================================================
