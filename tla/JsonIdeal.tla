----------------------------- MODULE JsonIdeal -----------------------------
(***************************************************************************)
(* What the calls of JsonDocumento promise, said of trees that take no room,  *)
(* and that the documents in their pools keep it.                             *)
(***************************************************************************)
EXTENDS JsonDocumento

\* What is at a path, if anything.
Puesto_(T, e) ==
  IF Nombre(e) THEN IF T.t = "objeto" THEN SelectInSeq(T.h, LAMBDA m : m.k = e.c) ELSE 0
  ELSE IF T.t = "lista" /\ e.i < Len(T.h) THEN e.i + 1 ELSE 0
RECURSIVE Sub(_, _)
Sub(T, ruta) ==
  IF ruta = <<>> THEN T
  ELSE LET i == Puesto_(T, Head(ruta)) IN IF i = 0 THEN ArbolNulo ELSE Sub(T.h[i].x, Tail(ruta))

ColeccionVacia(t) == [t |-> t, v |-> 0, h |-> <<>>]
\* A null becomes the collection that a call needs; anything else stays what it is.
ComoSi(T, t) == IF T.t = "nulo" THEN ColeccionVacia(t) ELSE T
Aparte(x) == [k |-> 0, propia |-> FALSE, x |-> x]
ConUltimo(T, x) == IF T.t = "lista" THEN [T EXCEPT !.h = Append(@, Aparte(x))] ELSE T
Aplicado(T, modo, x) ==
  CASE modo = "pon" -> x [] modo = "anade" -> ConUltimo(ComoSi(T, "lista"), x) [] modo = "toca" -> T

\* A write at a path makes what is missing on its way.
RECURSIVE En(_, _, _, _)
En(T, ruta, modo, x) ==
  IF ruta = <<>> THEN Aplicado(T, modo, x)
  ELSE LET e == Head(ruta)
           B == ComoSi(T, IF Nombre(e) THEN "objeto" ELSE "lista")
           i == Puesto_(B, e)
           nuevo == En(ArbolNulo, Tail(ruta), modo, x)
       IN  IF i > 0 THEN [B EXCEPT !.h[i].x = En(@, Tail(ruta), modo, x)]
           ELSE IF Nombre(e)
           THEN IF B.t # "objeto" THEN T
                ELSE [B EXCEPT !.h = Append(@, [k |-> e.c, propia |-> e.propia, x |-> nuevo])]
           ELSE IF B.t # "lista" THEN T
                ELSE [B EXCEPT !.h = @ \o [j \in 1..(e.i + 1 - Len(@)) |->
                                             Aparte(IF j = e.i + 1 - Len(B.h) THEN nuevo ELSE ArbolNulo)]]

\* A change of what is already there.
RECURSIVE SiHay(_, _, _)
SiHay(T, ruta, x) ==
  IF ruta = <<>> THEN x
  ELSE LET i == Puesto_(T, Head(ruta)) IN
       IF i = 0 THEN T ELSE [T EXCEPT !.h[i].x = SiHay(@, Tail(ruta), x)]
SinEl(T, e) == LET i == Puesto_(T, e) IN IF i = 0 THEN T ELSE [T EXCEPT !.h = RemoveAt(@, i)]

\* What a call makes of a document that is T, the other one being X.
Deberia(c, T, X) ==
  LET aqui == Sub(T, c.ruta) IN
  CASE c.cmd = "set" -> En(T, c.ruta, "pon", c.x)
    [] c.cmd = "setDeOtro" -> En(T, c.ruta, "pon", Sub(X, c.de))
    \* Onto itself a collection is lost.
    [] c.cmd = "setDeAqui" ->
         En(T, c.ruta, "pon", LET x == Sub(T, c.de) IN
                              IF c.de = c.ruta /\ EsColeccion(x) THEN ColeccionVacia(x.t) ELSE x)
    [] c.cmd = "add" -> En(T, c.ruta, "anade", c.x)
    [] c.cmd = "copyArray" ->
         FoldLeft(LAMBDA E, m : En(E, c.ruta, "anade", m.x),
                  IF c.ruta = <<>> THEN ColeccionVacia("lista") ELSE T, c.x.h)
    [] c.cmd = "to" -> En(T, c.ruta, "pon", ColeccionVacia(c.x.t))
    [] c.cmd = "clear" -> SiHay(T, c.ruta, ArbolNulo)
    [] c.cmd = "remove" -> SiHay(T, Front(c.ruta), SinEl(Sub(T, Front(c.ruta)), Last(c.ruta)))
    \* To read an element of an element makes the first one.
    [] c.cmd = "as" -> IF DosIndices(c.ruta) THEN En(T, Front(c.ruta), "toca", ArbolNulo) ELSE T
    [] c.cmd = "refAdd" -> SiHay(T, c.ruta, ConUltimo(aqui, c.x))
    [] c.cmd = "refSet" -> IF Sub(T, Front(c.ruta)).t = "objeto" THEN En(T, c.ruta, "pon", c.x) ELSE T
    [] c.cmd = "refClear" -> IF aqui.t = c.x.t THEN SiHay(T, c.ruta, ColeccionVacia(c.x.t)) ELSE T
    [] c.cmd = "refRemove" ->
         IF aqui.t = c.x.t /\ aqui.h # <<>> THEN SiHay(T, c.ruta, [aqui EXCEPT !.h = Front(@)]) ELSE T
    [] c.cmd \in {"shrinkToFit", "garbageCollect"} -> T
    [] c.cmd \in {"copia", "mueve"} -> X
    [] c.cmd \in {"asigna", "nuevo"} -> Sub(X, c.de)

\* N is F but for what had no room: the end of a collection, or a string that is null.
RECURSIVE Recorte(_, _)
Recorte(N, F) ==
  \/ N = ArbolNulo
  \/ /\ N.t = F.t /\ N.v = F.v /\ Len(N.h) <= Len(F.h)
     /\ \A i \in 1..Len(N.h) : N.h[i].k = F.h[i].k /\ Recorte(N.h[i].x, F.h[i].x)
\* What was not on the path is as it was.
RECURSIVE Intacto(_, _, _)
Intacto(N, B, ruta) ==
  \/ ruta = <<>>
  \/ /\ B.t \in {N.t, "nulo"} /\ Len(B.h) <= Len(N.h)
     /\ LET i == Puesto_(B, Head(ruta)) IN
        \A j \in 1..Len(B.h) : IF j = i THEN Intacto(N.h[j].x, B.h[j].x, Tail(ruta)) ELSE N.h[j] = B.h[j]

Lleno(D) == D.lleno /\ D.der - D.izq < Max({Bytes} \cup {Largo[c] + 1 : c \in DOMAIN Largo})
\* These make room for what they are to hold, unless there is no memory.
HaceSitio(c) == c.cmd \in {"shrinkToFit", "garbageCollect", "copia", "mueve", "asigna", "nuevo"}
\* The document c.d was B and is N; it should be F.
Cumple(c, N, B, F, D) ==
  \/ N = F
  \/ /\ Recorte(N, F) /\ Intacto(N, B, IF HaceSitio(c) THEN <<>> ELSE c.ruta)
     /\ Lleno(D) /\ (HaceSitio(c) => D.base = 0)
PasoDeArboles(c, N, B, X, Y) ==
  /\ Cumple(c, N, B, Deberia(c, B, X), docs'[c.d])
  /\ Y = IF c.cmd = "mueve" THEN ArbolNulo ELSE X
PasoDe(c) ==
  PasoDeArboles(c, Arbol(docs'[c.d], RAIZ), Arbol(docs[c.d], RAIZ),
                Arbol(docs[ElOtro(c.d)], RAIZ), Arbol(docs'[ElOtro(c.d)], RAIZ))

-----------------------------------------------------------------------------
\* The pool of a document, and every pointer in it.
Sano(D) ==
  LET vs == {RAIZ} \cup DOMAIN D.ranuras IN
  /\ D.base <= D.izq /\ D.izq <= D.der /\ D.der <= D.fin
  /\ \A a \in DOMAIN D.cadenas :
       /\ D.base <= a /\ a + Largo[D.cadenas[a]] < D.izq
       /\ \A b \in DOMAIN D.cadenas : a < b => a + Largo[D.cadenas[a]] < b
  /\ \A a \in DOMAIN D.ranuras :
       /\ D.der <= a /\ a + Bytes <= D.fin /\ (a - D.base) % Alineo = 0
       /\ D.ranuras[a].propia => D.ranuras[a].clave \in DOMAIN D.cadenas
       /\ Siguiente(D, a) \in DOMAIN D.ranuras \cup {NULO}
  /\ \A p \in vs : LET x == Dato(D, p) IN
       /\ x.t = "propia" => x.v \in DOMAIN D.cadenas
       /\ EsColeccion(x) => /\ x.cab \in DOMAIN D.ranuras \cup {NULO}
                            /\ x.cola = IF x.cab = NULO THEN NULO ELSE Last(Ranuras(D, p))

\* Without nulls, two values compare as equal when they say the same, and are ordered
\* the same from either side.
RECURSIVE SinNulos(_), Mismo(_, _)
SinNulos(T) == T.t # "nulo" /\ \A i \in 1..Len(T.h) : SinNulos(T.h[i].x)
Mismo(A, B) ==
  CASE EsNumero(A) -> EsNumero(B) /\ A.v = B.v
    [] EsCadena(A) -> EsCadena(B) /\ A.v = B.v
    [] A.t = "lista" -> B.t = "lista" /\ Len(A.h) = Len(B.h)
                        /\ \A i \in 1..Len(A.h) : Mismo(A.h[i].x, B.h[i].x)
    [] A.t = "objeto" -> B.t = "objeto" /\ Len(A.h) = Len(B.h)
                         /\ \A i \in 1..Len(A.h) : \E j \in 1..Len(B.h) :
                              A.h[i].k = B.h[j].k /\ Mismo(A.h[i].x, B.h[j].x)
    [] A.t = "nulo" -> B.t = "nulo"
RECURSIVE Partes(_)
Partes(T) == {T} \cup UNION {Partes(T.h[i].x) : i \in 1..Len(T.h)}
ParComparado(A, B) ==
  SinNulos(A) /\ SinNulos(B) =>
    /\ Igual(A, B) = Mismo(A, B) /\ Distinto(A, B) = ~Mismo(A, B)
    /\ Menor(A, B) = Mayor(B, A) /\ MenorOIgual(A, B) = MayorOIgual(B, A)
    /\ MenorOIgual(A, B) = (Menor(A, B) \/ Mismo(A, B))
Comparadas(A, B) == \A a \in Partes(A), b \in Partes(B) : ParComparado(a, b)
=============================================================================
