--------------------------- MODULE JsonDocumento ---------------------------
(***************************************************************************)
(* A program that builds, edits, copies and compares two JsonDocuments of     *)
(* ArduinoJson through the proxies doc["a"][0] and the references to their    *)
(* arrays and objects.  A path is a sequence of keys [c, propia] and indexes  *)
(* [i].  One step is one call.                                                *)
(***************************************************************************)
EXTENDS JsonColeccion

CONSTANTS
  Bases,      \* the addresses that malloc() gives
  Inicial,    \* the pairs of documents to begin with
  Llamadas,   \* the calls that the program may make
  MaxLlamadas \* how many it makes

VARIABLES
  docs,       \* the documents
  hecho,      \* the last call, and what it returned
  vez         \* how many calls have been made

docVars == <<docs, hecho, vez>>
ElOtro(d) == 3 - d
Nombre(e) == "c" \in DOMAIN e

-----------------------------------------------------------------------------
(* VariantRef.hpp, VariantImpl.hpp, VariantFunctions.hpp: a reference is a  *)
(* document and what is meant in it, which may be nothing.                  *)
HijoDe(r, e) ==
  Logra(r.d, IF r.p = NULO THEN NULO ELSE IF Nombre(e) THEN HallaMiembro(r.d, r.p, e) ELSE HallaElemento(r.d, r.p, e.i))
HijoOCrea(r, e) ==
  IF r.p = NULO THEN r ELSE IF Nombre(e) THEN MiembroEn(r.d, r.p, e) ELSE ElementoEn(r.d, r.p, e.i)
HijoNuevo(r) == IF r.p = NULO THEN r ELSE MasElemento(r.d, r.p)
SinHijo(r, e) ==
  IF r.p = NULO THEN r.d ELSE IF Nombre(e) THEN SinMiembro(r.d, r.p, e) ELSE SinElemento(r.d, r.p, e.i)

\* set(): nothing is written to a reference to nothing.
Fijado(r, T) == IF r.p = NULO THEN r.d ELSE Copiado(r.d, r.p, T).d
ArbolNulo == [t |-> "nulo", v |-> 0, h |-> <<>>]
ArbolEn(r) == IF r.p = NULO THEN ArbolNulo ELSE Arbol(r.d, r.p)
Raiz(D) == Logra(D, RAIZ)

-----------------------------------------------------------------------------
(* MemberProxy.hpp, ElementProxy.hpp, JsonDocument.hpp                     *)
RECURSIVE HallaOCrea(_, _)
HallaOCrea(D, ruta) ==
  IF ruta = <<>> THEN Raiz(D) ELSE HijoOCrea(HallaOCrea(D, Front(ruta)), Last(ruta))

\* getElement() of an ElementProxy makes what it is an element of.
DosIndices(ruta) == Len(ruta) > 1 /\ ~Nombre(Last(ruta)) /\ ~Nombre(Last(Front(ruta)))
RECURSIVE Halla(_, _)
Halla(D, ruta) ==
  IF ruta = <<>> THEN Raiz(D)
  ELSE HijoDe(IF DosIndices(ruta) THEN HallaOCrea(D, Front(ruta)) ELSE Halla(D, Front(ruta)), Last(ruta))

\* operator=, set() of a proxy; set() and to<>() of a document clear it first.
Lugar(D, ruta) == HallaOCrea(IF ruta = <<>> THEN Vaciado(D) ELSE D, ruta)
Pon(D, ruta, T) == Fijado(Lugar(D, ruta), T)
\* The same, of what is at another path of this document: it is looked for when there
\* is already where to put it, and a collection copied onto itself is emptied first.
Traida(p, q) == LET T == ArbolEn(q) IN IF q.p = p /\ EsColeccion(T) THEN [T EXCEPT !.h = <<>>] ELSE T
PonDeAqui(D, ruta, de) ==
  LET Desde(p, q) == Fijado(Logra(q.d, p), Traida(p, q))
      Hasta(r) == Desde(r.p, Halla(r.d, de))
  IN  Hasta(HallaOCrea(D, ruta))
\* add()
Anade(D, ruta, T) == Fijado(HijoNuevo(HallaOCrea(D, ruta)), T)
\* copyArray(): it goes on after a value that has no room.
AnadeTodos(D, ruta, hs) == FoldLeft(LAMBDA E, m : Anade(E, ruta, m.x), D, hs)
\* to<>(), createNestedArray(), createNestedObject()
Vuelta(r, t) == IF r.p = NULO THEN r.d ELSE Vacia(r.d, r.p, t)
Vuelve(D, ruta, t) == Vuelta(Lugar(D, ruta), t)
\* clear()
Anulado(r) == IF r.p = NULO THEN r.d ELSE PonEscalar(r.d, r.p, VarianteNula)
Borra(D, ruta) == IF ruta = <<>> THEN Vaciado(D) ELSE Anulado(Halla(D, ruta))
\* remove()
Quita(D, ruta) == SinHijo(Halla(D, Front(ruta)), Last(ruta))

-----------------------------------------------------------------------------
(* ArrayRef.hpp, ObjectRef.hpp: as<>() gives a reference to nothing when    *)
(* the variant is something else; it makes no collection of what is null.   *)
Como(r, t) == IF r.p # NULO /\ Dato(r.d, r.p).t = t THEN r ELSE Logra(r.d, NULO)
Referida(D, ruta, t) == Como(Halla(D, ruta), t)
RefMas(r) == IF r.p = NULO THEN r ELSE MasRanura(r.d, r.p)
RefMiembro(r, e) == IF r.p = NULO THEN r ELSE MiembroDe(r.d, r.p, e)
RefAnade(D, ruta, T) == Fijado(RefMas(Referida(D, ruta, "lista")), T)
RefPon(D, ruta, T) == Fijado(RefMiembro(Referida(D, Front(ruta), "objeto"), Last(ruta)), T)
RefVacia(D, ruta, t) == Vuelta(Referida(D, ruta, t), t)
\* remove(iterator), of the last one
SinUltimo(r) == IF r.p = NULO THEN r.d ELSE Quitada(r.d, r.p, Last(<<NULO>> \o Ranuras(r.d, r.p)))
RefQuita(D, ruta, t) == SinUltimo(Referida(D, ruta, t))

-----------------------------------------------------------------------------
(* VariantCompare.hpp, arithmeticCompare.hpp                               *)
Aritmetica(a, b) == IF a < b THEN "menor" ELSE IF a > b THEN "mayor" ELSE "igual"
EsNumero(x) == x.t \in {"natural", "entero", "logico"}
Al_reves(r) == CASE r = "menor" -> "mayor" [] r = "mayor" -> "menor" [] OTHER -> r

\* equalsArray(), equalsObject() of the one on the right; a member that is missing
\* compares as null does.  The mutant does not count the members.
RECURSIVE Compara(_, _)
MiembroT(T, k) == Head(Append(SelectSeq(T.h, LAMBDA m : m.k = k), [x |-> ArbolNulo])).x
MismosElementos(B, A) ==
  Len(A.h) = Len(B.h) /\ \A i \in 1..Len(A.h) : Compara(B.h[i].x, A.h[i].x) = "igual"
MismosMiembros_SinContar(B, A) ==
  \A i \in 1..Len(B.h) : Compara(B.h[i].x, MiembroT(A, B.h[i].k)) = "igual"
MismosMiembros(B, A) ==
  /\ \A i \in 1..Len(B.h) : Compara(B.h[i].x, MiembroT(A, B.h[i].k)) = "igual"
  /\ Len(A.h) = Len(B.h)
Compara(A, B) ==
  CASE EsNumero(A) /\ EsNumero(B) -> Al_reves(Aritmetica(B.v, A.v))
    [] EsCadena(A) /\ EsCadena(B) -> Aritmetica(A.v, B.v)
    [] A.t = "lista" /\ B.t = "lista" -> IF MismosElementos(B, A) THEN "igual" ELSE "distinto"
    [] A.t = "objeto" /\ B.t = "objeto" -> IF MismosMiembros(B, A) THEN "igual" ELSE "distinto"
    [] A.t = "nulo" /\ B.t = "nulo" -> "igual"
    [] OTHER -> "distinto"

\* VariantOperators.hpp
Igual(A, B)        == Compara(A, B) = "igual"
Distinto(A, B)     == Compara(A, B) # "igual"
Menor(A, B)        == Compara(A, B) = "menor"
MenorOIgual(A, B)  == Compara(A, B) \in {"menor", "igual"}
Mayor(A, B)        == Compara(A, B) = "mayor"
MayorOIgual(A, B)  == Compara(A, B) \in {"mayor", "igual"}

-----------------------------------------------------------------------------
(* BasicJsonDocument.hpp                                                   *)
\* allocate(): nothing of nothing; else memory, or none.
Libres == Bases \ {docs[d].base : d \in {1, 2}}
Asignada(cap) == IF cap = 0 THEN {0} ELSE Libres \cup {0}
\* The same, when the document has given its own back.
Reasignada(d, cap) == IF cap = 0 THEN {0} ELSE Asignada(cap) \cup {docs[d].base}
\* reallocPool(): the variant is left as it was, and set() will clear it.
ConCapacidad(D, n, base) ==
  IF Relleno(n) = Capacidad(D) THEN D ELSE Con(base, Relleno(n))
ConTodo(D, S) == Fijado(Raiz(Vaciado(D)), Arbol(S, RAIZ))

\* shrinkToFit() and squash(), realloc() to some address.
Correr(f, s) == [a \in {b + s : b \in DOMAIN f} |-> f[a - s]]
Encogido(D, base) ==
  LET der == Relleno(D.izq)
      ganado == D.der - der
      ds == base - D.base
      dv == ds - ganado
  IN  IF ganado <= 0 THEN D
      ELSE Movido([D EXCEPT !.base = base, !.izq = @ + ds, !.der = der + ds,
                            !.fin = der + (D.fin - D.der) + ds,
                            !.ranuras = Correr(@, dv), !.cadenas = Correr(@, ds)], RAIZ, ds, dv)

-----------------------------------------------------------------------------
(* One action per call.  What no pointer reaches keeps its room, but is not *)
(* kept here.                                                               *)
RECURSIVE Alcanza(_, _)
Alcanza(D, p) ==
  LET r == IF EsColeccion(Dato(D, p)) THEN ToSet(Ranuras(D, p)) ELSE {}
  IN  r \cup UNION {Alcanza(D, a) : a \in r}
Podado(D) == [D EXCEPT !.ranuras = [a \in Alcanza(D, RAIZ) |-> @[a]]]

Ahora(d, D) == docs' = [docs EXCEPT ![d] = Podado(D)]
\* A call of set() or add() says whether the pool has ever been full.
Devuelve(c, D) == Ahora(c.d, D) /\ hecho' = [c EXCEPT !.ok = ~D.lleno]
Calla(c, D) == Ahora(c.d, D) /\ hecho' = c
De(c) == docs[c.d]
DelOtro(c) == docs[ElOtro(c.d)]
ArbolDelOtro(c) == ArbolEn(Halla(DelOtro(c), c.de))

Set(c)        == c.cmd = "set" /\ Devuelve(c, Pon(De(c), c.ruta, c.x))
SetDeOtro(c)  == c.cmd = "setDeOtro" /\ Devuelve(c, Pon(De(c), c.ruta, ArbolDelOtro(c)))
SetDeAqui(c)  == c.cmd = "setDeAqui" /\ Devuelve(c, PonDeAqui(De(c), c.ruta, c.de))
Add(c)        == c.cmd = "add" /\ Devuelve(c, Anade(De(c), c.ruta, c.x))
CopyArray(c)  ==
  /\ c.cmd = "copyArray"
  /\ Devuelve(c, AnadeTodos(IF c.ruta = <<>> THEN Vuelve(De(c), c.ruta, "lista") ELSE De(c), c.ruta, c.x.h))
To(c)         == c.cmd = "to" /\ Calla(c, Vuelve(De(c), c.ruta, c.x.t))
Clear(c)      == c.cmd = "clear" /\ Calla(c, Borra(De(c), c.ruta))
Quitar(c)     == c.cmd = "remove" /\ Calla(c, Quita(De(c), c.ruta))
As(c)         == c.cmd = "as" /\ Calla(c, Halla(De(c), c.ruta).d)
RefAdd(c)     == c.cmd = "refAdd" /\ Devuelve(c, RefAnade(De(c), c.ruta, c.x))
RefSet(c)     == c.cmd = "refSet" /\ Devuelve(c, RefPon(De(c), c.ruta, c.x))
RefClear(c)   == c.cmd = "refClear" /\ Calla(c, RefVacia(De(c), c.ruta, c.x.t))
RefRemove(c)  == c.cmd = "refRemove" /\ Calla(c, RefQuita(De(c), c.ruta, c.x.t))

ShrinkToFit(c) ==
  /\ c.cmd = "shrinkToFit"
  /\ \E b \in IF De(c).izq = De(c).base /\ De(c).der = De(c).fin THEN {0} ELSE Libres \cup {De(c).base} :
       Calla(c, Encogido(De(c), b))

\* The clone has its own memory, which this document takes.
GarbageCollect(c) ==
  /\ c.cmd = "garbageCollect"
  /\ \E b \in Asignada(Capacidad(De(c))) :
       LET clon == ConTodo(Con(b, Relleno(Capacidad(De(c)))), De(c)) IN
       IF Capacidad(clon) = 0 THEN Calla([c EXCEPT !.ok = FALSE], De(c)) ELSE Calla(c, ConTodo(clon, De(c)))

\* operator=, of the other document; copied, or moved.
CopyAssign(c) ==
  /\ c.cmd = "copia"
  /\ \E b \in IF Capacidad(DelOtro(c)) = Capacidad(De(c)) THEN {De(c).base}
              ELSE Reasignada(c.d, Capacidad(DelOtro(c))) :
       Devuelve(c, ConTodo(ConCapacidad(De(c), Capacidad(DelOtro(c)), b), DelOtro(c)))
MoveAssign(c) ==
  /\ c.cmd = "mueve"
  /\ docs' = [docs EXCEPT ![c.d] = DelOtro(c), ![ElOtro(c.d)] = Con(0, 0)]
  /\ hecho' = c

\* operator= of a part of the other document, when the pool is too small for it;
\* a new document, made from a part of the other one.
ConSitio(D, n, b) == IF n <= Capacidad(D) THEN D ELSE ConCapacidad(D, n, b)
AsignaArbol(c, T, n) ==
  \E b \in IF n <= Capacidad(De(c)) THEN {De(c).base} ELSE Reasignada(c.d, n) :
    Devuelve(c, Fijado(Raiz(Vaciado(ConSitio(De(c), n, b))), T))
Asigna(c) == c.cmd = "asigna" /\ AsignaArbol(c, ArbolDelOtro(c), Ocupa(ArbolDelOtro(c)))
NuevoDe(c, T, n) ==
  \E b \in Reasignada(c.d, n) : Devuelve(c, Fijado(Raiz(Con(b, Relleno(n))), T))
Nuevo(c) == c.cmd = "nuevo" /\ NuevoDe(c, ArbolDelOtro(c), Ocupa(ArbolDelOtro(c)))

Ninguna == [cmd |-> "", d |-> 1, ruta |-> <<>>, x |-> ArbolNulo, de |-> <<>>, ok |-> TRUE]
DocInit == docs \in Inicial /\ hecho = Ninguna /\ vez = 0
DocNext == vez < MaxLlamadas /\ vez' = vez + 1 /\ \E c \in Llamadas :
  \/ Set(c) \/ SetDeOtro(c) \/ SetDeAqui(c) \/ Add(c) \/ CopyArray(c) \/ To(c) \/ Clear(c)
  \/ Quitar(c) \/ As(c)
  \/ RefAdd(c) \/ RefSet(c) \/ RefClear(c) \/ RefRemove(c)
  \/ ShrinkToFit(c) \/ GarbageCollect(c) \/ CopyAssign(c) \/ MoveAssign(c) \/ Asigna(c) \/ Nuevo(c)
=============================================================================
