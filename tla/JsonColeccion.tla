--------------------------- MODULE JsonColeccion ---------------------------
(***************************************************************************)
(* The memory of a JsonDocument with its addresses: strings from the left of  *)
(* the pool, slots from its right, collections as chains of slots, and what   *)
(* the classes below the public ones do to them.  A document D is a record of *)
(* the pool's four pointers, what is in the pool, and the root's variant.     *)
(* Strings are numbers, in their order, and have no NUL.                      *)
(***************************************************************************)
EXTENDS Integers, Sequences, SequencesExt, FiniteSetsExt

CONSTANTS
  Bytes,     \* sizeof(VariantSlot)
  Alineo,    \* sizeof(void*)
  Largo      \* the length of each string

ASSUME ColeccionAssumption ==
  /\ Bytes \in Nat \ {0} /\ Alineo \in Nat \ {0} /\ Bytes % Alineo = 0
  /\ Largo \in Seq(Nat)

\* addPadding()
Relleno(n) == ((n + Alineo - 1) \div Alineo) * Alineo

\* Where a variant is: nowhere, at the root, or in the slot at an address.
NULO == 0
RAIZ == -1

Variante(t, v) == [t |-> t, v |-> v, cab |-> NULO, cola |-> NULO]
VarianteNula == Variante("nulo", 0)
\* clear(): the key is a string's address when it is the document's own, else the string.
RanuraVacia == [t |-> "nulo", v |-> 0, cab |-> NULO, cola |-> NULO, clave |-> 0, propia |-> FALSE, sig |-> 0]
Nada == [a \in {} |-> RanuraVacia]

\* MemoryPool(): no buffer is no room.
Con(base, cap) ==
  LET fin == IF base = 0 THEN 0 ELSE base + cap IN
  [base |-> base, izq |-> base, der |-> fin, fin |-> fin, lleno |-> FALSE,
   ranuras |-> Nada, cadenas |-> [a \in {} |-> 0], raiz |-> VarianteNula]
Capacidad(D) == D.fin - D.base
EnUso(D) == D.izq - D.base + D.fin - D.der

Dato(D, p) == IF p = RAIZ THEN D.raiz ELSE D.ranuras[p]
Puesto(D, p, x) ==
  IF p = RAIZ THEN [D EXCEPT !.raiz = [t |-> x.t, v |-> x.v, cab |-> x.cab, cola |-> x.cola]]
  ELSE [D EXCEPT !.ranuras[p] = [@ EXCEPT !.t = x.t, !.v = x.v, !.cab = x.cab, !.cola = x.cola]]
Logra(D, p) == [d |-> D, p |-> p]
\* The mutant does not say that there was no room.
Falla_Callada(D) == Logra(D, NULO)
Falla(D) == Logra([D EXCEPT !.lleno = TRUE], NULO)

-----------------------------------------------------------------------------
(* MemoryPool.hpp                                                          *)
Cabe(D, n) == D.izq + n <= D.der

\* findString()
Iguales(D, c) == {a \in DOMAIN D.cadenas : D.cadenas[a] = c}
\* saveString(), allocString().  The mutant counts no terminator.
Guarda_SinFin(D, c) ==
  IF Iguales(D, c) # {} THEN Logra(D, Min(Iguales(D, c)))
  ELSE IF ~Cabe(D, Largo[c]) THEN Falla(D)
  ELSE Logra([D EXCEPT !.izq = @ + Largo[c], !.cadenas = (D.izq :> c) @@ @], D.izq)
Guarda(D, c) ==
  IF Iguales(D, c) # {} THEN Logra(D, Min(Iguales(D, c)))
  ELSE IF ~Cabe(D, Largo[c] + 1) THEN Falla(D)
  ELSE Logra([D EXCEPT !.izq = @ + Largo[c] + 1, !.cadenas = (D.izq :> c) @@ @], D.izq)

\* allocVariant()
RanuraNueva(D) ==
  IF ~Cabe(D, Bytes) THEN Falla(D)
  ELSE Logra([D EXCEPT !.der = @ - Bytes, !.ranuras = ((D.der - Bytes) :> RanuraVacia) @@ @], D.der - Bytes)

\* MemoryPool::clear() and _data.init()
Vaciado(D) == Con(D.base, Capacidad(D))

-----------------------------------------------------------------------------
(* VariantSlot.hpp, SlotFunctions.hpp                                      *)
Siguiente(D, a) == IF D.ranuras[a].sig = 0 THEN NULO ELSE a + D.ranuras[a].sig
\* The slots from one on; an address that is none ends the chain here.
RECURSIVE Cadena(_, _)
Cadena(D, a) == IF a \notin DOMAIN D.ranuras THEN <<>> ELSE <<a>> \o Cadena(D, Siguiente(D, a))
Ranuras(D, p) == Cadena(D, Dato(D, p).cab)

\* key()
ClaveDe(D, a) ==
  IF D.ranuras[a].propia THEN D.cadenas[D.ranuras[a].clave] ELSE D.ranuras[a].clave

\* store() and SlotKeySetter
PonClave(D, a, k) ==
  LET Copiada(g) == IF g.p = NULO THEN g
                    ELSE Logra([g.d EXCEPT !.ranuras[a] = [@ EXCEPT !.clave = g.p, !.propia = TRUE]], a)
  IN  IF k.propia THEN Copiada(Guarda(D, k.c))
      ELSE Logra([D EXCEPT !.ranuras[a] = [@ EXCEPT !.clave = k.c, !.propia = FALSE]], a)

-----------------------------------------------------------------------------
(* CollectionImpl.hpp                                                      *)
\* addSlot()
Ligada(n, p, x) ==
  IF n.p = NULO THEN n
  ELSE Logra(Puesto(IF x.cola = NULO THEN n.d ELSE [n.d EXCEPT !.ranuras[x.cola].sig = n.p - x.cola],
                    p, [x EXCEPT !.cola = n.p, !.cab = IF x.cola = NULO THEN n.p ELSE @]), n.p)
MasRanura(D, p) == Ligada(RanuraNueva(D), p, Dato(D, p))

\* removeSlot().  The mutant leaves the tail where it was.
Anterior(D, p, a) == Max({b \in ToSet(Ranuras(D, p)) : Siguiente(D, b) = a} \cup {NULO})
Salteada(D, p, b, sigue) ==
  IF b = NULO THEN Puesto(D, p, [Dato(D, p) EXCEPT !.cab = sigue])
  ELSE [D EXCEPT !.ranuras[b].sig = IF sigue = NULO THEN 0 ELSE sigue - b]
ConCola(D, p, b) == Puesto(D, p, [Dato(D, p) EXCEPT !.cola = b])
Suelta_ConCola(D, p, b, sigue) == Salteada(D, p, b, sigue)
Suelta(D, p, b, sigue) ==
  IF sigue # NULO THEN Salteada(D, p, b, sigue) ELSE ConCola(Salteada(D, p, b, sigue), p, b)
Quitada(D, p, a) == IF a = NULO THEN D ELSE Suelta(D, p, Anterior(D, p, a), Siguiente(D, a))

\* getSlot(), getMember(), getElement()
ConNombre(D, p, c) == Head(Append(SelectSeq(Ranuras(D, p), LAMBDA a : ClaveDe(D, a) = c), NULO))
ConIndice(D, p, i) == LET r == Ranuras(D, p) IN IF i < Len(r) THEN r[i + 1] ELSE NULO

\* addMember(): a member whose key has no room is taken off again.  The mutant leaves it.
Nombrada_SinClave(n, p, k) == IF n.p = NULO THEN n ELSE PonClave(n.d, n.p, k)
Nombrada(n, p, k) ==
  LET Queda(c) == IF c.p = NULO THEN Logra(Quitada(c.d, p, n.p), NULO) ELSE c
  IN  IF n.p = NULO THEN n ELSE Queda(PonClave(n.d, n.p, k))
MasMiembro(D, p, k) == Nombrada(MasRanura(D, p), p, k)

\* getOrAddMember(), getOrAddElement(): the elements that had room stay.
MiembroDe(D, p, k) ==
  LET O(a) == IF a # NULO THEN Logra(D, a) ELSE MasMiembro(D, p, k) IN O(ConNombre(D, p, k.c))
ElementoDe(D, p, i) ==
  LET hay == Len(Ranuras(D, p)) IN
  IF i < hay THEN Logra(D, ConIndice(D, p, i))
  ELSE FoldSeq(LAMBDA j, r : MasRanura(r.d, p), Logra(D, NULO), [j \in 1..(i + 1 - hay) |-> j])

-----------------------------------------------------------------------------
(* VariantData.hpp                                                         *)
EsColeccion(x) == x.t \in {"lista", "objeto"}
EsCadena(x) == x.t \in {"enlazada", "propia"}

\* setNull(), setInteger(), setBoolean(), setString() of a linked string; toArray(), toObject()
PonEscalar(D, p, x) == Puesto(D, p, Variante(x.t, x.v))
Vacia(D, p, t) == Puesto(D, p, Variante(t, 0))

\* storeString(): what has no room becomes null.
PonCadena(D, p, x) ==
  LET Copiada(g) == IF g.p = NULO THEN Logra(PonEscalar(g.d, p, VarianteNula), NULO)
                    ELSE Logra(PonEscalar(g.d, p, Variante("propia", g.p)), p)
  IN  IF x.t = "enlazada" THEN Logra(PonEscalar(D, p, x), p) ELSE Copiada(Guarda(D, x.v))

\* A null variant becomes the collection that is asked of it, with room or without.
Hecha(D, p, t) == IF Dato(D, p).t = "nulo" THEN Vacia(D, p, t) ELSE D

\* addElement()
MasElemento(D, p) ==
  LET E == Hecha(D, p, "lista") IN
  IF Dato(E, p).t # "lista" THEN Logra(E, NULO) ELSE MasRanura(E, p)
\* getOrAddElement()
ElementoEn(D, p, i) ==
  LET E == Hecha(D, p, "lista") IN
  IF Dato(E, p).t # "lista" THEN Logra(E, NULO) ELSE ElementoDe(E, p, i)
\* getOrAddMember()
MiembroEn(D, p, k) ==
  LET E == Hecha(D, p, "objeto") IN
  IF Dato(E, p).t # "objeto" THEN Logra(E, NULO) ELSE MiembroDe(E, p, k)
\* getElement(), getMember()
HallaElemento(D, p, i) == IF Dato(D, p).t = "lista" THEN ConIndice(D, p, i) ELSE NULO
HallaMiembro(D, p, k) == IF Dato(D, p).t = "objeto" THEN ConNombre(D, p, k.c) ELSE NULO

\* remove(): the room of what is removed is not given back.
SinElemento(D, p, i) == Quitada(D, p, HallaElemento(D, p, i))
SinMiembro(D, p, k) == Quitada(D, p, HallaMiembro(D, p, k))

\* What the document says: a tree, in which the strings are still its own or linked.
RECURSIVE Arbol(_, _)
Arbol(D, p) ==
  LET x == Dato(D, p)
      r == IF EsColeccion(x) THEN Ranuras(D, p) ELSE <<>>
  IN  [t |-> x.t, v |-> IF x.t = "propia" THEN D.cadenas[x.v] ELSE x.v,
       h |-> [i \in 1..Len(r) |->
               [k |-> ClaveDe(D, r[i]), propia |-> D.ranuras[r[i]].propia, x |-> Arbol(D, r[i])]]]

\* copyFrom(), of a variant that is elsewhere: it stops at what has no room.
RECURSIVE Copiado(_, _, _), CopiadoEn(_, _, _)
Copiado(D, p, T) ==
  CASE EsColeccion(T) ->
         FoldLeft(LAMBDA r, m :
                    IF r.p = NULO THEN r
                    ELSE CopiadoEn(IF m.k = 0 THEN MasRanura(r.d, p)
                                  ELSE MasMiembro(r.d, p, [c |-> m.k, propia |-> m.propia]), p, m.x),
                  Logra(Vacia(D, p, T.t), p), T.h)
    [] EsCadena(T) -> PonCadena(D, p, T)
    [] OTHER -> Logra(PonEscalar(D, p, T), p)
\* The slot n of p is given the value T.
CopiadoEn(n, p, T) ==
  LET O(c) == IF c.p = NULO THEN c ELSE Logra(c.d, p)
  IN  IF n.p = NULO THEN n ELSE O(Copiado(n.d, n.p, T))

\* memoryUsage(): a string that is kept once counts wherever it is used.
RECURSIVE Ocupa(_), OcupanHijos(_)
Ocupa(T) ==
  CASE T.t = "propia" -> Largo[T.v] + 1
    [] EsColeccion(T) -> OcupanHijos(T.h)
    [] OTHER -> 0
OcupanHijos(hs) ==
  FoldSeq(LAMBDA m, n : n + Bytes + Ocupa(m.x) + IF m.propia THEN Largo[m.k] + 1 ELSE 0, 0, hs)

-----------------------------------------------------------------------------
(* movePointers() of the variant at p, once the pool has moved: its strings *)
(* by one distance and its slots by another.                               *)
DatoMovido(x, ds, dv) ==
  IF x.t = "propia" THEN [x EXCEPT !.v = @ + ds]
  ELSE IF EsColeccion(x) /\ x.cab # NULO THEN [x EXCEPT !.cab = @ + dv, !.cola = @ + dv]
  ELSE x
ClaveMovida(D, a, ds) ==
  IF D.ranuras[a].propia THEN [D EXCEPT !.ranuras[a].clave = @ + ds] ELSE D
RECURSIVE Movido(_, _, _, _)
Movido(D, p, ds, dv) ==
  LET Hijos(E) == FoldLeft(LAMBDA F, a : Movido(ClaveMovida(F, a, ds), a, ds, dv), E,
                           IF EsColeccion(Dato(E, p)) THEN Ranuras(E, p) ELSE <<>>)
  IN  Hijos(Puesto(D, p, DatoMovido(Dato(D, p), ds, dv)))
=============================================================================
