-------------------------- MODULE JsonSerializador --------------------------
(***************************************************************************)
(* ArduinoJson's memory and its texts.  The memory is the pool, which strings *)
(* fill from the left and slots from the right, and the two ways in which the *)
(* parser keeps a string: in place, over the text that it is reading          *)
(* (StringMover), or copied into the free zone of the pool (StringCopier).    *)
(* A memory is a record m, and positions count from 1.                        *)
(***************************************************************************)
EXTENDS Integers, SequencesExt

CONSTANT Ancho   \* sizeof(VariantSlot)

ASSUME AnchoAssumption == Ancho \in Nat \ {0}

NUL == 0
Marca == 256     \* a byte of a slot, which is no character

\* The text in place, or the pool; what follows the text is not read here.
Byte(s, i) == IF i \in 1..Len(s) THEN s[i] ELSE NUL
Poner(s, p, cs) == [i \in 1..Len(s) |-> IF i \in p..(p + Len(cs) - 1) THEN cs[i - p + 1] ELSE s[i]]
HastaNul(cs) == IF NUL \in {cs[i] : i \in 1..Len(cs)}
                THEN SubSeq(cs, 1, (CHOOSE i \in 1..Len(cs) :
                                      cs[i] = NUL /\ \A j \in 1..(i - 1) : cs[j] # NUL) - 1)
                ELSE cs

Memoria(texto, copia, cap) ==
  [copia |-> copia, buf |-> texto, bytes |-> [i \in 1..cap |-> NUL],
   izq |-> 1, der |-> cap + 1, lleno |-> FALSE, desde |-> 1, escribe |-> 1]

-----------------------------------------------------------------------------
(* MemoryPool.hpp                                                          *)
Usado(m) == m.izq - 1 + Len(m.bytes) + 1 - m.der

\* allocRight()
Ranura(m) ==
  IF m.izq + Ancho <= m.der
  THEN [mem |-> [m EXCEPT !.der = @ - Ancho,
                          !.bytes = Poner(@, m.der - Ancho, [i \in 1..Ancho |-> Marca])], ok |-> TRUE]
  ELSE [mem |-> [m EXCEPT !.lleno = TRUE], ok |-> FALSE]

\* findString(): where a string of the pool begins that is this one.
Repetida(m, cs) ==
  {s \in 1..(m.izq - 1 - Len(cs)) :
     /\ s = 1 \/ m.bytes[s - 1] = NUL
     /\ m.bytes[s + Len(cs)] = NUL
     /\ SubSeq(m.bytes, s, s + Len(cs) - 1) = cs}

\* saveStringFromFreeZone().  The mutant does not look for the string.
Encontrada(m, s, cs) == [mem |-> m, ref |-> [en |-> "pool", p |-> s, n |-> Len(cs)]]
Nueva(m, cs) ==
  Encontrada([m EXCEPT !.izq = @ + Len(cs) + 1, !.bytes = Poner(@, m.izq + Len(cs), <<NUL>>)], m.izq, cs)
DeLaZona_SinBuscar(m, cs) == Nueva(m, cs)
DeLaZona(m, cs) ==
  LET ya == Repetida(m, cs)
  IN  IF ya # {} THEN Encontrada(m, CHOOSE s \in ya : \A t \in ya : s <= t, cs)
      ELSE Nueva(m, cs)

-----------------------------------------------------------------------------
(* StringMover.hpp and StringCopier.hpp                                    *)
Empezar(m) ==
  IF m.copia THEN [m EXCEPT !.desde = m.izq, !.escribe = m.izq, !.lleno = @ \/ m.der = m.izq]
             ELSE [m EXCEPT !.desde = m.escribe]

\* append().  The mutant keeps no room for the terminator.
Anadir_SinSitio(m, cs) ==
  LET sitio == IF m.copia THEN m.der - m.escribe ELSE Len(cs)
      k == IF Len(cs) <= sitio THEN Len(cs) ELSE IF sitio < 0 THEN 0 ELSE sitio
      ps == SubSeq(cs, 1, k)
  IN  IF m.copia
      THEN [m EXCEPT !.bytes = Poner(@, m.escribe, ps), !.escribe = @ + k, !.lleno = @ \/ k < Len(cs)]
      ELSE [m EXCEPT !.buf = Poner(@, m.escribe, ps), !.escribe = @ + k]
Anadir(m, cs) ==
  LET sitio == IF m.copia THEN m.der - 1 - m.escribe ELSE Len(cs)
      k == IF Len(cs) <= sitio THEN Len(cs) ELSE IF sitio < 0 THEN 0 ELSE sitio
      ps == SubSeq(cs, 1, k)
  IN  IF m.copia
      THEN [m EXCEPT !.bytes = Poner(@, m.escribe, ps), !.escribe = @ + k, !.lleno = @ \/ k < Len(cs)]
      ELSE [m EXCEPT !.buf = Poner(@, m.escribe, ps), !.escribe = @ + k]

Valida(m) == ~m.copia \/ ~m.lleno
Escrito(m) == SubSeq(IF m.copia THEN m.bytes ELSE m.buf, m.desde, m.escribe - 1)

\* str()
Terminada(m) == IF m.copia THEN [m EXCEPT !.bytes = Poner(@, m.escribe, <<NUL>>)]
                           ELSE [m EXCEPT !.buf = Poner(@, m.escribe, <<NUL>>)]

\* save().  The mutant adds the size to a pointer that has already moved.
Guardada_DosVeces(m) ==
  IF m.copia THEN DeLaZona(m, Escrito(m))
  ELSE [mem |-> [Terminada(m) EXCEPT !.escribe = @ + Len(Escrito(m)) + 1],
        ref |-> [en |-> "texto", p |-> m.desde, n |-> Len(Escrito(m))]]
Guardada(m) ==
  IF m.copia THEN DeLaZona(m, Escrito(m))
  ELSE [mem |-> [Terminada(m) EXCEPT !.escribe = @ + 1],
        ref |-> [en |-> "texto", p |-> m.desde, n |-> Len(Escrito(m))]]

Leida(m, ref) == SubSeq(IF ref.en = "pool" THEN m.bytes ELSE m.buf, ref.p, ref.p + ref.n - 1)
\* A key is kept without its size, and ends at the first NUL.
Hasta(m, ref) == LET s == IF ref.en = "pool" THEN m.bytes ELSE m.buf
                 IN  HastaNul(SubSeq(s, ref.p, Len(s)))

-----------------------------------------------------------------------------
(* JsonSerializer.hpp: the text of a document.  A document is a sequence of  *)
(* slots, the first of them its root; the slots of a collection come after   *)
(* its own.  A number with a fraction is left out.                           *)
Ranura0 == [clave |-> [en |-> "", p |-> 0, n |-> 0], tipo |-> "null",
            dato |-> [en |-> "", p |-> 0, n |-> 0], hijos |-> <<>>]

\* EscapeSequence: a letter and the character that it stands for.
Escapes == <<<<34, 34>>, <<92, 92>>, <<98, 8>>, <<102, 12>>, <<110, 10>>, <<114, 13>>, <<116, 9>>>>
EscapesDeEntrada == <<<<47, 47>>>> \o Escapes

\* writeChar()
Caracter(c) ==
  LET i == SelectInSeq(Escapes, LAMBDA e : e[2] = c)
  IN  IF i > 0 THEN <<92, Escapes[i][1]>>
      ELSE IF c # NUL THEN <<c>> ELSE <<92, 117, 48, 48, 48, 48>>
EntreComillas(cs) == <<34>> \o FlattenSeq([i \in 1..Len(cs) |-> Caracter(cs[i])]) \o <<34>>

\* writeInteger()
Cifras[n \in Nat] == IF n < 10 THEN <<48 + n>> ELSE Cifras[n \div 10] \o <<48 + (n % 10)>>
Entero(d) == (IF d.n = 1 THEN <<45>> ELSE <<>>) \o Cifras[d.p]

Logico(b) == IF b = 1 THEN <<116, 114, 117, 101>> ELSE <<102, 97, 108, 115, 101>>

\* visitArray(), visitObject()
ConComas(textos) ==
  FlattenSeq([i \in 1..Len(textos) |-> IF i = 1 THEN textos[i] ELSE <<44>> \o textos[i]])
Miembro(clave, texto) == EntreComillas(clave) \o <<58>> \o texto

Serializado(m, doc) ==
  LET T[i \in 1..Len(doc)] ==
        LET r == doc[i]
            h == r.hijos
        IN  CASE r.tipo = "lista"  -> <<91>> \o ConComas([k \in 1..Len(h) |-> T[h[k]]]) \o <<93>>
              [] r.tipo = "objeto" ->
                   <<123>> \o ConComas([k \in 1..Len(h) |-> Miembro(Hasta(m, doc[h[k]].clave), T[h[k]])])
                           \o <<125>>
              [] r.tipo = "cadena" -> EntreComillas(Leida(m, r.dato))
              [] r.tipo = "entero" -> Entero(r.dato)
              [] r.tipo = "logico" -> Logico(r.dato.p)
              [] OTHER             -> <<110, 117, 108, 108>>
  IN  T[1]

-----------------------------------------------------------------------------
(* PrettyJsonSerializer.hpp                                                *)
Sangria(n) == [i \in 1..(2 * n) |-> 32]
Renglones(textos, n) ==
  FlattenSeq([i \in 1..Len(textos) |->
    Sangria(n) \o textos[i] \o IF i < Len(textos) THEN <<44, 13, 10>> ELSE <<13, 10>>])
Bonita(abre, cierra, textos, n) ==
  IF textos = <<>> THEN <<abre, cierra>>
  ELSE <<abre, 13, 10>> \o Renglones(textos, n + 1) \o Sangria(n) \o <<cierra>>
Bonito(m, doc) ==
  LET T[i \in 1..Len(doc), n \in 0..Len(doc)] ==
        LET r == doc[i]
            h == r.hijos
        IN  CASE r.tipo = "lista"  -> Bonita(91, 93, [k \in 1..Len(h) |-> T[h[k], n + 1]], n)
              [] r.tipo = "objeto" ->
                   Bonita(123, 125, [k \in 1..Len(h) |-> EntreComillas(Hasta(m, doc[h[k]].clave))
                                                         \o <<58, 32>> \o T[h[k], n + 1]], n)
              [] OTHER             -> Serializado(m, <<r>>)
  IN  T[1, 0]
=============================================================================
