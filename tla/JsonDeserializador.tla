------------------------- MODULE JsonDeserializador -------------------------
(***************************************************************************)
(* JsonDeserializer.hpp: a text is read one character ahead, and becomes a   *)
(* document in a pool that may be too small for it.  The calls of the        *)
(* recursive functions are the frames of pila, one per collection that is    *)
(* open; destino is the value to be read next.  Comments are compiled out.   *)
(***************************************************************************)
EXTENDS JsonSerializador

CONSTANTS
  Casos,       \* texts, each with its filter and what is expected of it
  Capacidades, \* sizes of the pool
  Limites,     \* nesting limits
  MaxEntero,   \* the largest unsigned integer
  MantisaMax   \* what the mantissa of a real has room for: 2^52 - 1

ASSUME JsonAssumption ==
  /\ Capacidades \subseteq Nat /\ Limites \subseteq Nat
  /\ MaxEntero \in Nat /\ MantisaMax \in Nat /\ MaxEntero <= MantisaMax
  /\ \A c \in Casos : c.texto \in Seq(0..255)

VARIABLES
  caso, limite,
  mem,       \* the text in place, the pool and the string that is being read
  lat,       \* the latch: whether it holds a character, which, and what comes next
  doc,       \* the document
  destino,   \* slot, filter, nesting limit, and whether the value is only skipped
  pila, cita, \* collections that are open; quote and surrogate of a string
  paso, error

vars == <<caso, limite, mem, lat, doc, destino, pila, cita, paso, error>>

-----------------------------------------------------------------------------
(* Filter.hpp.  A filter is true, nothing, or the first element or the      *)
(* members of a filter document.                                           *)
Todo  == [clase |-> "todo", de |-> <<>>]
Nunca == [clase |-> "nada", de |-> <<>>]
Permite(f) == f.clase # "nada"
PermiteColeccion(f, tipo) == f.clase \in {"todo", tipo}
PermiteValor(f) == f.clase = "todo"
Asterisco == <<42>>
\* The mutant lets the asterisk stand for a member that is excluded.
SubFiltro_SinExcluir(f, clave) ==
  LET i == SelectInSeq(f.de, LAMBDA e : e.clave = clave /\ Permite(e.f))
      j == SelectInSeq(f.de, LAMBDA e : e.clave = Asterisco)
  IN  IF f.clase = "todo" THEN f
      ELSE IF i > 0 THEN f.de[i].f ELSE IF j > 0 THEN f.de[j].f ELSE Nunca
SubFiltro(f, clave) ==
  LET i == SelectInSeq(f.de, LAMBDA e : e.clave = clave)
      j == SelectInSeq(f.de, LAMBDA e : e.clave = Asterisco)
  IN  IF f.clase = "todo" THEN f
      ELSE IF i > 0 THEN f.de[i].f ELSE IF j > 0 THEN f.de[j].f ELSE Nunca

-----------------------------------------------------------------------------
(* The latch and the characters.                                           *)
Blancos == {32, 9, 13, 10}
Comillas == {34, 39}
Digitos == 48..57
SinComillas == Digitos \cup 95..122 \cup 65..90 \cup {43, 45, 46}

Cargar(l, s) == IF l.lleno THEN l ELSE [lleno |-> TRUE, c |-> Byte(s, l.lee), lee |-> l.lee + 1]
Mover(l) == [l EXCEPT !.lleno = FALSE]
Ver == Cargar(lat, mem.buf)
\* skipSpacesAndComments()
EnBlanco ==
  IF Ver.c \notin Blancos THEN Ver
  ELSE LET i == CHOOSE i \in Ver.lee..(Len(mem.buf) + 1) :
                  /\ Byte(mem.buf, i) \notin Blancos
                  /\ \A j \in Ver.lee..(i - 1) : Byte(mem.buf, j) \in Blancos
       IN  [lleno |-> TRUE, c |-> Byte(mem.buf, i), lee |-> i + 1]

\* Characters from the one that is held on, while they may belong to a number or a
\* word; the buffer for them holds 63.
Palabra(l, tope) ==
  LET p == l.lee - 1
      n == CHOOSE k \in 0..(Len(mem.buf) + 1 - p) :
             /\ \A j \in p..(p + k - 1) : Byte(mem.buf, j) \in SinComillas
             /\ Byte(mem.buf, p + k) \notin SinComillas
  IN  SubSeq(mem.buf, p, p + (IF n <= tope THEN n ELSE tope) - 1)
Tras(l, n) == IF n = 0 THEN l ELSE Cargar([l EXCEPT !.lleno = FALSE, !.lee = @ + n - 1], mem.buf)

\* decodeHex() takes ':' to '?' and the grave accent for digits as well.
Hex(c) == CASE c \in 48..63 -> c - 48 [] c \in 65..70 -> c - 55 [] c \in 96..102 -> c - 87
            [] OTHER -> 16

\* Utf8::encodeCodepoint()
Cola(u, d) == 128 + ((u \div d) % 64)
Utf8(u) == IF u < 128 THEN <<u>>
           ELSE IF u < 2048 THEN <<192 + (u \div 64), Cola(u, 1)>>
           ELSE IF u < 65536 THEN <<224 + (u \div 4096), Cola(u, 64), Cola(u, 1)>>
           ELSE <<240 + (u \div 262144), Cola(u, 4096), Cola(u, 64), Cola(u, 1)>>

\* parseNumber(): a sign, digits while they fit an integer, and the rest of a real,
\* of which only the form is kept.
Primeras(t, S) == LET k == SelectInSeq(t, LAMBDA c : c \notin S)
                  IN  IF k = 0 THEN Len(t) ELSE k - 1
Sin(t, n) == SubSeq(t, n + 1, Len(t))
Mantisa[t \in Seq(Nat), m \in Nat] ==
  IF t = <<>> \/ t[1] \notin Digitos \/ m > MaxEntero \div 10 THEN [m |-> m, resto |-> t]
  ELSE IF m * 10 > MaxEntero - (t[1] - 48) THEN [m |-> m * 10, resto |-> t]
  ELSE Mantisa[Tail(t), m * 10 + t[1] - 48]
\* Digits behind the point that the mantissa takes; an exponent past the largest ends
\* the number at once, whatever follows.
Fraccion[t \in Seq(Nat), m \in Nat] ==
  IF t = <<>> \/ t[1] \notin Digitos \/ m >= MantisaMax \div 10 THEN 0
  ELSE 1 + Fraccion[Tail(t), m * 10 + t[1] - 48]
Rebasa[t \in Seq(Nat), e \in Nat, max \in Int] ==
  /\ t # <<>> /\ t[1] \in Digitos
  /\ e * 10 + t[1] - 48 > max \/ Rebasa[Tail(t), e * 10 + t[1] - 48, max]
ExponenteMax == 308
EsReal(x) ==
  LET fuera == Primeras(x.resto, Digitos)
      a == Sin(x.resto, fuera)
      punto == a # <<>> /\ a[1] = 46
      b == IF punto THEN Sin(Tail(a), Primeras(Tail(a), Digitos)) ELSE a
      lugar == IF punto THEN fuera - Fraccion[Tail(a), x.m] ELSE fuera
      c == IF b # <<>> /\ b[1] \in {101, 69} THEN Tail(b) ELSE b
      d == IF c # b /\ c # <<>> /\ c[1] \in {43, 45} THEN Tail(c) ELSE c
  IN  IF c = b THEN b = <<>>
      ELSE Rebasa[d, 0, ExponenteMax - lugar] \/ Primeras(d, Digitos) = Len(d)
Numero(t) ==
  LET signo == IF t # <<>> /\ t[1] \in {43, 45} THEN 1 ELSE 0
      neg == signo = 1 /\ t[1] = 45
      r == Sin(t, signo)
      x == Mantisa[r, 0]
      v(tipo, m) == [tipo |-> tipo, dato |-> [en |-> "", p |-> m, n |-> IF neg THEN 1 ELSE 0]]
  IN  IF r = <<>> \/ r[1] \notin Digitos \cup {46} THEN v("mal", 0)
      ELSE IF x.resto = <<>> /\ (~neg \/ x.m <= (MaxEntero + 1) \div 2) THEN v("entero", x.m)
      ELSE IF EsReal(x) THEN v("real", 0) ELSE v("mal", 0)

-----------------------------------------------------------------------------
Init ==
  /\ caso \in Casos /\ limite \in Limites
  /\ \E cap \in Capacidades, copia \in BOOLEAN :
       mem = Memoria(Append(caso.texto, NUL), copia, cap)
  /\ lat = [lleno |-> FALSE, c |-> NUL, lee |-> 1]
  /\ doc = <<Ranura0>>
  /\ destino = [v |-> 1, f |-> caso.filtro, lim |-> limite, salta |-> FALSE]
  /\ pila = <<>> /\ cita = [fin |-> 34, alto |-> 0, clave |-> FALSE]
  /\ paso = "valor" /\ error = "Ok"

Fallar(e) == error' = e /\ paso' = "fin"
Seguir(p) == paso' = p /\ UNCHANGED error
\* What comes after a value, which may be the skipped key of a member.
Devuelto(p) == IF p = <<>> THEN "acaba" ELSE IF Last(p).enClave THEN "dosPuntos" ELSE "coma"
Volver == Seguir(Devuelto(pila))

\* The steps that begin by skipping spaces all end with the text.  The mutant only
\* sees that there was none.
FinDelTexto_SinError ==
  /\ paso \in {"valor", "primero", "clave", "dosPuntos", "coma"} /\ EnBlanco.c = NUL
  /\ lat' = EnBlanco
  /\ Fallar(IF paso = "valor" /\ pila = <<>> THEN "EmptyInput" ELSE error)
  /\ UNCHANGED <<caso, limite, mem, doc, destino, pila, cita>>
FinDelTexto ==
  /\ paso \in {"valor", "primero", "clave", "dosPuntos", "coma"} /\ EnBlanco.c = NUL
  /\ lat' = EnBlanco
  /\ Fallar(IF paso = "valor" /\ pila = <<>> THEN "EmptyInput" ELSE "IncompleteInput")
  /\ UNCHANGED <<caso, limite, mem, doc, destino, pila, cita>>

\* NestingLimit::reached().
Alcanzado(lim) == lim = 0

\* parseArray(), parseObject(), skipArray(), skipObject() up to the first value.
TipoDe(c) == IF c = 91 THEN "lista" ELSE "objeto"
Abrir ==
  LET l == EnBlanco
      tipo == TipoDe(l.c)
      toma == ~destino.salta /\ PermiteColeccion(destino.f, tipo)
  IN  /\ paso = "valor" /\ l.c \in {91, 123}
      /\ doc' = IF toma THEN [doc EXCEPT ![destino.v] = [@ EXCEPT !.tipo = tipo, !.hijos = <<>>]]
                        ELSE doc
      /\ IF Alcanzado(destino.lim) THEN Fallar("TooDeep") /\ lat' = l /\ UNCHANGED pila
         ELSE /\ pila' = Append(pila, [v |-> destino.v, f |-> destino.f, lim |-> destino.lim,
                                       salta |-> ~toma, tipo |-> tipo, enClave |-> FALSE])
              /\ lat' = Mover(l)
              /\ Seguir(IF tipo = "lista" /\ ~toma THEN "elemento" ELSE "primero")
      /\ UNCHANGED <<caso, limite, mem, destino, cita>>

\* Its end, or what its next value begins with.
Cierra(c) == c = (IF Last(pila).tipo = "lista" THEN 93 ELSE 125)
Otro == IF Last(pila).tipo = "lista" THEN "elemento" ELSE "clave"
Cerrar(l) == pila' = Front(pila) /\ lat' = Mover(l) /\ Seguir(Devuelto(Front(pila)))
Primero ==
  /\ paso = "primero" /\ EnBlanco.c # NUL
  /\ IF Cierra(EnBlanco.c) THEN Cerrar(EnBlanco)
     ELSE lat' = EnBlanco /\ Seguir(Otro) /\ UNCHANGED pila
  /\ UNCHANGED <<caso, limite, mem, doc, destino, cita>>
\* The mutant leaves the comma of a list that it skips where it is.
Coma_SinComer ==
  LET l == EnBlanco
  IN  /\ paso = "coma" /\ l.c # NUL
      /\ IF Cierra(l.c) THEN Cerrar(l)
         ELSE IF l.c = 44
         THEN /\ lat' = (IF Last(pila).salta /\ Otro = "elemento" THEN l ELSE Mover(l))
              /\ Seguir(Otro) /\ UNCHANGED pila
         ELSE lat' = l /\ Fallar("InvalidInput") /\ UNCHANGED pila
      /\ UNCHANGED <<caso, limite, mem, doc, destino, cita>>
Coma ==
  LET l == EnBlanco
  IN  /\ paso = "coma" /\ l.c # NUL
      /\ IF Cierra(l.c) THEN Cerrar(l)
         ELSE IF l.c = 44 THEN lat' = Mover(l) /\ Seguir(Otro) /\ UNCHANGED pila
         ELSE lat' = l /\ Fallar("InvalidInput") /\ UNCHANGED pila
      /\ UNCHANGED <<caso, limite, mem, doc, destino, cita>>

Hijo(v, f) == [v |-> v, f |-> f, lim |-> Last(pila).lim - 1, salta |-> FALSE]
Saltado == [Hijo(1, Nunca) EXCEPT !.salta = TRUE]
ConHijo(padre, clave) == Append([doc EXCEPT ![padre].hijos = Append(@, Len(doc) + 1)],
                                [Ranura0 EXCEPT !.clave = clave])

\* addElement()
Elemento ==
  LET t == Last(pila)
      f == SubFiltro(t.f, <<>>)
      r == Ranura(mem)
  IN  /\ paso = "elemento"
      /\ IF t.salta \/ ~Permite(f) THEN destino' = Saltado /\ Seguir("valor") /\ UNCHANGED <<mem, doc>>
         ELSE IF ~r.ok THEN mem' = r.mem /\ Fallar("NoMemory") /\ UNCHANGED <<doc, destino>>
         ELSE /\ mem' = r.mem /\ doc' = ConHijo(t.v, Ranura0.clave)
              /\ destino' = Hijo(Len(doc) + 1, f) /\ Seguir("valor")
      /\ UNCHANGED <<caso, limite, lat, pila, cita>>

\* parseKey(); skipObject() skips a value where the key should be.
Clave ==
  LET l == EnBlanco
  IN  /\ paso = "clave" /\ l.c # NUL
      /\ IF Last(pila).salta
         THEN /\ destino' = Saltado /\ pila' = [pila EXCEPT ![Len(pila)].enClave = TRUE]
              /\ lat' = l /\ Seguir("valor") /\ UNCHANGED <<mem, cita>>
         ELSE /\ mem' = Empezar(mem) /\ UNCHANGED <<destino, pila>>
              /\ IF l.c \in Comillas
                 THEN /\ cita' = [fin |-> l.c, alto |-> 0, clave |-> TRUE]
                      /\ lat' = Mover(l) /\ Seguir("cadena")
                 ELSE /\ lat' = l /\ UNCHANGED cita
                      /\ IF l.c \in SinComillas THEN Seguir("desnuda") ELSE Fallar("InvalidInput")
      /\ UNCHANGED <<caso, limite, doc>>

\* parseNonQuotedString()
Desnuda ==
  /\ paso = "desnuda"
  /\ IF Ver.c \in SinComillas
     THEN /\ mem' = Anadir(mem, <<Ver.c>>) /\ lat' = Cargar(Mover(Ver), mem'.buf) /\ Seguir("desnuda")
     ELSE /\ lat' = Ver /\ UNCHANGED mem
          /\ IF Valida(mem) THEN Seguir("dosPuntos") ELSE Fallar("NoMemory")
  /\ UNCHANGED <<caso, limite, doc, destino, pila, cita>>

\* The slot of a member: its key is saved before the slot takes the space next to it.
NuevoMiembro(m) ==
  LET k == Guardada(m) a == Ranura(k.mem) IN [mem |-> a.mem, ref |-> k.ref, ok |-> a.ok]

DosPuntos ==
  LET l == EnBlanco
      t == Last(pila)
      m == Terminada(mem)
      clave == HastaNul(Escrito(m))
      f == SubFiltro(t.f, clave)
      i == SelectInSeq(doc[t.v].hijos, LAMBDA h : Hasta(m, doc[h].clave) = clave)
      r == NuevoMiembro(m)
  IN  /\ paso = "dosPuntos" /\ l.c # NUL
      /\ lat' = (IF l.c = 58 THEN Mover(l) ELSE l)
      /\ pila' = [pila EXCEPT ![Len(pila)].enClave = FALSE]
      /\ IF l.c # 58 THEN Fallar("InvalidInput") /\ UNCHANGED <<mem, doc, destino>>
         ELSE IF t.salta THEN destino' = Saltado /\ Seguir("valor") /\ UNCHANGED <<mem, doc>>
         ELSE IF ~Permite(f) THEN mem' = m /\ destino' = Saltado /\ Seguir("valor") /\ UNCHANGED doc
         ELSE IF i > 0 THEN /\ mem' = m /\ destino' = Hijo(doc[t.v].hijos[i], f)
                            /\ Seguir("valor") /\ UNCHANGED doc
         ELSE IF ~r.ok THEN mem' = r.mem /\ Fallar("NoMemory") /\ UNCHANGED <<doc, destino>>
         ELSE /\ mem' = r.mem /\ doc' = ConHijo(t.v, r.ref)
              /\ destino' = Hijo(Len(doc) + 1, f) /\ Seguir("valor")
      /\ UNCHANGED <<caso, limite, cita>>

\* parseStringValue() and skipString()
Toma == ~destino.salta /\ PermiteValor(destino.f)
AbrirCadena ==
  /\ paso = "valor" /\ EnBlanco.c \in Comillas
  /\ cita' = [fin |-> EnBlanco.c, alto |-> 0, clave |-> FALSE] /\ lat' = Mover(EnBlanco)
  /\ IF Toma THEN mem' = Empezar(mem) /\ Seguir("cadena") ELSE Seguir("saltada") /\ UNCHANGED mem
  /\ UNCHANGED <<caso, limite, doc, destino, pila>>
Saltada ==
  LET l == Cargar(Mover(Ver), mem.buf)
  IN  /\ paso = "saltada"
      /\ lat' = IF Ver.c = 92 /\ l.c # NUL THEN Mover(l) ELSE IF Ver.c = 92 THEN l ELSE Mover(Ver)
      /\ IF Ver.c = cita.fin THEN Volver
         ELSE IF Ver.c = NUL THEN Fallar("IncompleteInput") ELSE Seguir("saltada")
      /\ UNCHANGED <<caso, limite, mem, doc, destino, pila, cita>>

\* parseQuotedString(): one character of a string, which is in place if it is not copied.
ConCadena(ref) == [doc EXCEPT ![destino.v] = [@ EXCEPT !.tipo = "cadena", !.dato = ref]]
CierraCadena ==
  LET r == Guardada(mem)
  IN  /\ paso = "cadena" /\ Ver.c = cita.fin
      /\ lat' = Mover(Ver)
      /\ IF ~Valida(mem) THEN Fallar("NoMemory") /\ UNCHANGED <<mem, doc>>
         ELSE IF cita.clave THEN Seguir("dosPuntos") /\ UNCHANGED <<mem, doc>>
         ELSE mem' = r.mem /\ doc' = ConCadena(r.ref) /\ Volver
      /\ UNCHANGED <<caso, limite, destino, pila, cita>>
Letra ==
  /\ paso = "cadena" /\ Ver.c \notin {cita.fin, 92}
  /\ lat' = Mover(Ver)
  /\ IF Ver.c = NUL THEN Fallar("IncompleteInput") /\ UNCHANGED mem
     ELSE mem' = Anadir(mem, <<Ver.c>>) /\ Seguir("cadena")
  /\ UNCHANGED <<caso, limite, doc, destino, pila, cita>>
Escapada ==
  LET l == Cargar(Mover(Ver), mem.buf)
      i == SelectInSeq(EscapesDeEntrada, LAMBDA e : e[1] = l.c)
  IN  /\ paso = "cadena" /\ Ver.c = 92 /\ cita.fin # 92 /\ l.c # 117
      /\ IF i > 0 THEN /\ mem' = Anadir(mem, <<EscapesDeEntrada[i][2]>>)
                       /\ lat' = Mover(l) /\ Seguir("cadena")
         ELSE /\ lat' = l /\ UNCHANGED mem
              /\ Fallar(IF l.c = NUL THEN "IncompleteInput" ELSE "InvalidInput")
      /\ UNCHANGED <<caso, limite, doc, destino, pila, cita>>

\* parseHex4(): the four characters from a place on, the first that is no digit, and
\* the unit they stand for.
Cuatro(p) == [k \in 1..4 |-> Byte(mem.buf, p + k - 1)]
Mala(x) == SelectInSeq(x, LAMBDA c : Hex(c) = 16)
Unidad(x) == Hex(x[1]) * 4096 + Hex(x[2]) * 256 + Hex(x[3]) * 16 + Hex(x[4])
\* Utf16::Codepoint keeps a high surrogate for the low one.
Codepoint(u) ==
  LET sub == u % 1024
  IN  IF u \in 55296..56319 THEN cita' = [cita EXCEPT !.alto = sub] /\ UNCHANGED mem
      ELSE /\ mem' = Anadir(mem, Utf8(IF u \in 56320..57343 THEN 65536 + cita.alto * 1024 + sub ELSE u))
           /\ UNCHANGED cita
Unicode ==
  LET l == Cargar(Mover(Ver), mem.buf)
      x == Cuatro(l.lee)
      mala == Mala(x)
  IN  /\ paso = "cadena" /\ Ver.c = 92 /\ l.c = 117
      /\ IF mala > 0
         THEN /\ lat' = [lleno |-> TRUE, c |-> x[mala], lee |-> l.lee + mala]
              /\ Fallar(IF x[mala] = NUL THEN "IncompleteInput" ELSE "InvalidInput")
              /\ UNCHANGED <<mem, cita>>
         ELSE /\ lat' = [lleno |-> FALSE, c |-> x[4], lee |-> l.lee + 4]
              /\ Codepoint(Unidad(x)) /\ Seguir("cadena")
      /\ UNCHANGED <<caso, limite, doc, destino, pila>>

\* parseNumericValue(): a word is told by its first letter and its length.
Escalar(v) == [doc EXCEPT ![destino.v] = [@ EXCEPT !.tipo = v.tipo, !.dato = v.dato]]
Palabras == (116 :> 4) @@ (102 :> 5) @@ (110 :> 4)
Numerico ==
  LET l == EnBlanco
      t == Palabra(l, 63)
      c == IF t = <<>> THEN NUL ELSE t[1]
      v == Numero(t)
  IN  /\ paso = "valor" /\ l.c \notin {NUL, 91, 123} \cup Comillas /\ Toma
      /\ lat' = Tras(l, Len(t))
      /\ IF c \in DOMAIN Palabras
         THEN /\ doc' = IF c = 110 THEN doc
                        ELSE Escalar([tipo |-> "logico", dato |-> [en |-> "", n |-> 0,
                                                                   p |-> IF c = 116 THEN 1 ELSE 0]])
              /\ IF Len(t) = Palabras[c] THEN Volver ELSE Fallar("IncompleteInput")
         ELSE IF v.tipo = "mal" THEN Fallar("InvalidInput") /\ UNCHANGED doc
         ELSE doc' = Escalar(v) /\ Volver
      /\ UNCHANGED <<caso, limite, mem, destino, pila, cita>>
SaltarNumerico ==
  LET l == EnBlanco
  IN  /\ paso = "valor" /\ l.c \notin {NUL, 91, 123} \cup Comillas /\ ~Toma
      /\ lat' = Tras(l, Len(Palabra(l, Len(mem.buf)))) /\ Volver
      /\ UNCHANGED <<caso, limite, mem, doc, destino, pila, cita>>

\* parse(): what follows a number is looked at, what follows a collection is not.
Acaba ==
  /\ paso = "acaba"
  /\ Fallar(IF lat.c # NUL /\ doc[1].tipo \in {"entero", "real"} THEN "InvalidInput" ELSE "Ok")
  /\ UNCHANGED <<caso, limite, mem, lat, doc, destino, pila, cita>>

Next ==
  \/ FinDelTexto \/ Abrir \/ Primero \/ Coma \/ Elemento \/ Clave \/ Desnuda \/ DosPuntos
  \/ AbrirCadena \/ Saltada \/ CierraCadena \/ Letra \/ Escapada \/ Unicode
  \/ Numerico \/ SaltarNumerico \/ Acaba
=============================================================================
