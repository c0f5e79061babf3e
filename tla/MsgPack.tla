------------------------------ MODULE MsgPack ------------------------------
(***************************************************************************)
(* MsgPackDeserializer.hpp and MsgPackSerializer.hpp: the same documents, in *)
(* the same pool, read from bytes and written to them.  The reader is the    *)
(* bounded one; a pila frame also counts the values that it still expects,   *)
(* and cita the bytes of the string that is being read.                      *)
(* The value of a real is left out, and integers are those TLC can hold.     *)
(***************************************************************************)
EXTENDS JsonDeserializador

CONSTANT CasosMp   \* as Casos, without a filter whose "*" lets an element pass of an
                   \* array that it does not: readArray() follows a null pointer there

ASSUME MpAssumption == \A c \in CasosMp : c.texto \in Seq(0..255)

-----------------------------------------------------------------------------
\* The widths, in bytes, of the length or the number after a code.
AnchoLargo == [c \in 196..201 \cup 217..223 |->
                 CASE c \in {196, 199, 217} -> 1 [] c \in {197, 200, 218, 220, 222} -> 2 [] OTHER -> 4]
AnchoNumero == [c \in 202..211 |->
                  CASE c \in {204, 208} -> 1 [] c \in {205, 209} -> 2 [] c \in {202, 206, 210} -> 4
                    [] OTHER -> 8]
FixExt == [c \in 212..216 |-> <<2, 3, 5, 9, 17>>[c - 211]]
Nil == 192
Invalido == 193
Fijos == 0..127 \cup 224..255
Binarios == 196..201 \cup DOMAIN FixExt
CodigosCadena == 160..191 \cup 217..219
CodigosLista == 144..159 \cup {220, 221}
CodigosObjeto == 128..143 \cup {222, 223}

\* readInteger(), after fixEndianess(): up to eight bytes, and what stands for those
\* that are not there; a signed one begins with its sign.
EnBase256(bs, relleno) ==
  LET o(i) == IF i < Len(bs) THEN bs[Len(bs) - i] ELSE relleno
      h(n, i) == n * 256 + o(i)
  IN  h(h(h(h(h(h(h(h(IF relleno = 0 THEN 0 ELSE -1, 7), 6), 5), 4), 3), 2), 1), 0)
Natural(bs)  == EnBase256(bs, 0)
ConSigno(bs) == EnBase256(bs, IF bs[1] > 127 THEN 255 ELSE 0)
EnteroDe(v) == [tipo |-> "entero", dato |-> [en |-> "", p |-> IF v < 0 THEN -v ELSE v,
                                             n |-> IF v < 0 THEN 1 ELSE 0]]
Real == [tipo |-> "real", dato |-> Ranura0.dato]
LogicoDe(b) == [tipo |-> "logico", dato |-> [en |-> "", p |-> b, n |-> 0]]

\* The reader: whether n bytes are not there, the next ones, and where it is then.
Falta(n)  == lat.lee + n - 1 > Len(caso.texto)
Trozo(i, n) == SubSeq(mem.buf, lat.lee + i, lat.lee + i + n - 1)
Avanza(n) == [lat EXCEPT !.lee = @ + n]
Codigo == mem.buf[lat.lee]

AnchoDe(c) == IF c \in DOMAIN AnchoLargo THEN AnchoLargo[c] ELSE 0
LargoDe(c) ==
  CASE c \in 160..191 -> c % 32
    [] c \in 128..159 -> c % 16
    [] c \in DOMAIN FixExt -> FixExt[c]
    [] c \in 199..201 -> Natural(Trozo(1, AnchoDe(c))) + 1
    [] OTHER -> Natural(Trozo(1, AnchoDe(c)))

-----------------------------------------------------------------------------
MpInit ==
  /\ caso \in CasosMp /\ limite \in Limites
  /\ \E cap \in Capacidades, copia \in BOOLEAN :
       mem = Memoria(Append(caso.texto, NUL), copia, cap)
  /\ lat = [lleno |-> FALSE, c |-> NUL, lee |-> 1]
  /\ doc = <<Ranura0>>
  /\ destino = [v |-> 1, f |-> caso.filtro, lim |-> limite, salta |-> FALSE]
  /\ pila = <<>> /\ cita = [n |-> 0, clave |-> FALSE]
  /\ paso = "codigo" /\ error = "Ok"

\* parseVariant(), by what its code says.  What is not supported is read over.
SeSalta(c) == c \in Binarios \/ (c \in CodigosCadena /\ ~Toma)
Cuerpo(c) == IF c \in DOMAIN AnchoNumero THEN AnchoNumero[c] ELSE IF SeSalta(c) THEN LargoDe(c) ELSE 0
Incompleto(c) == ~Falta(1 + AnchoDe(c)) => Falta(1 + AnchoDe(c) + Cuerpo(c))

SinCodigo ==
  /\ paso \in {"codigo", "claveMp"} /\ Falta(1)
  /\ Fallar(IF lat.lee = 1 THEN "EmptyInput" ELSE "IncompleteInput")
  /\ UNCHANGED <<caso, limite, mem, lat, doc, destino, pila, cita>>
CodigoMalo ==
  /\ paso = "codigo" /\ ~Falta(1)
  /\ Codigo = Invalido \/ Incompleto(Codigo)
  /\ Fallar(IF Codigo = Invalido THEN "InvalidInput" ELSE "IncompleteInput")
  /\ UNCHANGED <<caso, limite, mem, lat, doc, destino, pila, cita>>

\* The steps that go on from a code whose length and number are there.
Sigue(c) == paso = "codigo" /\ ~Falta(1) /\ c = Codigo /\ c # Invalido /\ ~Incompleto(c)

Simple ==
  /\ Sigue(Codigo) /\ Codigo \in {Nil, 194, 195} \cup Fijos \cup DOMAIN AnchoNumero
  /\ LET w == Cuerpo(Codigo)
         v == CASE Codigo \in {194, 195} -> LogicoDe(Codigo - 194)
                [] Codigo \in 202..203 -> Real
                [] Codigo \in 204..207 -> EnteroDe(Natural(Trozo(1, w)))
                [] Codigo \in 208..211 -> EnteroDe(ConSigno(Trozo(1, w)))
                [] OTHER -> EnteroDe(ConSigno(<<Codigo>>))
     IN  /\ doc' = IF Toma /\ Codigo # Nil THEN Escalar(v) ELSE doc
         /\ lat' = Avanza(1 + w)
  /\ Seguir("siguiente")
  /\ UNCHANGED <<caso, limite, mem, destino, pila, cita>>

\* skipString(), skipExt(), skipBytes()
Saltar ==
  /\ Sigue(Codigo) /\ SeSalta(Codigo)
  /\ lat' = Avanza(1 + AnchoDe(Codigo) + LargoDe(Codigo))
  /\ Seguir("siguiente")
  /\ UNCHANGED <<caso, limite, mem, doc, destino, pila, cita>>

\* readString() and readKey() up to the first byte.
EmpezarCadena(clave) ==
  /\ mem' = Empezar(mem) /\ cita' = [n |-> LargoDe(Codigo), clave |-> clave]
  /\ lat' = Avanza(1 + AnchoDe(Codigo)) /\ Seguir("octetos")
  /\ UNCHANGED <<caso, limite, doc, destino, pila>>
ReadString == Sigue(Codigo) /\ Codigo \in CodigosCadena /\ Toma /\ EmpezarCadena(FALSE)
ReadKey ==
  /\ paso = "claveMp" /\ ~Falta(1)
  /\ IF Codigo \in CodigosCadena /\ ~Falta(1 + AnchoDe(Codigo)) THEN EmpezarCadena(TRUE)
     ELSE /\ Fallar(IF Codigo \in CodigosCadena THEN "IncompleteInput" ELSE "InvalidInput")
          /\ UNCHANGED <<caso, limite, mem, lat, doc, destino, pila, cita>>

\* readArray(), readObject() up to the first value.
Coleccion ==
  LET tipo == IF Codigo \in CodigosLista THEN "lista" ELSE "objeto"
      toma == PermiteColeccion(destino.f, tipo)
  IN  /\ Sigue(Codigo) /\ Codigo \in CodigosLista \cup CodigosObjeto
      /\ lat' = Avanza(1 + AnchoDe(Codigo))
      /\ IF Alcanzado(destino.lim) THEN Fallar("TooDeep") /\ UNCHANGED <<doc, pila>>
         ELSE /\ doc' = IF toma THEN [doc EXCEPT ![destino.v] = [@ EXCEPT !.tipo = tipo, !.hijos = <<>>]]
                                ELSE doc
              /\ pila' = Append(pila, [v |-> destino.v, f |-> destino.f, lim |-> destino.lim,
                                       tipo |-> tipo, quedan |-> LargoDe(Codigo)])
              /\ Seguir("siguiente")
      /\ UNCHANGED <<caso, limite, mem, destino, cita>>

\* The loop of readArray() or readObject(); a collection that is complete is the
\* value of the one around it.
Contada == [pila EXCEPT ![Len(pila)].quedan = @ - 1]
SiguienteMp ==
  LET t == Last(pila)
      f == SubFiltro(t.f, <<>>)
      r == Ranura(mem)
  IN  /\ paso = "siguiente"
      /\ IF pila = <<>> THEN Fallar("Ok") /\ UNCHANGED <<mem, doc, destino, pila>>
         ELSE IF t.quedan = 0
         THEN pila' = Front(pila) /\ Seguir("siguiente") /\ UNCHANGED <<mem, doc, destino>>
         ELSE IF t.tipo = "objeto" THEN Seguir("claveMp") /\ UNCHANGED <<mem, doc, destino, pila>>
         ELSE /\ pila' = Contada
              /\ IF ~Permite(f) THEN destino' = Saltado /\ Seguir("codigo") /\ UNCHANGED <<mem, doc>>
                 ELSE IF ~r.ok THEN mem' = r.mem /\ Fallar("NoMemory") /\ UNCHANGED <<doc, destino>>
                 ELSE /\ mem' = r.mem /\ doc' = ConHijo(t.v, Ranura0.clave)
                      /\ destino' = Hijo(Len(doc) + 1, f) /\ Seguir("codigo")
      /\ UNCHANGED <<caso, limite, lat, cita>>

\* readString(n): byte by byte, in place if it is not copied.
Octeto ==
  /\ paso = "octetos" /\ cita.n > 0
  /\ IF Falta(1) THEN Fallar("IncompleteInput") /\ UNCHANGED <<mem, lat, cita>>
     ELSE /\ mem' = Anadir(mem, <<Codigo>>) /\ lat' = Avanza(1)
          /\ cita' = [cita EXCEPT !.n = @ - 1] /\ Seguir("octetos")
  /\ UNCHANGED <<caso, limite, doc, destino, pila>>
FinDeOctetos ==
  LET r == Guardada(mem)
  IN  /\ paso = "octetos" /\ cita.n = 0 /\ (cita.clave => ~Valida(mem))
      /\ IF ~Valida(mem) THEN Fallar("NoMemory") /\ UNCHANGED <<mem, doc>>
         ELSE mem' = r.mem /\ doc' = ConCadena(r.ref) /\ Seguir("siguiente")
      /\ UNCHANGED <<caso, limite, lat, destino, pila, cita>>

\* The member of a key: the name may be there already, and is not looked for.
MiembroMp ==
  LET t == Last(pila)
      m == Terminada(mem)
      f == SubFiltro(t.f, HastaNul(Escrito(m)))
      r == NuevoMiembro(m)
  IN  /\ paso = "octetos" /\ cita.n = 0 /\ cita.clave /\ Valida(mem)
      /\ pila' = Contada
      /\ IF ~Permite(f) THEN mem' = m /\ destino' = Saltado /\ Seguir("codigo") /\ UNCHANGED doc
         ELSE IF ~r.ok THEN mem' = r.mem /\ Fallar("NoMemory") /\ UNCHANGED <<doc, destino>>
         ELSE /\ mem' = r.mem /\ doc' = ConHijo(t.v, r.ref)
              /\ destino' = Hijo(Len(doc) + 1, f) /\ Seguir("codigo")
      /\ UNCHANGED <<caso, limite, lat, cita>>

MpNext ==
  \/ SinCodigo \/ CodigoMalo \/ Simple \/ Saltar \/ ReadString \/ ReadKey \/ Coleccion
  \/ SiguienteMp \/ Octeto \/ FinDeOctetos \/ MiembroMp

Lectura == (Init \/ MpInit) /\ [][Next \/ MpNext]_vars

\* A string that is kept has its place among those that are kept, up to and with its NUL.
Alojada(s, fin, ref) ==
  /\ ref.p \in 1..fin /\ ref.n \in 0..(fin - ref.p)
  /\ ref.p + ref.n <= Len(s) /\ s[ref.p + ref.n] = NUL
Entera(m, ref) ==
  /\ ref.en = "pool"  => Alojada(m.bytes, m.izq - 1, ref)
  /\ ref.en = "texto" => ~m.copia /\ Alojada(m.buf, m.escribe - 1, ref)

\* A string has been begun, and is neither kept nor dropped yet.
Abierta == \/ paso \in {"cadena", "desnuda", "octetos"}
           \/ paso = "dosPuntos" /\ ~Last(pila).salta

\* Strings and slots never meet (checkInvariants() of MemoryPool.hpp).  A string that
\* is copied has room for its terminator as long as the pool is not said to be full
\* (the assertions of StringCopier.hpp).  In place, what is written never passes what
\* is read, so that what is still to be read is what was sent (StringMover.hpp,
\* RamReader.hpp); and no string of the document is cut or written over by those that
\* come after it, whichever way it is kept.
MemoriaEnOrden ==
  /\ mem.izq \in 1..mem.der /\ mem.der \in 1..(Len(mem.bytes) + 1)
  /\ mem.copia /\ ~mem.lleno /\ Abierta => mem.desde = mem.izq /\ mem.escribe \in mem.izq..(mem.der - 1)
  /\ ~mem.copia => mem.escribe <= lat.lee
  /\ \A i \in lat.lee..Len(caso.texto) : mem.buf[i] = caso.texto[i]
  /\ \A i \in DOMAIN doc : Entera(mem, doc[i].clave) /\ Entera(mem, doc[i].dato)

-----------------------------------------------------------------------------
\* MsgPackSerializer: a size or a number goes into the first form that holds it; a
\* form of no width adds it to its code.
Forma(tope, codigo, ancho) == [tope |-> tope, codigo |-> codigo, ancho |-> ancho]
Siempre == 2147483647
FormasLista    == <<Forma(16, 144, 0), Forma(65536, 220, 2), Forma(Siempre, 221, 4)>>
FormasObjeto   == <<Forma(16, 128, 0), Forma(65536, 222, 2), Forma(Siempre, 223, 4)>>
FormasCadena   == <<Forma(32, 160, 0), Forma(256, 217, 1), Forma(65536, 218, 2), Forma(Siempre, 219, 4)>>
FormasNatural  == <<Forma(128, 0, 0), Forma(256, 204, 1), Forma(65536, 205, 2), Forma(Siempre, 206, 4)>>
FormasNegativo == <<Forma(33, 256, 0), Forma(129, 208, 1), Forma(32769, 209, 2), Forma(Siempre, 210, 4)>>
Ancha(v, w) == [i \in 1..w |-> (v \div 256^(w - i)) % 256]
EnForma(v, abs, formas) ==
  LET f == formas[SelectInSeq(formas, LAMBDA x : abs < x.tope)]
  IN  IF f.ancho = 0 THEN <<f.codigo + v>> ELSE <<f.codigo>> \o Ancha(v, f.ancho)
VisitString(cs) == EnForma(Len(cs), Len(cs), FormasCadena) \o cs
VisitInteger(d) == IF d.n = 1 THEN EnForma(-d.p, d.p, FormasNegativo) ELSE EnForma(d.p, d.p, FormasNatural)

Empaquetado(m, dc) ==
  LET T[i \in 1..Len(dc)] ==
        LET r == dc[i]
            h == r.hijos
            n == Len(h)
        IN  CASE r.tipo = "lista"  -> EnForma(n, n, FormasLista) \o FlattenSeq([k \in 1..n |-> T[h[k]]])
              [] r.tipo = "objeto" -> EnForma(n, n, FormasObjeto)
                                      \o FlattenSeq([k \in 1..n |-> VisitString(Hasta(m, dc[h[k]].clave))
                                                                    \o T[h[k]]])
              [] r.tipo = "cadena" -> VisitString(Leida(m, r.dato))
              [] r.tipo = "entero" -> VisitInteger(r.dato)
              [] r.tipo = "logico" -> <<194 + r.dato.p>>
              [] OTHER             -> <<Nil>>
  IN  T[1]
=============================================================================
