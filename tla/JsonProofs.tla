----------------------------- MODULE JsonProofs -----------------------------
(***************************************************************************)
(* Proofs about the memory of ArduinoJson while a text or MessagePack is     *)
(* read into it, for every input, filter, nesting limit and size of the      *)
(* pool, with strings that are copied and with strings in place.             *)
(***************************************************************************)
EXTENDS MsgPack, SequenceTheorems, WellFoundedInduction, TLAPS

-----------------------------------------------------------------------------
(* The invariant.                                                          *)
Mem == [copia : BOOLEAN, buf : Seq(Nat), bytes : Seq(Nat), izq : Nat, der : Nat,
        lleno : BOOLEAN, desde : Nat, escribe : Nat]

\* A memory between two strings, and one into which a string is being copied.
EnZona(m) ==
  /\ m \in Mem /\ m.desde >= 1
  /\ m.izq \in 1..m.der /\ m.der \in 1..(Len(m.bytes) + 1)
  /\ ~m.copia => m.desde <= m.escribe
Escribible(m) ==
  m.copia => /\ m.desde = m.izq /\ m.escribe \in m.izq..m.der
             /\ ~m.lleno => m.escribe < m.der

\* A latch over the text s, and the place of the first character that was not taken.
Pestillo(l, s) ==
  /\ l \in [lleno : BOOLEAN, c : Nat, lee : Nat] /\ l.lee >= 1
  /\ l.lleno => l.lee >= 2 /\ (l.c # NUL => l.lee - 1 <= Len(s))
Sitio(l) == IF l.lleno THEN l.lee - 1 ELSE l.lee

\* Slots and frames are records, of which only some fields matter.
EsSec(s) == s \in Seq({s[i] : i \in DOMAIN s})
EsNodo(r) == r \in [clave : {r.clave}, tipo : {r.tipo}, dato : {r.dato}, hijos : {r.hijos}]
EsDoc(dc) == EsSec(dc) /\ \A i \in DOMAIN dc : EsNodo(dc[i])
EsMarco(r) ==
  /\ r \in [v : {r.v}, f : {r.f}, lim : {r.lim}, salta : {r.salta}, tipo : {r.tipo}, enClave : {r.enClave}]
  /\ r.salta \in BOOLEAN /\ r.enClave \in BOOLEAN /\ (r.enClave => r.salta)
EsPila(p) == EsSec(p) /\ \A i \in DOMAIN p : EsMarco(p[i])
EsCita(x) == x \in [fin : {x.fin}, alto : {x.alto}, clave : {x.clave}] /\ x.alto \in Nat /\ x.fin # NUL

PasosJson == {"valor", "primero", "elemento", "coma", "clave", "desnuda", "dosPuntos",
              "cadena", "saltada", "acaba"}
PasosMp == {"codigo", "claveMp", "siguiente", "octetos"}

MemoriaInv ==
  /\ caso.texto \in Seq(0..255)
  /\ EnZona(mem) /\ Len(mem.buf) = Len(caso.texto) + 1
  /\ ~mem.copia => mem.escribe <= Sitio(lat)
  /\ Pestillo(lat, mem.buf)
  /\ \A i \in lat.lee..Len(caso.texto) : mem.buf[i] = caso.texto[i]
DocBien(m, dc) ==
  EsDoc(dc) /\ \A i \in DOMAIN dc : Entera(m, dc[i].clave) /\ Entera(m, dc[i].dato)
DocInv == DocBien(mem, doc)
PasoInv ==
  /\ paso \in PasosJson \cup PasosMp \cup {"fin"}
  /\ paso \in PasosJson => EsPila(pila) /\ EsCita(cita)
  /\ Abierta => Escribible(mem)
  /\ paso = "dosPuntos" => Last(pila).salta \/ Valida(mem)
  /\ paso \in {"cadena", "octetos"} => (~mem.copia => mem.escribe < lat.lee)
  /\ paso \in PasosMp \cup {"cadena"} => ~lat.lleno
  /\ paso = "octetos" => lat.lee <= Len(caso.texto) + 1
IInv == MemoriaInv /\ DocInv /\ PasoInv

-----------------------------------------------------------------------------
(* Bytes that are written.                                                 *)

\* What keeps a memory as it was, but for the free zone of the pool and, in place, the
\* text between what is written and q.
Respeta(m, n, q) ==
  /\ n.copia = m.copia /\ Len(n.buf) = Len(m.buf) /\ Len(n.bytes) = Len(m.bytes)
  /\ m.izq <= n.izq /\ (~m.copia => m.escribe <= n.escribe)
  /\ \A i \in 1..(m.izq - 1) : n.bytes[i] = m.bytes[i]
  /\ m.copia => n.buf = m.buf
  /\ ~m.copia => \A i \in 1..Len(m.buf) : i < m.escribe \/ i > q => n.buf[i] = m.buf[i]

\* t is s but for the n places from p on.
Cambia(s, t, p, n) ==
  /\ t \in Seq(Nat) /\ Len(t) = Len(s)
  /\ \A i \in 1..Len(s) : i < p \/ i >= p + n => t[i] = s[i]

LEMMA Puesto ==
  ASSUME NEW s \in Seq(Nat), NEW p \in Nat, NEW cs \in Seq(Nat)
  PROVE  /\ Cambia(s, Poner(s, p, cs), p, Len(cs))
         /\ \A i \in 1..Len(s) : i \in p..(p + Len(cs) - 1) => Poner(s, p, cs)[i] = cs[i - p + 1]
<1>1. \A i \in 1..Len(s) : i \in p..(p + Len(cs) - 1) => cs[i - p + 1] \in Nat
  OBVIOUS
<1>2. \A i \in 1..Len(s) : s[i] \in Nat
  OBVIOUS
<1>3. \A i \in 1..Len(s) : (IF i \in p..(p + Len(cs) - 1) THEN cs[i - p + 1] ELSE s[i]) \in Nat
  BY <1>1, <1>2
<1> QED  BY <1>3 DEF Poner, Cambia

LEMMA PuestoCambia ==
  ASSUME NEW s \in Seq(Nat), NEW p \in Nat, NEW cs \in Seq(Nat), NEW t, t = Poner(s, p, cs), NEW n, n = Len(cs)
  PROVE  Cambia(s, t, p, n)
BY Puesto

LEMMA UnoPuesto ==
  ASSUME NEW s \in Seq(Nat), NEW p \in Nat, NEW c \in Nat
  PROVE  /\ Cambia(s, Poner(s, p, <<c>>), p, 1)
         /\ p \in 1..Len(s) => Poner(s, p, <<c>>)[p] = c
<1>a. <<c>> \in Seq(Nat) /\ Len(<<c>>) = 1 /\ <<c>>[1] = c
  OBVIOUS
<1>1. PICK cs : cs = <<c>> /\ cs \in Seq(Nat) /\ Len(cs) = 1 /\ cs[1] = c
  BY <1>a
<1>2. PICK t : t = Poner(s, p, cs)
  OBVIOUS
<1>3. /\ Cambia(s, t, p, Len(cs))
      /\ \A i \in 1..Len(s) : i \in p..(p + Len(cs) - 1) => t[i] = cs[i - p + 1]
  BY <1>1, <1>2, Puesto
<1>4. p \in 1..Len(s) => t[p] = c
  BY <1>1, <1>3
<1> QED  BY <1>1, <1>2, <1>3, <1>4

LEMMA Campos ==
  ASSUME NEW m \in Mem
  PROVE  /\ m.copia \in BOOLEAN /\ m.lleno \in BOOLEAN /\ m.buf \in Seq(Nat) /\ m.bytes \in Seq(Nat)
         /\ m.izq \in Nat /\ m.der \in Nat /\ m.desde \in Nat /\ m.escribe \in Nat
         /\ Len(m.buf) \in Nat /\ Len(m.bytes) \in Nat
BY DEF Mem

LEMMA RespetaTrans ==
  ASSUME NEW l \in Mem, NEW m \in Mem, NEW n \in Mem, NEW q \in Nat, Respeta(l, m, q), Respeta(m, n, q)
  PROVE  Respeta(l, n, q)
<1>1. /\ l.izq \in Nat /\ m.izq \in Nat /\ n.izq \in Nat
      /\ l.escribe \in Nat /\ m.escribe \in Nat /\ n.escribe \in Nat /\ Len(l.buf) \in Nat
  BY Campos
<1>2. l.izq <= m.izq /\ (~l.copia => l.escribe <= m.escribe)
  BY DEF Respeta
<1>3. /\ m.izq <= n.izq /\ (~m.copia => m.escribe <= n.escribe)
      /\ \A i \in 1..(l.izq - 1) : i \in 1..(m.izq - 1)
      /\ ~l.copia => \A i \in 1..Len(l.buf) : i < l.escribe => i < m.escribe
  BY SMTT(30), <1>1, <1>2 DEF Respeta
<1> QED  BY SMTT(30), <1>1, <1>2, <1>3 DEF Respeta

LEMMA Dentro ==
  ASSUME NEW a \in Nat, NEW p, NEW n, p \in 1..(a - 1), n \in 0..(a - 1 - p), NEW i \in p..(p + n)
  PROVE  i \in 1..(a - 1)
OBVIOUS

LEMMA EnMas ==
  ASSUME NEW a \in Nat, NEW b \in Nat, a <= b, NEW p, NEW n, p \in 1..(a - 1), n \in 0..(a - 1 - p)
  PROVE  p \in 1..(b - 1) /\ n \in 0..(b - 1 - p)
OBVIOUS

\* A string that is kept stays so.
LEMMA EnteraQueda ==
  ASSUME NEW m, EnZona(m), NEW n, EnZona(n), NEW q \in Nat, Respeta(m, n, q), NEW ref, Entera(m, ref)
  PROVE  Entera(n, ref)
<1>1. /\ m.izq \in Nat /\ n.izq \in Nat /\ m.escribe \in Nat /\ n.escribe \in Nat
      /\ Len(m.buf) \in Nat /\ Len(m.bytes) \in Nat
  BY Campos DEF EnZona
<1>a. m.izq <= n.izq /\ (~m.copia => m.escribe <= n.escribe)
  BY DEF Respeta
<1>2. CASE ref.en = "pool"
  <2>1. PICK k \in Nat : k = ref.p + ref.n /\ k \in 1..(m.izq - 1) /\ k <= Len(m.bytes) /\ m.bytes[k] = NUL
    BY SMTT(30), <1>1, <1>2 DEF Entera, Alojada
  <2>2. n.bytes[k] = NUL /\ k <= Len(n.bytes)
    BY <1>1, <2>1 DEF Respeta
  <2>a. ref.p \in 1..(m.izq - 1) /\ ref.n \in 0..(m.izq - 1 - ref.p)
    BY <1>2 DEF Entera, Alojada
  <2>3. ref.p \in 1..(n.izq - 1) /\ ref.n \in 0..(n.izq - 1 - ref.p)
    BY <1>1, <1>a, <2>a, EnMas
  <2> QED  BY <1>2, <2>1, <2>2, <2>3 DEF Entera, Alojada
<1>3. CASE ref.en = "texto"
  <2>1. PICK k \in Nat : k = ref.p + ref.n /\ k \in 1..(m.escribe - 1) /\ k <= Len(m.buf) /\ m.buf[k] = NUL
    BY SMTT(30), <1>1, <1>3 DEF Entera, Alojada
  <2>2. ~m.copia /\ ~n.copia
    BY <1>3 DEF Entera, Respeta
  <2>3. n.buf[k] = NUL /\ k <= Len(n.buf)
    BY SMTT(30), <1>1, <2>1, <2>2 DEF Respeta
  <2>a. ref.p \in 1..(m.escribe - 1) /\ ref.n \in 0..(m.escribe - 1 - ref.p)
    BY <1>3 DEF Entera, Alojada
  <2>b. m.escribe <= n.escribe
    BY <1>a, <2>2
  <2>4. ref.p \in 1..(n.escribe - 1) /\ ref.n \in 0..(n.escribe - 1 - ref.p)
    BY <1>1, <2>a, <2>b, EnMas
  <2> QED  BY <1>3, <2>1, <2>2, <2>3, <2>4 DEF Entera, Alojada
<1> QED  BY <1>2, <1>3 DEF Entera

-----------------------------------------------------------------------------
(* The operations of the memory.                                           *)
LEMMA EmpezarBien ==
  ASSUME NEW m, EnZona(m), NEW q \in Nat
  PROVE  /\ EnZona(Empezar(m)) /\ Escribible(Empezar(m)) /\ Respeta(m, Empezar(m), q)
         /\ ~m.copia => Empezar(m).escribe = m.escribe
<1>1. m \in Mem /\ m.copia \in BOOLEAN
  BY Campos DEF EnZona
<1>2. CASE m.copia
  <2> DEFINE n == [m EXCEPT !.desde = m.izq, !.escribe = m.izq, !.lleno = @ \/ m.der = m.izq]
  <2>1. n = Empezar(m)
    BY <1>2 DEF Empezar
  <2>2. (m.lleno \/ m.der = m.izq) \in BOOLEAN
    BY <1>1, Campos
  <2>3. /\ n \in Mem /\ n.copia /\ n.buf = m.buf /\ n.bytes = m.bytes /\ n.izq = m.izq /\ n.der = m.der
        /\ n.lleno = (m.lleno \/ m.der = m.izq) /\ n.desde = m.izq /\ n.escribe = m.izq
    BY <1>1, <1>2, <2>2 DEF Mem
  <2> HIDE DEF n
  <2>4. EnZona(n) /\ Escribible(n) /\ Respeta(m, n, q)
    BY <1>1, <1>2, <2>3, Campos DEF EnZona, Escribible, Respeta
  <2> QED  BY <1>2, <2>1, <2>4
<1>3. CASE ~m.copia
  <2> DEFINE n == [m EXCEPT !.desde = m.escribe]
  <2>1. n = Empezar(m)
    BY <1>3 DEF Empezar
  <2>3. /\ n \in Mem /\ ~n.copia /\ n.buf = m.buf /\ n.bytes = m.bytes /\ n.izq = m.izq /\ n.der = m.der
        /\ n.desde = m.escribe /\ n.escribe = m.escribe
    BY <1>1, <1>3 DEF Mem
  <2> HIDE DEF n
  <2>4. EnZona(n) /\ Escribible(n) /\ Respeta(m, n, q)
    BY <1>1, <1>3, <2>3, Campos DEF EnZona, Escribible, Respeta
  <2> QED  BY <1>3, <2>1, <2>3, <2>4
<1> QED  BY <1>1, <1>2, <1>3

LEMMA Trozado ==
  ASSUME NEW cs \in Seq(Nat), NEW k \in 0..Len(cs)
  PROVE  SubSeq(cs, 1, k) \in Seq(Nat) /\ Len(SubSeq(cs, 1, k)) = k
OBVIOUS

LEMMA AnadirBien ==
  ASSUME NEW m, EnZona(m), Escribible(m), NEW cs \in Seq(Nat), NEW q \in Nat,
         m.copia \/ m.escribe + Len(cs) - 1 <= q
  PROVE  /\ EnZona(Anadir(m, cs)) /\ Escribible(Anadir(m, cs)) /\ Respeta(m, Anadir(m, cs), q)
         /\ ~m.copia => Anadir(m, cs).escribe = m.escribe + Len(cs)
<1>1. m \in Mem /\ m.copia \in BOOLEAN /\ m.lleno \in BOOLEAN
  BY Campos DEF EnZona
<1>2. /\ m.escribe \in Nat /\ m.izq \in Nat /\ m.der \in Nat /\ m.desde \in Nat /\ Len(cs) \in Nat
      /\ m.buf \in Seq(Nat) /\ m.bytes \in Seq(Nat) /\ Len(m.buf) \in Nat /\ Len(m.bytes) \in Nat
  BY <1>1, Campos
<1> DEFINE sitio == IF m.copia THEN m.der - 1 - m.escribe ELSE Len(cs)
           k == IF Len(cs) <= sitio THEN Len(cs) ELSE IF sitio < 0 THEN 0 ELSE sitio
<1>3. /\ k \in 0..Len(cs) /\ (~m.copia => k = Len(cs))
      /\ m.copia => m.escribe + k <= m.der /\ (m.escribe < m.der => m.escribe + k < m.der)
  BY SMTT(30), <1>1, <1>2 DEF Escribible
<1>4. PICK ps : ps = SubSeq(cs, 1, k) /\ ps \in Seq(Nat) /\ Len(ps) = k
  BY <1>3, Trozado
<1>5. Anadir(m, cs) =
        IF m.copia
        THEN [m EXCEPT !.bytes = Poner(@, m.escribe, ps), !.escribe = @ + k, !.lleno = @ \/ k < Len(cs)]
        ELSE [m EXCEPT !.buf = Poner(@, m.escribe, ps), !.escribe = @ + k]
  BY <1>4 DEF Anadir
<1> HIDE DEF k, sitio
<1>6. CASE m.copia
  <2> DEFINE s == Poner(m.bytes, m.escribe, ps)
             n == [m EXCEPT !.bytes = s, !.escribe = m.escribe + k, !.lleno = m.lleno \/ k < Len(cs)]
  <2>1. n = Anadir(m, cs)
    BY <1>5, <1>6
  <2>a. Cambia(m.bytes, s, m.escribe, k)
    BY <1>2, <1>4, PuestoCambia
  <2> HIDE DEF s
  <2>2. s \in Seq(Nat) /\ Len(s) = Len(m.bytes) /\ \A i \in 1..Len(m.bytes) : i < m.escribe => s[i] = m.bytes[i]
    BY <2>a DEF Cambia
  <2>3. m.escribe + k \in Nat /\ (m.lleno \/ k < Len(cs)) \in BOOLEAN
    BY SMTT(30), <1>1, <1>2, <1>3
  <2>4. /\ n \in Mem /\ n.copia /\ n.buf = m.buf /\ n.bytes = s /\ n.izq = m.izq /\ n.der = m.der
        /\ n.lleno = (m.lleno \/ k < Len(cs)) /\ n.desde = m.desde /\ n.escribe = m.escribe + k
    BY <1>1, <1>6, <2>2, <2>3 DEF Mem
  <2> HIDE DEF n
  <2>5. EnZona(n)
    BY <1>6, <2>2, <2>4 DEF EnZona
  <2>b. /\ m.desde = m.izq /\ m.escribe \in m.izq..m.der /\ (~m.lleno => m.escribe < m.der)
        /\ m.izq <= m.der /\ m.der <= Len(m.bytes) + 1
    BY <1>2, <1>6 DEF Escribible, EnZona
  <2>6. Escribible(n)
    BY SMTT(30), <1>1, <1>2, <1>3, <1>6, <2>b, <2>4 DEF Escribible
  <2>c. \A i \in 1..(m.izq - 1) : i \in 1..Len(m.bytes) /\ i < m.escribe
    <3>1. /\ m.izq \in Nat /\ m.der \in Nat /\ m.escribe \in Nat /\ Len(m.bytes) \in Nat
          /\ m.izq <= m.escribe /\ m.izq <= m.der /\ m.der <= Len(m.bytes) + 1
      BY <1>2, <2>b
    <3> QED  BY <3>1
  <2>7. \A i \in 1..(m.izq - 1) : s[i] = m.bytes[i]
    BY <2>2, <2>c
  <2>8. Respeta(m, n, q)
    BY <1>2, <1>6, <2>2, <2>4, <2>7 DEF Respeta
  <2> QED  BY <1>6, <2>1, <2>5, <2>6, <2>8
<1>7. CASE ~m.copia
  <2> DEFINE s == Poner(m.buf, m.escribe, ps)
             n == [m EXCEPT !.buf = s, !.escribe = m.escribe + k]
  <2>1. n = Anadir(m, cs)
    BY <1>5, <1>7
  <2>a. Cambia(m.buf, s, m.escribe, k)
    BY <1>2, <1>4, PuestoCambia
  <2> HIDE DEF s
  <2>2. /\ s \in Seq(Nat) /\ Len(s) = Len(m.buf)
        /\ \A i \in 1..Len(m.buf) : i < m.escribe \/ i >= m.escribe + k => s[i] = m.buf[i]
    BY <2>a DEF Cambia
  <2>3. m.escribe + k \in Nat /\ k \in Nat
    BY SMTT(30), <1>2, <1>3
  <2>4. /\ n \in Mem /\ n.copia = m.copia /\ n.buf = s /\ n.bytes = m.bytes /\ n.izq = m.izq /\ n.der = m.der
        /\ n.desde = m.desde /\ n.escribe = m.escribe + k
    BY <1>1, <1>7, <2>2, <2>3 DEF Mem
  <2> HIDE DEF n
  <2>5. EnZona(n)
    BY <1>2, <1>7, <2>2, <2>3, <2>4 DEF EnZona
  <2>6. Escribible(n)
    BY <1>7, <2>4 DEF Escribible
  <2>c. \A i \in 1..Len(m.buf) : i > q => i >= m.escribe + k
    <3>1. PICK e, l \in Nat : e = m.escribe /\ l = Len(m.buf) /\ e + k - 1 <= q
      BY <1>2, <1>3, <1>7
    <3>2. \A i \in 1..l : i > q => i >= e + k
      BY <2>3, <3>1
    <3> QED  BY <3>1, <3>2
  <2>7. \A i \in 1..Len(m.buf) : i < m.escribe \/ i > q => s[i] = m.buf[i]
    BY <2>2, <2>c
  <2>b. m.escribe <= m.escribe + k
    BY <1>2, <2>3
  <2>8. Respeta(m, n, q)
    BY <1>2, <1>7, <2>2, <2>b, <2>4, <2>7 DEF Respeta
  <2> QED  BY <1>3, <1>7, <2>1, <2>4, <2>5, <2>6, <2>8
<1> QED  BY <1>1, <1>6, <1>7

LEMMA TerminadaBien ==
  ASSUME NEW m, EnZona(m), Escribible(m), NEW q \in Nat, m.copia \/ m.escribe <= q
  PROVE  LET n == Terminada(m)
         IN  /\ EnZona(n) /\ Escribible(n) /\ Respeta(m, n, q)
             /\ n.escribe = m.escribe /\ n.desde = m.desde /\ n.lleno = m.lleno /\ n.der = m.der
             /\ n.copia = m.copia
             /\ ~m.copia /\ m.escribe \in 1..Len(m.buf) => n.buf[m.escribe] = NUL
<1>1. m \in Mem /\ m.copia \in BOOLEAN
  BY Campos DEF EnZona
<1>2. /\ m.escribe \in Nat /\ m.izq \in Nat /\ m.der \in Nat /\ m.desde \in Nat
      /\ m.buf \in Seq(Nat) /\ m.bytes \in Seq(Nat) /\ Len(m.buf) \in Nat /\ Len(m.bytes) \in Nat
  BY <1>1, Campos
<1>3. NUL \in Nat
  BY DEF NUL
<1>4. CASE m.copia
  <2> DEFINE s == Poner(m.bytes, m.escribe, <<NUL>>)
             n == [m EXCEPT !.bytes = s]
  <2>1. n = Terminada(m)
    BY <1>4 DEF Terminada
  <2>2. Cambia(m.bytes, s, m.escribe, 1)
    BY <1>2, <1>3, UnoPuesto
  <2> HIDE DEF s
  <2>3. s \in Seq(Nat) /\ Len(s) = Len(m.bytes) /\ \A i \in 1..Len(m.bytes) : i < m.escribe => s[i] = m.bytes[i]
    BY <2>2 DEF Cambia
  <2>4. /\ n \in Mem /\ n.copia = m.copia /\ n.buf = m.buf /\ n.bytes = s /\ n.izq = m.izq /\ n.der = m.der
        /\ n.lleno = m.lleno /\ n.desde = m.desde /\ n.escribe = m.escribe
    BY <1>1, <1>4, <2>3 DEF Mem
  <2> HIDE DEF n
  <2>5. EnZona(n) /\ Escribible(n)
    BY <1>4, <2>3, <2>4 DEF EnZona, Escribible
  <2>6. \A i \in 1..(m.izq - 1) : i \in 1..Len(m.bytes) /\ i < m.escribe
    <3>1. m.izq <= m.escribe /\ m.izq <= m.der /\ m.der <= Len(m.bytes) + 1
      BY <1>2, <1>4 DEF Escribible, EnZona
    <3> QED  BY SMTT(30), <1>2, <3>1
  <2>7. Respeta(m, n, q)
    BY <1>2, <1>4, <2>3, <2>4, <2>6 DEF Respeta
  <2> QED  BY <1>4, <2>1, <2>4, <2>5, <2>7
<1>5. CASE ~m.copia
  <2> DEFINE s == Poner(m.buf, m.escribe, <<NUL>>)
             n == [m EXCEPT !.buf = s]
  <2>1. n = Terminada(m)
    BY <1>5 DEF Terminada
  <2>2. Cambia(m.buf, s, m.escribe, 1) /\ (m.escribe \in 1..Len(m.buf) => s[m.escribe] = NUL)
    BY <1>2, <1>3, UnoPuesto
  <2> HIDE DEF s
  <2>3. /\ s \in Seq(Nat) /\ Len(s) = Len(m.buf)
        /\ \A i \in 1..Len(m.buf) : i < m.escribe \/ i >= m.escribe + 1 => s[i] = m.buf[i]
    BY <2>2 DEF Cambia
  <2>4. /\ n \in Mem /\ n.copia = m.copia /\ n.buf = s /\ n.bytes = m.bytes /\ n.izq = m.izq /\ n.der = m.der
        /\ n.lleno = m.lleno /\ n.desde = m.desde /\ n.escribe = m.escribe
    BY <1>1, <1>5, <2>3 DEF Mem
  <2> HIDE DEF n
  <2>5. EnZona(n) /\ Escribible(n)
    BY <1>5, <2>3, <2>4 DEF EnZona, Escribible
  <2>6. \A i \in 1..Len(m.buf) : i < m.escribe \/ i > q => s[i] = m.buf[i]
    BY SMTT(30), <1>2, <1>5, <2>3
  <2>7. Respeta(m, n, q)
    BY SMTT(30), <1>2, <1>5, <2>3, <2>4, <2>6 DEF Respeta
  <2> QED  BY <1>5, <2>1, <2>2, <2>4, <2>5, <2>7
<1> QED  BY <1>1, <1>4, <1>5

\* The string that was begun, and where it ends.
LEMMA TrozoDeSeq ==
  ASSUME NEW s \in Seq(Nat), NEW a \in Nat, NEW b \in Nat, a >= 1, a <= b + 1, b <= Len(s)
  PROVE  SubSeq(s, a, b) \in Seq(Nat) /\ Len(SubSeq(s, a, b)) = b - a + 1
<1>1. \A i \in 1..Len(s) : s[i] \in Nat
  OBVIOUS
<1>2. SubSeq(s, a, b) = [i \in 1..(b - a + 1) |-> s[i + a - 1]]
  OBVIOUS
<1>3. \A i \in 1..(b - a + 1) : i + a - 1 \in 1..Len(s)
  OBVIOUS
<1>4. \A i \in 1..(b - a + 1) : s[i + a - 1] \in Nat
  BY <1>1, <1>3
<1>5. PICK n \in Nat : n = b - a + 1
  OBVIOUS
<1> DEFINE t == [i \in 1..n |-> s[i + a - 1]]
<1>6. t \in Seq(Nat) /\ DOMAIN t = 1..n
  BY <1>4, <1>5
<1> HIDE DEF t
<1>7. Len(t) = n
  BY <1>6
<1>8. SubSeq(s, a, b) = t
  BY <1>2, <1>5 DEF t
<1> QED  BY <1>5, <1>6, <1>7, <1>8

LEMMA LargoEscrito ==
  ASSUME NEW m, EnZona(m), Escribible(m), m.escribe - 1 <= Len(IF m.copia THEN m.bytes ELSE m.buf)
  PROVE  Escrito(m) \in Seq(Nat) /\ m.desde \in Nat \ {0} /\ Len(Escrito(m)) = m.escribe - m.desde
         /\ Len(Escrito(m)) \in Nat
<1>1. m \in Mem
  BY DEF EnZona
<1>2. PICK s \in Seq(Nat) : s = IF m.copia THEN m.bytes ELSE m.buf
  BY <1>1, Campos
<1>3. m.desde \in Nat \ {0} /\ m.escribe \in Nat /\ m.desde <= m.escribe /\ m.escribe - 1 <= Len(s)
  <2>1. m.escribe \in Nat /\ m.izq \in Nat /\ m.der \in Nat /\ m.desde \in Nat /\ m.desde >= 1
    BY <1>1, Campos DEF EnZona
  <2>2. m.desde <= m.escribe
    BY <2>1 DEF EnZona, Escribible
  <2> QED  BY <1>2, <2>1, <2>2
<1>4. Escrito(m) = SubSeq(s, m.desde, m.escribe - 1)
  BY <1>2 DEF Escrito
<1>5. PICK a \in Nat \ {0}, b \in Nat : a = m.desde /\ b = m.escribe - 1 /\ b <= Len(s) /\ a <= b + 1
  <2>1. m.escribe - 1 \in Nat
    BY <1>3
  <2> QED  BY <1>3, <2>1
<1>6. SubSeq(s, a, b) \in Seq(Nat) /\ Len(SubSeq(s, a, b)) = b - a + 1
  <2>1. a >= 1 /\ a \in Nat
    BY <1>5
  <2> QED  BY <1>5, <2>1, TrozoDeSeq
<1>7. m.escribe - m.desde = b - a + 1 /\ b - a + 1 \in Nat
  BY SMTT(30), <1>3, <1>5
<1> QED  BY <1>3, <1>4, <1>5, <1>6, <1>7

LEMMA RanuraBien ==
  ASSUME NEW m, EnZona(m), NEW q \in Nat
  PROVE  LET n == Ranura(m).mem
         IN  EnZona(n) /\ Respeta(m, n, q) /\ n.escribe = m.escribe /\ n.copia = m.copia
<1>1. m \in Mem /\ m.copia \in BOOLEAN /\ Ancho \in Nat \ {0}
  BY Campos, AnchoAssumption DEF EnZona
<1>2. /\ m.izq \in Nat /\ m.der \in Nat /\ m.bytes \in Seq(Nat) /\ Len(m.bytes) \in Nat
      /\ m.izq >= 1 /\ m.izq <= m.der /\ m.der <= Len(m.bytes) + 1
  BY <1>1, Campos DEF EnZona
<1>3. CASE m.izq + Ancho <= m.der
  <2>a. m.der - Ancho \in Nat /\ m.izq <= m.der - Ancho /\ m.der - Ancho <= m.der
    BY <1>1, <1>2, <1>3
  <2>1. PICK d \in Nat : d = m.der - Ancho /\ m.izq <= d /\ d <= m.der
    BY <2>a
  <2>2. PICK cs : cs = [i \in 1..Ancho |-> Marca]
    OBVIOUS
  <2>3. cs \in Seq(Nat)
    BY <1>1, <2>2 DEF Marca
  <2> DEFINE s == Poner(m.bytes, d, cs)
             n == [m EXCEPT !.der = d, !.bytes = s]
  <2>4. n = Ranura(m).mem
    BY <1>3, <2>1, <2>2 DEF Ranura
  <2>5. Cambia(m.bytes, s, d, Len(cs))
    BY <1>2, <2>3, PuestoCambia
  <2> HIDE DEF s
  <2>6. s \in Seq(Nat) /\ Len(s) = Len(m.bytes) /\ \A i \in 1..Len(m.bytes) : i < d => s[i] = m.bytes[i]
    BY <2>5 DEF Cambia
  <2>7. /\ n \in Mem /\ n.copia = m.copia /\ n.buf = m.buf /\ n.bytes = s /\ n.izq = m.izq /\ n.der = d
        /\ n.desde = m.desde /\ n.escribe = m.escribe
    BY <1>1, <2>6 DEF Mem
  <2> HIDE DEF n
  <2>8. EnZona(n)
    <3>1. n.izq \in 1..n.der /\ n.der \in 1..(Len(n.bytes) + 1)
      BY <1>2, <2>1, <2>6, <2>7
    <3> QED  BY <2>7, <3>1 DEF EnZona
  <2>9. \A i \in 1..(m.izq - 1) : i \in 1..Len(m.bytes) /\ i < d
    BY SMTT(30), <1>2, <2>1
  <2>10. Respeta(m, n, q)
    <3>1. m.escribe \in Nat
      BY <1>1, Campos
    <3> QED  BY <1>2, <2>6, <2>7, <2>9, <3>1 DEF Respeta
  <2> QED  BY <2>4, <2>7, <2>8, <2>10
<1>4. CASE ~(m.izq + Ancho <= m.der)
  <2> DEFINE n == [m EXCEPT !.lleno = TRUE]
  <2>1. n = Ranura(m).mem
    BY <1>4 DEF Ranura
  <2>2. /\ n \in Mem /\ n.copia = m.copia /\ n.buf = m.buf /\ n.bytes = m.bytes /\ n.izq = m.izq
        /\ n.der = m.der /\ n.desde = m.desde /\ n.escribe = m.escribe
    BY <1>1 DEF Mem
  <2> HIDE DEF n
  <2>3. EnZona(n) /\ Respeta(m, n, q)
    BY <2>2, Campos DEF EnZona, Respeta
  <2> QED  BY <2>1, <2>2, <2>3
<1> QED  BY <1>3, <1>4

LEMMA NuevaBien ==
  ASSUME NEW m, EnZona(m), NEW cs, Len(cs) \in Nat, m.izq + Len(cs) < m.der, NEW q \in Nat, m.copia
  PROVE  LET r == Nueva(m, cs)
         IN  EnZona(r.mem) /\ Respeta(m, r.mem, q) /\ Entera(r.mem, r.ref) /\ r.mem.copia = m.copia
<1>1. m \in Mem /\ NUL \in Nat
  BY DEF EnZona, NUL
<1>2. /\ m.izq \in Nat /\ m.der \in Nat /\ m.bytes \in Seq(Nat) /\ Len(m.bytes) \in Nat
      /\ m.izq >= 1 /\ m.izq <= m.der /\ m.der <= Len(m.bytes) + 1
  BY <1>1, Campos DEF EnZona
<1>a. m.izq + Len(cs) + 1 \in 1..m.der
  BY <1>2
<1>3. PICK k \in Nat : k = Len(cs) /\ m.izq + k + 1 \in 1..m.der
  BY <1>a
<1>4. PICK p \in Nat : p = m.izq + k /\ p \in 1..Len(m.bytes)
  BY <1>2, <1>3
<1> DEFINE s == Poner(m.bytes, p, <<NUL>>)
           n == [m EXCEPT !.izq = m.izq + k + 1, !.bytes = s]
           ref == [en |-> "pool", p |-> m.izq, n |-> k]
<1>5. Nueva(m, cs).mem = n /\ Nueva(m, cs).ref = ref
  BY <1>3, <1>4 DEF Nueva, Encontrada
<1>6. Cambia(m.bytes, s, p, 1) /\ s[p] = NUL
  BY <1>1, <1>2, <1>4, UnoPuesto
<1> HIDE DEF s
<1>7. s \in Seq(Nat) /\ Len(s) = Len(m.bytes) /\ \A i \in 1..Len(m.bytes) : i < p => s[i] = m.bytes[i]
  BY <1>6 DEF Cambia
<1>8. m.izq + k + 1 \in Nat
  BY SMTT(30), <1>2
<1>9. /\ n \in Mem /\ n.copia = m.copia /\ n.buf = m.buf /\ n.bytes = s /\ n.izq = m.izq + k + 1
      /\ n.der = m.der /\ n.desde = m.desde /\ n.escribe = m.escribe
  BY <1>1, <1>7, <1>8 DEF Mem
<1> HIDE DEF n
<1>10. EnZona(n)
  BY <1>3, <1>7, <1>9 DEF EnZona
<1>11. \A i \in 1..(m.izq - 1) : i \in 1..Len(m.bytes) /\ i < p
  <2>1. PICK z, l \in Nat : z = m.izq /\ l = Len(m.bytes) /\ z <= l + 1
    BY <1>2
  <2>2. PICK x \in Nat : x = p /\ x = z + k
    BY <1>4, <2>1
  <2>3. \A i \in 1..(z - 1) : i \in 1..l /\ i < x
    BY SMTT(30), <2>1, <2>2
  <2> QED  BY <2>1, <2>2, <2>3
<1>12. Respeta(m, n, q)
  BY SMTT(30), <1>2, <1>7, <1>9, <1>11 DEF Respeta
<1>13. Entera(n, ref)
  <2>a. PICK a, b \in Nat : a = m.izq /\ b = Len(s) /\ a >= 1 /\ a + k \in 1..b
    BY <1>2, <1>4, <1>7
  <2>b. a \in 1..(a + k + 1 - 1) /\ k \in 0..(a + k + 1 - 1 - a) /\ a + k <= b
    BY <2>a
  <2>1. m.izq \in 1..(n.izq - 1) /\ k \in 0..(n.izq - 1 - m.izq) /\ m.izq + k <= Len(s)
    <3>1. PICK z \in Nat : z = n.izq /\ z = a + k + 1
      BY <1>8, <1>9, <2>a
    <3>2. a \in 1..(z - 1) /\ k \in 0..(z - 1 - a)
      BY <2>b, <3>1
    <3>3. a = m.izq /\ b = Len(s) /\ a + k <= b
      BY <2>a, <2>b
    <3> QED  BY <3>1, <3>2, <3>3
  <2>2. s[m.izq + k] = NUL
    BY <1>4, <1>6
  <2> QED  BY <1>9, <2>1, <2>2 DEF Entera, Alojada
<1> QED  BY <1>5, <1>9, <1>10, <1>12, <1>13

\* findString()
LEMMA DeLaZonaBien ==
  ASSUME NEW m, EnZona(m), NEW cs \in Seq(Nat), m.izq + Len(cs) < m.der, NEW q \in Nat, m.copia
  PROVE  LET r == DeLaZona(m, cs)
         IN  EnZona(r.mem) /\ Respeta(m, r.mem, q) /\ Entera(r.mem, r.ref) /\ r.mem.copia = m.copia
<1>1. m \in Mem /\ Len(cs) \in Nat /\ m.izq \in Nat /\ m.der \in Nat /\ Len(m.bytes) \in Nat
  BY Campos DEF EnZona
<1>2. CASE Repetida(m, cs) = {}
  BY <1>1, <1>2, NuevaBien DEF DeLaZona
<1>3. CASE Repetida(m, cs) # {}
  <2>1. Repetida(m, cs) \subseteq Nat
    BY <1>1 DEF Repetida
  <2>2. PICK x \in Repetida(m, cs) : \A y \in Repetida(m, cs) : <<y, x>> \notin OpToRel(<, Nat)
    BY <1>3, <2>1, NatLessThanWellFounded, WFMin
  <2>a. \A y \in Repetida(m, cs) : ~(y < x)
    BY <2>1, <2>2 DEF OpToRel
  <2>3. \A y \in Repetida(m, cs) : x <= y
    BY <2>1, <2>a
  <2>4. PICK s \in Repetida(m, cs) : s = (CHOOSE u \in Repetida(m, cs) : \A t \in Repetida(m, cs) : u <= t)
    BY <2>3
  <2>5. DeLaZona(m, cs) = [mem |-> m, ref |-> [en |-> "pool", p |-> s, n |-> Len(cs)]]
    BY <1>3, <2>4 DEF DeLaZona, Encontrada
  <2>6. s \in 1..(m.izq - 1 - Len(cs)) /\ m.bytes[s + Len(cs)] = NUL
    BY <2>4 DEF Repetida
  <2>7. s \in 1..(m.izq - 1) /\ Len(cs) \in 0..(m.izq - 1 - s) /\ s + Len(cs) <= Len(m.bytes)
    <3>1. m.izq <= m.der /\ m.der <= Len(m.bytes) + 1
      BY <1>1 DEF EnZona
    <3> QED  BY SMTT(30), <1>1, <2>6, <3>1
  <2>8. Entera(m, [en |-> "pool", p |-> s, n |-> Len(cs)])
    BY <2>6, <2>7 DEF Entera, Alojada
  <2>9. Respeta(m, m, q)
    BY <1>1, Campos DEF Respeta
  <2>10. DeLaZona(m, cs).mem = m /\ DeLaZona(m, cs).ref = [en |-> "pool", p |-> s, n |-> Len(cs)]
    BY <2>5
  <2> QED  BY <2>8, <2>9, <2>10
<1> QED  BY <1>2, <1>3

LEMMA GuardadaBien ==
  ASSUME NEW m, EnZona(m), Escribible(m), Valida(m), NEW q \in Nat,
         m.copia \/ m.escribe <= q, m.copia \/ m.escribe <= Len(m.buf)
  PROVE  LET r == Guardada(m)
         IN  /\ EnZona(r.mem) /\ Respeta(m, r.mem, q) /\ Entera(r.mem, r.ref)
             /\ r.mem.copia = m.copia
             /\ ~m.copia => r.mem.escribe = m.escribe + 1
<1>1. m \in Mem /\ m.copia \in BOOLEAN
  BY Campos DEF EnZona
<1>2. /\ m.escribe \in Nat /\ m.izq \in Nat /\ m.der \in Nat /\ m.desde \in Nat /\ m.desde >= 1
      /\ Len(m.buf) \in Nat /\ Len(m.bytes) \in Nat /\ m.der <= Len(m.bytes) + 1
  BY <1>1, Campos DEF EnZona
<1>3. CASE m.copia
  <2>1. m.desde = m.izq /\ m.izq <= m.escribe /\ m.escribe < m.der
    BY <1>2, <1>3 DEF Escribible, Valida
  <2>2. m.escribe - 1 <= Len(IF m.copia THEN m.bytes ELSE m.buf)
    BY <1>2, <1>3, <2>1
  <2>3. Escrito(m) \in Seq(Nat) /\ Len(Escrito(m)) = m.escribe - m.desde
    BY <2>2, LargoEscrito
  <2>4. m.izq + Len(Escrito(m)) < m.der
    BY <1>2, <2>1, <2>3
  <2> QED  BY <1>3, <2>3, <2>4, DeLaZonaBien DEF Guardada
<1>4. CASE ~m.copia
  <2>1. m.escribe - 1 <= Len(IF m.copia THEN m.bytes ELSE m.buf)
    BY <1>2, <1>4
  <2>2. PICK k \in Nat : k = Len(Escrito(m)) /\ k = m.escribe - m.desde
    BY <2>1, LargoEscrito
  <2>3. m.desde <= m.escribe
    BY <1>4 DEF EnZona
  <2>4. PICK t : /\ t = Terminada(m) /\ EnZona(t) /\ Respeta(m, t, q) /\ t.escribe = m.escribe
                 /\ t.desde = m.desde /\ t.copia = m.copia
                 /\ (m.escribe \in 1..Len(m.buf) => t.buf[m.escribe] = NUL)
    BY <1>4, TerminadaBien
  <2> DEFINE n == [t EXCEPT !.escribe = t.escribe + 1]
             ref == [en |-> "texto", p |-> m.desde, n |-> k]
  <2>5. Guardada(m).mem = n /\ Guardada(m).ref = ref
    BY <1>4, <2>2, <2>4 DEF Guardada
  <2>6. t \in Mem /\ m.escribe + 1 \in Nat
    BY <1>2, <2>4 DEF EnZona
  <2>7. /\ n \in Mem /\ n.copia = m.copia /\ n.buf = t.buf /\ n.bytes = t.bytes /\ n.izq = t.izq
        /\ n.der = t.der /\ n.desde = m.desde /\ n.escribe = m.escribe + 1
    BY <1>1, <1>2, <2>4, <2>6 DEF Mem
  <2> HIDE DEF n
  <2>8. EnZona(n)
    BY <1>2, <1>4, <2>3, <2>4, <2>7 DEF EnZona
  <2>9. Respeta(m, n, q)
    <3>1. m.escribe <= n.escribe
      BY <1>2, <2>7
    <3> QED  BY <1>4, <2>4, <2>7, <3>1 DEF Respeta
  <2>10. Entera(n, ref)
    <3>1. m.escribe \in 1..Len(m.buf) /\ Len(n.buf) = Len(m.buf)
      BY <1>2, <1>4, <2>3, <2>4, <2>7 DEF Respeta
    <3>2. m.desde + k = m.escribe
      BY <1>2, <2>2
    <3>3. m.desde \in 1..(n.escribe - 1) /\ k \in 0..(n.escribe - 1 - m.desde)
      BY SMTT(30), <1>2, <2>3, <2>7, <3>2
    <3>4. n.buf[m.desde + k] = NUL /\ m.desde + k <= Len(n.buf)
      BY <1>2, <2>4, <2>7, <3>1, <3>2
    <3> QED  BY <1>4, <2>7, <3>3, <3>4 DEF Entera, Alojada
  <2> QED  BY <1>4, <2>5, <2>7, <2>8, <2>9, <2>10
<1> QED  BY <1>1, <1>3, <1>4

\* The member of a key that was begun: its terminator, its place and its slot.
LEMMA MiembroBien ==
  ASSUME NEW m, EnZona(m), Escribible(m), Valida(m), NEW q \in Nat,
         m.copia \/ m.escribe <= q, m.copia \/ m.escribe <= Len(m.buf)
  PROVE  LET r == NuevoMiembro(Terminada(m))
         IN  /\ EnZona(r.mem) /\ Respeta(m, r.mem, q) /\ Entera(r.mem, r.ref)
             /\ r.mem.copia = m.copia
             /\ ~m.copia => r.mem.escribe = m.escribe + 1
<1>1. m \in Mem
  BY DEF EnZona
<1>2. PICK t : /\ t = Terminada(m) /\ EnZona(t) /\ Escribible(t) /\ Respeta(m, t, q)
               /\ t.escribe = m.escribe /\ t.lleno = m.lleno /\ t.copia = m.copia
  BY TerminadaBien
<1>3. Valida(t) /\ (t.copia \/ t.escribe <= q) /\ (t.copia \/ t.escribe <= Len(t.buf))
  BY <1>2 DEF Valida, Respeta
<1>4. PICK k : /\ k = Guardada(t) /\ EnZona(k.mem) /\ Respeta(t, k.mem, q) /\ Entera(k.mem, k.ref)
               /\ k.mem.copia = m.copia /\ (~m.copia => k.mem.escribe = m.escribe + 1)
  BY <1>2, <1>3, GuardadaBien
<1>5. PICK a : /\ a = Ranura(k.mem) /\ EnZona(a.mem) /\ Respeta(k.mem, a.mem, q)
               /\ a.mem.escribe = k.mem.escribe /\ a.mem.copia = k.mem.copia
  BY <1>4, RanuraBien
<1>6. NuevoMiembro(Terminada(m)).mem = a.mem /\ NuevoMiembro(Terminada(m)).ref = k.ref
  BY <1>2, <1>4, <1>5 DEF NuevoMiembro
<1>7. t \in Mem /\ k.mem \in Mem /\ a.mem \in Mem
  BY <1>2, <1>4, <1>5 DEF EnZona
<1>8. Respeta(m, a.mem, q)
  <2>1. Respeta(m, k.mem, q)
    BY <1>1, <1>2, <1>4, <1>7, RespetaTrans
  <2> QED  BY <1>1, <1>5, <1>7, <2>1, RespetaTrans
<1>9. Entera(a.mem, k.ref)
  BY <1>4, <1>5, EnteraQueda
<1> QED  BY <1>4, <1>5, <1>6, <1>8, <1>9

-----------------------------------------------------------------------------
(* The latch.                                                              *)
LEMMA ByteBien ==
  ASSUME NEW s \in Seq(Nat), NEW i \in Int
  PROVE  Byte(s, i) \in Nat /\ (Byte(s, i) # NUL => i \in 1..Len(s))
BY DEF Byte, NUL

LEMMA Cargado ==
  ASSUME NEW s \in Seq(Nat), NEW l, Pestillo(l, s)
  PROVE  LET k == Cargar(l, s)
         IN  /\ Pestillo(k, s) /\ k.lleno /\ Sitio(k) = Sitio(l) /\ k.lee >= l.lee
             /\ k.lee = Sitio(k) + 1 /\ k.lee \in Nat
<1>1. l.lee \in Nat /\ l.lee >= 1 /\ l.lleno \in BOOLEAN /\ l.c \in Nat
  BY DEF Pestillo
<1>2. CASE l.lleno
  BY <1>1, <1>2 DEF Cargar, Sitio
<1>3. CASE ~l.lleno
  <2>a. l.lee \in Int
    BY <1>1
  <2>b. Byte(s, l.lee) \in Nat /\ (Byte(s, l.lee) # NUL => l.lee \in 1..Len(s))
    BY <2>a, ByteBien
  <2>1. PICK b : b = Byte(s, l.lee) /\ b \in Nat /\ (b # NUL => l.lee \in 1..Len(s))
    BY <2>b
  <2>2. Cargar(l, s) = [lleno |-> TRUE, c |-> b, lee |-> l.lee + 1]
    BY <1>3, <2>1 DEF Cargar
  <2> QED  BY <1>1, <1>3, <2>1, <2>2 DEF Pestillo, Sitio
<1> QED  BY <1>1, <1>2, <1>3

LEMMA Movido ==
  ASSUME NEW s, NEW l, Pestillo(l, s), l.lleno
  PROVE  LET k == Mover(l)
         IN  Pestillo(k, s) /\ ~k.lleno /\ k.lee = l.lee /\ Sitio(k) = l.lee
<1>1. PICK k : k = Mover(l)
  OBVIOUS
<1>2. k \in [lleno : BOOLEAN, c : Nat, lee : Nat] /\ ~k.lleno /\ k.lee = l.lee
  BY <1>1 DEF Pestillo, Mover
<1> QED  BY <1>1, <1>2 DEF Pestillo, Sitio

\* From a place on there is a first character that is not of a kind without the NUL.
LEMMA PrimeroFuera ==
  ASSUME NEW s \in Seq(Nat), NEW p \in 1..(Len(s) + 1), NEW S, NUL \notin S
  PROVE  \E i \in p..(Len(s) + 1) : Byte(s, i) \notin S /\ \A j \in p..(i - 1) : Byte(s, j) \in S
<1> DEFINE T == {i \in p..(Len(s) + 1) : Byte(s, i) \notin S}
<1>1. Len(s) \in Nat
  OBVIOUS
<1>2. Byte(s, Len(s) + 1) = NUL
  BY <1>1 DEF Byte
<1>3. T \subseteq Nat /\ T # {}
  BY <1>1, <1>2
<1>4. PICK x \in T : \A y \in T : <<y, x>> \notin OpToRel(<, Nat)
  BY <1>3, NatLessThanWellFounded, WFMin
<1>5. \A y \in T : ~(y < x)
  BY <1>3, <1>4 DEF OpToRel
<1>6. \A j \in p..(x - 1) : j \in p..(Len(s) + 1) /\ j < x
  BY <1>1
<1>7. \A j \in p..(x - 1) : Byte(s, j) \in S
  BY <1>5, <1>6
<1> QED  BY <1>7

LEMMA Blanca == ASSUME NEW s, NEW l, Pestillo(l, s), l.lleno, l.c \in Blancos PROVE l.lee - 1 <= Len(s)
BY DEF Pestillo, Blancos, NUL

LEMMA EnBlancoBien ==
  ASSUME mem.buf \in Seq(Nat), Pestillo(lat, mem.buf)
  PROVE  /\ Pestillo(EnBlanco, mem.buf) /\ EnBlanco.lleno /\ EnBlanco.lee >= lat.lee
         /\ Sitio(EnBlanco) >= Sitio(lat) /\ EnBlanco.lee = Sitio(EnBlanco) + 1 /\ EnBlanco.lee \in Nat
<1>1. PICK v : /\ v = Ver /\ Pestillo(v, mem.buf) /\ v.lleno /\ Sitio(v) = Sitio(lat) /\ v.lee >= lat.lee
               /\ v.lee = Sitio(v) + 1 /\ v.lee \in Nat
  BY Cargado DEF Ver
<1>2. CASE v.c \notin Blancos
  <2>1. EnBlanco = v
    BY <1>1, <1>2 DEF EnBlanco
  <2>2. Sitio(v) >= Sitio(lat)
    BY <1>1 DEF Sitio
  <2> QED  BY <1>1, <2>1, <2>2
<1>3. CASE v.c \in Blancos
  <2>1. v.lee \in 1..(Len(mem.buf) + 1) /\ lat.lee \in Nat /\ lat.lleno \in BOOLEAN
    <3>1. v.lee - 1 <= Len(mem.buf) /\ v.lee >= 1
      BY <1>1, <1>3, Blanca DEF Pestillo
    <3> QED  BY <1>1, <3>1 DEF Pestillo
  <2>2. NUL \notin Blancos
    BY DEF NUL, Blancos
  <2>3. \E i \in v.lee..(Len(mem.buf) + 1) :
          Byte(mem.buf, i) \notin Blancos /\ \A j \in v.lee..(i - 1) : Byte(mem.buf, j) \in Blancos
    BY <2>1, <2>2, PrimeroFuera
  <2>4. PICK i \in v.lee..(Len(mem.buf) + 1) :
          i = (CHOOSE k \in v.lee..(Len(mem.buf) + 1) :
                  /\ Byte(mem.buf, k) \notin Blancos
                  /\ \A j \in v.lee..(k - 1) : Byte(mem.buf, j) \in Blancos)
    BY <2>3
  <2>5. EnBlanco = [lleno |-> TRUE, c |-> Byte(mem.buf, i), lee |-> i + 1]
    BY <1>1, <1>3, <2>4 DEF EnBlanco
  <2>6. PICK b : b = Byte(mem.buf, i) /\ b \in Nat /\ (b # NUL => i \in 1..Len(mem.buf))
    BY <2>1, ByteBien
  <2>7. i \in Nat /\ i >= 1 /\ i >= v.lee
    BY <2>1
  <2> QED  BY SMTT(30), <1>1, <2>1, <2>5, <2>6, <2>7 DEF Pestillo, Sitio
<1> QED  BY <1>2, <1>3

\* A word, and what comes after it.
LEMMA PalabraBien ==
  ASSUME NEW s \in Seq(Nat), s = mem.buf, NEW l, Pestillo(l, s), l.lleno, l.c # NUL, NEW tope \in Nat
  PROVE  Len(Palabra(l, tope)) \in Nat
<1>1. l.lee \in Nat /\ l.lee >= 2 /\ l.lee - 1 <= Len(s) /\ Len(s) \in Nat
  BY DEF Pestillo
<1>a. l.lee - 1 \in 1..(Len(s) + 1)
  BY <1>1
<1>2. PICK p \in 1..(Len(s) + 1) : p = l.lee - 1
  BY <1>a
<1>b. p \in Nat /\ p >= 1 /\ p <= Len(s)
  BY <1>1, <1>2
<1>3. NUL \notin SinComillas
  BY DEF NUL, SinComillas, Digitos
<1>4. PICK i \in p..(Len(s) + 1) : Byte(s, i) \notin SinComillas /\ \A j \in p..(i - 1) : Byte(s, j) \in SinComillas
  BY <1>2, <1>3, PrimeroFuera
<1>c. i - p \in 0..(Len(s) + 1 - p) /\ p + (i - p) = i /\ p + (i - p) - 1 = i - 1
  BY <1>1, <1>b
<1>5. PICK k \in 0..(Len(s) + 1 - p) : p + k = i /\ p + k - 1 = i - 1
  BY <1>c
<1>d. /\ \A j \in p..(p + k - 1) : Byte(s, j) \in SinComillas
      /\ Byte(s, p + k) \notin SinComillas
  BY <1>4, <1>5
<1>6. PICK n \in 0..(Len(s) + 1 - p) :
        n = CHOOSE k1 \in 0..(Len(s) + 1 - p) :
              /\ \A j \in p..(p + k1 - 1) : Byte(s, j) \in SinComillas
              /\ Byte(s, p + k1) \notin SinComillas
  BY <1>d
<1>e. n \in Nat /\ n <= Len(s) + 1 - p /\ (p <= Len(s) => n <= Len(s) - p + 1)
  BY <1>1, <1>b
<1>7. PICK m : m = (IF n <= tope THEN n ELSE tope)
  OBVIOUS
<1>8. m \in Nat /\ m <= Len(s) + 1 - p
  BY <1>1, <1>b, <1>e, <1>7
<1>9. Palabra(l, tope) = SubSeq(s, p, p + m - 1)
  BY <1>2, <1>6, <1>7 DEF Palabra
<1>f. p + m - 1 \in Nat /\ p + m - 1 <= Len(s)
  BY <1>1, <1>b, <1>8
<1>10. PICK b \in Nat : b = p + m - 1 /\ b <= Len(s)
  BY <1>f
<1>11. SubSeq(s, p, b) \in Seq(Nat)
  BY SMTT(30), <1>b, <1>10
<1> QED  BY <1>9, <1>10, <1>11

LEMMA TrasBien ==
  ASSUME mem.buf \in Seq(Nat), NEW l, Pestillo(l, mem.buf), l.lleno, NEW n \in Nat
  PROVE  LET k == Tras(l, n)
         IN  Pestillo(k, mem.buf) /\ k.lee >= l.lee /\ Sitio(k) >= Sitio(l)
<1>1. l.lee \in Nat /\ l.lee >= 2
  BY DEF Pestillo
<1>2. CASE n = 0
  BY <1>1, <1>2 DEF Tras, Sitio
<1>3. CASE n # 0
  <2>1. PICK k : k = [l EXCEPT !.lleno = FALSE, !.lee = @ + n - 1]
    OBVIOUS
  <2>a. l.lee + n - 1 \in Nat /\ l.lee + n - 1 >= l.lee
    BY <1>1, <1>3
  <2>2. k \in [lleno : BOOLEAN, c : Nat, lee : Nat] /\ ~k.lleno /\ k.lee = l.lee + n - 1
    BY <2>1, <2>a DEF Pestillo
  <2>3. Pestillo(k, mem.buf) /\ k.lee >= l.lee /\ Sitio(k) >= Sitio(l)
    BY <1>1, <2>a, <2>2 DEF Pestillo, Sitio
  <2>4. PICK t : t = Cargar(k, mem.buf) /\ Pestillo(t, mem.buf) /\ Sitio(t) = Sitio(k) /\ t.lee >= k.lee
    BY <2>3, Cargado
  <2>5. Tras(l, n) = t
    BY <1>3, <2>1, <2>4 DEF Tras
  <2>6. t.lee \in Nat /\ k.lee \in Nat /\ l.lee \in Nat
    BY <2>3, <2>4 DEF Pestillo
  <2> QED  BY <2>3, <2>4, <2>5, <2>6
<1> QED  BY <1>2, <1>3

-----------------------------------------------------------------------------
(* Slots and frames.                                                       *)
LEMMA RangoSec ==
  ASSUME NEW T, NEW s \in Seq(T)
  PROVE  EsSec(s)
<1>1. DOMAIN s = 1..Len(s) /\ Len(s) \in Nat
  OBVIOUS
<1> DEFINE R == {s[i] : i \in DOMAIN s}
<1>2. s = [i \in 1..Len(s) |-> s[i]] /\ \A i \in 1..Len(s) : s[i] \in R
  BY <1>1
<1> HIDE DEF R
<1>3. s \in Seq(R)
  BY <1>1, <1>2
<1> QED  BY <1>1, <1>3 DEF R, EsSec

LEMMA EsSecTipo ==
  ASSUME NEW s, EsSec(s)
  PROVE  \E R : s \in Seq(R) /\ DOMAIN s = 1..Len(s) /\ Len(s) \in Nat /\ \A i \in DOMAIN s : s[i] \in R
<1>1. PICK R : R = {s[i] : i \in DOMAIN s}
  OBVIOUS
<1>2. s \in Seq(R)
  BY <1>1 DEF EsSec
<1> QED  BY <1>2

LEMMA CambioSec ==
  ASSUME NEW s, EsSec(s), NEW v, NEW r
  PROVE  LET t == [s EXCEPT ![v] = r]
         IN  /\ EsSec(t) /\ DOMAIN t = DOMAIN s
             /\ \A i \in DOMAIN s : t[i] = IF i = v THEN r ELSE s[i]
<1>1. PICK R : s \in Seq(R) /\ DOMAIN s = 1..Len(s) /\ Len(s) \in Nat /\ \A i \in DOMAIN s : s[i] \in R
  BY EsSecTipo
<1>2. PICK Q : R \subseteq Q /\ r \in Q
  <2>1. R \subseteq R \cup {r} /\ r \in R \cup {r}
    OBVIOUS
  <2> QED  BY <2>1
<1>3. [s EXCEPT ![v] = r] = [i \in 1..Len(s) |-> IF i = v THEN r ELSE s[i]]
  BY <1>1
<1>4. \A i \in 1..Len(s) : (IF i = v THEN r ELSE s[i]) \in Q
  BY <1>1, <1>2
<1>5. [i \in 1..Len(s) |-> IF i = v THEN r ELSE s[i]] \in Seq(Q)
  BY <1>1, <1>4
<1> QED  BY <1>1, <1>3, <1>5, RangoSec

LEMMA UnoMas ==
  ASSUME NEW s, EsSec(s), NEW r
  PROVE  LET t == Append(s, r)
         IN  EsSec(t) /\ \A i \in DOMAIN t : t[i] = r \/ (i \in DOMAIN s /\ t[i] = s[i])
<1>1. PICK R : s \in Seq(R) /\ DOMAIN s = 1..Len(s) /\ Len(s) \in Nat /\ \A i \in DOMAIN s : s[i] \in R
  BY EsSecTipo
<1>2. PICK Q : R \subseteq Q /\ r \in Q
  <2>1. R \subseteq R \cup {r} /\ r \in R \cup {r}
    OBVIOUS
  <2> QED  BY <2>1
<1>3. s \in Seq(Q)
  BY <1>1, <1>2
<1>4. PICK t : t = Append(s, r)
  OBVIOUS
<1>5. t \in Seq(Q) /\ Len(t) = Len(s) + 1 /\ \A i \in 1..Len(t) : t[i] = IF i = Len(s) + 1 THEN r ELSE s[i]
  BY <1>2, <1>3, <1>4
<1>a. Len(s) + 1 \in Nat
  BY <1>1
<1>b. PICK n \in Nat : n = Len(s) + 1
  BY <1>a
<1>c. DOMAIN t = 1..n /\ DOMAIN s = 1..(n - 1) /\ \A i \in 1..n : t[i] = IF i = n THEN r ELSE s[i]
  BY <1>1, <1>5, <1>b
<1>6. \A i \in DOMAIN t : t[i] = r \/ (i \in DOMAIN s /\ t[i] = s[i])
  <2>1. \A i \in 1..n : i # n => i \in DOMAIN s
    BY <1>c
  <2>2. \A i \in 1..n : (i = n => t[i] = r) /\ (i # n => t[i] = s[i])
    BY <1>c
  <2>3. \A i \in 1..n : t[i] = r \/ (i \in DOMAIN s /\ t[i] = s[i])
    BY <2>1, <2>2
  <2> QED  BY <1>c, <2>3
<1>7. EsSec(t)
  BY <1>5, RangoSec
<1> QED  BY <1>4, <1>6, <1>7

LEMMA UnoMenos ==
  ASSUME NEW s, EsSec(s)
  PROVE  LET t == Front(s)
         IN  EsSec(t) /\ \A i \in DOMAIN t : i \in DOMAIN s /\ t[i] = s[i]
<1>1. PICK R : s \in Seq(R) /\ DOMAIN s = 1..Len(s) /\ Len(s) \in Nat /\ \A i \in DOMAIN s : s[i] \in R
  BY EsSecTipo
<1>2. CASE Len(s) = 0
  <2>1. SubSeq(s, 1, Len(s) - 1) \in Seq(R) /\ Len(SubSeq(s, 1, Len(s) - 1)) = 0
    BY <1>1, <1>2
  <2>2. PICK t : t = Front(s) /\ t \in Seq(R) /\ Len(t) = 0
    BY <2>1 DEF Front
  <2>3. EsSec(t)
    BY <2>2, RangoSec
  <2>4. DOMAIN t = 1..0
    <3>1. t \in Seq(R) /\ Len(t) = 0
      BY <2>2
    <3> QED  BY <3>1
  <2>5. DOMAIN t = {}
    BY <2>4
  <2> QED  BY <2>2, <2>3, <2>5
<1>3. CASE Len(s) # 0
  <2>1. Len(s) - 1 \in Nat /\ Len(s) - 1 <= Len(s)
    BY <1>1, <1>3
  <2>2. PICK k \in Nat : k = Len(s) - 1 /\ k <= Len(s)
    BY <2>1
  <2>3. SubSeq(s, 1, k) \in Seq(R) /\ Len(SubSeq(s, 1, k)) = k /\ \A i \in 1..k : SubSeq(s, 1, k)[i] = s[i]
    BY <1>1, <2>2
  <2>4. PICK t : t = Front(s) /\ t \in Seq(R) /\ Len(t) = k /\ \A i \in 1..k : t[i] = s[i]
    BY <2>2, <2>3 DEF Front
  <2>5. DOMAIN t = 1..k /\ EsSec(t) /\ 1..k \subseteq 1..Len(s)
    BY <1>1, <2>2, <2>4, RangoSec
  <2> QED  BY <1>1, <2>4, <2>5
<1> QED  BY <1>2, <1>3

\* The document: its strings hold out in a memory that keeps them, and it may get a
\* new value where one is, or a slot more.
LEMMA DocQueda ==
  ASSUME NEW m, EnZona(m), NEW n, EnZona(n), NEW q \in Nat, Respeta(m, n, q), NEW dc, DocBien(m, dc)
  PROVE  DocBien(n, dc)
BY EnteraQueda DEF DocBien

LEMMA DocCambiado ==
  ASSUME NEW m, NEW dc, DocBien(m, dc), NEW v, NEW r,
         v \in DOMAIN dc => EsNodo(r) /\ Entera(m, r.clave) /\ Entera(m, r.dato)
  PROVE  DocBien(m, [dc EXCEPT ![v] = r])
<1>1. PICK t : /\ t = [dc EXCEPT ![v] = r] /\ EsSec(t) /\ DOMAIN t = DOMAIN dc
               /\ \A i \in DOMAIN dc : t[i] = IF i = v THEN r ELSE dc[i]
  BY CambioSec DEF DocBien, EsDoc
<1> QED  BY <1>1 DEF DocBien, EsDoc

LEMMA DocConHijo ==
  ASSUME NEW m, DocBien(m, doc), NEW padre, NEW clave, Entera(m, clave)
  PROVE  DocBien(m, ConHijo(padre, clave))
<1> DEFINE r == [doc[padre] EXCEPT !.hijos = Append(@, Len(doc) + 1)]
           nodo == [Ranura0 EXCEPT !.clave = clave]
<1>1. PICK t : t = [doc EXCEPT ![padre] = r]
  OBVIOUS
<1>2. ConHijo(padre, clave) = Append(t, nodo)
  BY <1>1 DEF ConHijo
<1>3. DocBien(m, t)
  <2>1. ASSUME padre \in DOMAIN doc
        PROVE  EsNodo(r) /\ Entera(m, r.clave) /\ Entera(m, r.dato)
    <3>1. EsNodo(doc[padre]) /\ Entera(m, doc[padre].clave) /\ Entera(m, doc[padre].dato)
      BY <2>1 DEF DocBien, EsDoc
    <3>2. r.clave = doc[padre].clave /\ r.dato = doc[padre].dato /\ EsNodo(r)
      BY <3>1 DEF EsNodo
    <3> QED  BY <3>1, <3>2
  <2> QED  BY <1>1, <2>1, DocCambiado
<1>4. EsNodo(nodo) /\ nodo.clave = clave /\ nodo.dato.en = ""
  BY DEF EsNodo, Ranura0
<1> HIDE DEF nodo
<1>5. Entera(m, nodo.clave) /\ Entera(m, nodo.dato)
  BY <1>4 DEF Entera
<1>a. EsSec(t)
  BY <1>3 DEF DocBien, EsDoc
<1>b. LET u == Append(t, nodo)
      IN  EsSec(u) /\ \A i \in DOMAIN u : u[i] = nodo \/ (i \in DOMAIN t /\ u[i] = t[i])
  BY <1>a, UnoMas
<1>6. PICK u : /\ u = Append(t, nodo) /\ EsSec(u)
               /\ \A i \in DOMAIN u : u[i] = nodo \/ (i \in DOMAIN t /\ u[i] = t[i])
  BY <1>b
<1> QED  BY <1>2, <1>3, <1>4, <1>5, <1>6 DEF DocBien, EsDoc

LEMMA DocConValor ==
  ASSUME NEW m, DocBien(m, doc), NEW v, NEW tipo, NEW dato, Entera(m, dato)
  PROVE  DocBien(m, [doc EXCEPT ![v] = [@ EXCEPT !.tipo = tipo, !.dato = dato]])
<1> DEFINE r == [doc[v] EXCEPT !.tipo = tipo, !.dato = dato]
<1>1. ASSUME v \in DOMAIN doc
      PROVE  EsNodo(r) /\ Entera(m, r.clave) /\ Entera(m, r.dato)
  <2>1. EsNodo(doc[v]) /\ Entera(m, doc[v].clave)
    BY <1>1 DEF DocBien, EsDoc
  <2>2. r.clave = doc[v].clave /\ r.dato = dato /\ EsNodo(r)
    BY <2>1 DEF EsNodo
  <2> QED  BY <2>1, <2>2
<1> QED  BY <1>1, DocCambiado

LEMMA DocConColeccion ==
  ASSUME NEW m, DocBien(m, doc), NEW v, NEW tipo
  PROVE  DocBien(m, [doc EXCEPT ![v] = [@ EXCEPT !.tipo = tipo, !.hijos = <<>>]])
<1> DEFINE r == [doc[v] EXCEPT !.tipo = tipo, !.hijos = <<>>]
<1>1. ASSUME v \in DOMAIN doc
      PROVE  EsNodo(r) /\ Entera(m, r.clave) /\ Entera(m, r.dato)
  <2>1. EsNodo(doc[v]) /\ Entera(m, doc[v].clave) /\ Entera(m, doc[v].dato)
    BY <1>1 DEF DocBien, EsDoc
  <2>2. r.clave = doc[v].clave /\ r.dato = doc[v].dato /\ EsNodo(r)
    BY <2>1 DEF EsNodo
  <2> QED  BY <2>1, <2>2
<1> QED  BY <1>1, DocCambiado

\* The frames: a key is only stood for by a value where members are skipped.
LEMMA PilaApilada ==
  ASSUME NEW p, EsPila(p), NEW r, EsMarco(r)
  PROVE  EsPila(Append(p, r))
<1>a. EsSec(p)
  BY DEF EsPila
<1>b. LET u == Append(p, r)
      IN  EsSec(u) /\ \A i \in DOMAIN u : u[i] = r \/ (i \in DOMAIN p /\ u[i] = p[i])
  BY <1>a, UnoMas
<1>1. PICK u : /\ u = Append(p, r) /\ EsSec(u)
               /\ \A i \in DOMAIN u : u[i] = r \/ (i \in DOMAIN p /\ u[i] = p[i])
  BY <1>b
<1> QED  BY <1>1 DEF EsPila

LEMMA PilaFront == ASSUME NEW p, EsPila(p) PROVE EsPila(Front(p))
<1>1. PICK u : /\ u = Front(p) /\ EsSec(u)
               /\ \A i \in DOMAIN u : i \in DOMAIN p /\ u[i] = p[i]
  BY UnoMenos DEF EsPila
<1> QED  BY <1>1 DEF EsPila

LEMMA PilaConClave ==
  ASSUME NEW p, EsPila(p), NEW b \in BOOLEAN, b => Last(p).salta
  PROVE  LET u == [p EXCEPT ![Len(p)].enClave = b]
         IN  EsPila(u) /\ Last(u).salta = Last(p).salta
<1>1. PICK k : k = Len(p)
  OBVIOUS
<1>2. PICK r : r = [p[k] EXCEPT !.enClave = b]
  OBVIOUS
<1>3. LET u == [p EXCEPT ![k] = r]
      IN  EsSec(u) /\ DOMAIN u = DOMAIN p /\ \A i \in DOMAIN p : u[i] = IF i = k THEN r ELSE p[i]
  BY CambioSec DEF EsPila
<1>4. PICK u : /\ u = [p EXCEPT ![k] = r] /\ EsSec(u)
               /\ DOMAIN u = DOMAIN p /\ \A i \in DOMAIN p : u[i] = IF i = k THEN r ELSE p[i]
  BY <1>3
<1>5. PICK R : p \in Seq(R) /\ DOMAIN p = 1..Len(p) /\ Len(p) \in Nat
  BY EsSecTipo DEF EsPila
<1>6. DOMAIN u = 1..k /\ k \in Nat /\ Len(u) = k
  <2>1. PICK Q : u \in Seq(Q)
    BY <1>4, EsSecTipo
  <2> QED  BY <1>1, <1>4, <1>5, <2>1
<1>7. k \in DOMAIN p => EsMarco(r) /\ r.salta = p[k].salta
  <2>1. ASSUME k \in DOMAIN p
        PROVE  /\ EsMarco(p[k])
               /\ b => p[k].salta
    BY <1>1, <2>1 DEF EsPila, Last
  <2> QED  BY <1>2, <2>1 DEF EsMarco
<1>8. EsPila(u)
  BY <1>4, <1>7 DEF EsPila
<1>9. CASE k = 0
  <2>1. u = p
    BY <1>1, <1>4, <1>5, <1>6, <1>9
  <2> QED  BY <1>1, <1>2, <1>4, <1>8, <2>1
<1>10. CASE k # 0
  <2>1. k \in DOMAIN p
    BY <1>6, <1>4, <1>10
  <2>2. Last(u).salta = Last(p).salta
    BY <1>1, <1>4, <1>6, <1>7, <2>1 DEF Last
  <2> QED  BY <1>1, <1>2, <1>4, <1>8, <2>2
<1> QED  BY <1>9, <1>10

LEMMA DevueltoBien ==
  ASSUME NEW p, EsPila(p)
  PROVE  /\ Devuelto(p) \in {"acaba", "dosPuntos", "coma"}
         /\ Devuelto(p) = "dosPuntos" => Last(p).salta
<1>1. p # <<>> => Len(p) \in DOMAIN p
  <2>1. PICK R : p \in Seq(R)
    BY EsSecTipo DEF EsPila
  <2> QED  BY <2>1
<1> QED  BY <1>1 DEF Devuelto, Last, EsPila, EsMarco

-----------------------------------------------------------------------------
(* What a step has to show.                                                *)
LEMMA Hechos ==
  ASSUME MemoriaInv
  PROVE  /\ mem \in Mem /\ EnZona(mem) /\ mem.buf \in Seq(Nat) /\ Len(mem.buf) \in Nat
         /\ mem.copia \in BOOLEAN /\ mem.escribe \in Nat
         /\ Pestillo(lat, mem.buf) /\ lat.lee \in Nat /\ lat.lee >= 1 /\ lat.lleno \in BOOLEAN
         /\ Sitio(lat) \in Nat /\ Sitio(lat) <= lat.lee /\ (~lat.lleno => Sitio(lat) = lat.lee)
         /\ ~mem.copia => mem.escribe <= Sitio(lat)
         /\ Len(caso.texto) \in Nat /\ Len(mem.buf) = Len(caso.texto) + 1
<1>1. mem \in Mem /\ Pestillo(lat, mem.buf) /\ caso.texto \in Seq(0..255) /\ EnZona(mem)
  BY DEF MemoriaInv, EnZona
<1>2. lat.lee \in Nat /\ lat.lee >= 1 /\ lat.lleno \in BOOLEAN /\ (lat.lleno => lat.lee >= 2)
  BY <1>1 DEF Pestillo
<1>3. Sitio(lat) \in Nat /\ Sitio(lat) <= lat.lee /\ (~lat.lleno => Sitio(lat) = lat.lee)
  BY <1>2 DEF Sitio
<1>4. Len(caso.texto) \in Nat
  BY <1>1
<1> QED  BY <1>1, <1>2, <1>3, <1>4, Campos DEF MemoriaInv

\* A step that writes up to q and reads beyond it.

\* The invariant after a step that has kept what was kept.
Conserva(m, n) == \E q \in Nat : Respeta(m, n, q)
MemoriaConserva == MemoriaInv' /\ Conserva(mem, mem')
Conservado == IInv' /\ Conserva(mem, mem')

LEMMA Avance ==
  ASSUME MemoriaInv, caso' = caso, EnZona(mem'), NEW q \in Nat, Respeta(mem, mem', q),
         Pestillo(lat', mem'.buf), q < lat'.lee, lat.lee <= lat'.lee,
         ~mem.copia => mem'.escribe <= Sitio(lat')
  PROVE  MemoriaConserva
<1>1. /\ mem.buf \in Seq(Nat) /\ Len(mem.buf) \in Nat /\ lat.lee \in Nat /\ lat.lee >= 1
      /\ mem.copia \in BOOLEAN /\ Len(caso.texto) \in Nat /\ Len(mem.buf) = Len(caso.texto) + 1
  BY Hechos
<1>2. mem'.copia = mem.copia /\ Len(mem'.buf) = Len(mem.buf)
  BY DEF Respeta
<1>3. lat'.lee \in Nat
  BY DEF Pestillo
<1>4. ASSUME NEW i \in lat'.lee..Len(caso.texto)
      PROVE  mem'.buf[i] = caso.texto[i]
  <2>1. i \in lat.lee..Len(caso.texto) /\ i \in 1..Len(mem.buf) /\ i > q
    BY SMTT(30), <1>1, <1>3
  <2>2. mem.buf[i] = caso.texto[i]
    BY <2>1 DEF MemoriaInv
  <2>3. mem'.buf[i] = mem.buf[i]
    BY <1>1, <2>1 DEF Respeta
  <2> QED  BY <2>2, <2>3
<1>5. \A i \in lat'.lee..Len(caso'.texto) : mem'.buf[i] = caso'.texto[i]
  BY <1>4
<1>6. caso'.texto \in Seq(0..255)
  BY DEF MemoriaInv
<1>7. Len(mem'.buf) = Len(caso'.texto) + 1
  BY <1>1, <1>2
<1>8. MemoriaInv'
  BY <1>2, <1>5, <1>6, <1>7 DEF MemoriaInv
<1> QED  BY <1>8 DEF MemoriaConserva, Conserva

LEMMA SinEscribir ==
  ASSUME MemoriaInv, UNCHANGED <<caso, mem>>,
         Pestillo(lat', mem.buf), lat.lee <= lat'.lee, Sitio(lat) <= Sitio(lat')
  PROVE  MemoriaConserva
<1>1. /\ EnZona(mem) /\ lat.lee \in Nat /\ lat.lee >= 1 /\ mem \in Mem /\ mem.escribe \in Nat
      /\ Sitio(lat) \in Nat /\ (~mem.copia => mem.escribe <= Sitio(lat))
  BY Hechos
<1>2. lat'.lee \in Nat /\ Sitio(lat') \in Nat
  BY DEF Pestillo, Sitio
<1>3. Respeta(mem, mem', 0)
  BY <1>1, Campos DEF Respeta
<1>4. 0 < lat'.lee /\ (~mem.copia => mem'.escribe <= Sitio(lat'))
  BY <1>1, <1>2
<1> QED  BY <1>1, <1>3, <1>4, Avance

LEMMA AlFinal == ASSUME paso' = "fin" PROVE PasoInv'
BY DEF PasoInv, PasosJson, PasosMp, Abierta

LEMMA PasoDeJson ==
  ASSUME paso' \in PasosJson, EsPila(pila'), EsCita(cita'),
         paso' \in {"cadena", "desnuda"} => Escribible(mem'),
         paso' = "dosPuntos" => Last(pila').salta \/ (Escribible(mem') /\ Valida(mem')),
         paso' = "cadena" => ~lat'.lleno /\ (~mem'.copia => mem'.escribe < lat'.lee)
  PROVE  PasoInv'
BY DEF PasoInv, PasosJson, PasosMp, Abierta

LEMMA PasoSencillo ==
  ASSUME paso' \in {"valor", "primero", "elemento", "coma", "clave", "saltada", "acaba"},
         EsPila(pila'), EsCita(cita')
  PROVE  PasoInv'
BY PasoDeJson DEF PasosJson

LEMMA PasoDevuelto ==
  ASSUME EsPila(pila'), EsCita(cita'), paso' = Devuelto(pila')
  PROVE  PasoInv'
<1>1. paso' \in {"acaba", "dosPuntos", "coma"} /\ (paso' = "dosPuntos" => Last(pila').salta)
  BY DevueltoBien
<1> QED  BY <1>1, PasoDeJson DEF PasosJson

LEMMA PasoDeMp ==
  ASSUME paso' \in PasosMp, ~lat'.lleno,
         paso' = "octetos" => /\ Escribible(mem') /\ (~mem'.copia => mem'.escribe < lat'.lee)
                              /\ lat'.lee <= Len(caso'.texto) + 1
  PROVE  PasoInv'
BY DEF PasoInv, PasosJson, PasosMp, Abierta

\* What is known where a text goes on.
LEMMA EnJson ==
  ASSUME IInv, paso \in PasosJson
  PROVE  /\ MemoriaInv /\ DocBien(mem, doc) /\ EsPila(pila) /\ EsCita(cita)
         /\ paso \in {"cadena", "desnuda"} => Escribible(mem)
         /\ paso = "dosPuntos" => Last(pila).salta \/ (Escribible(mem) /\ Valida(mem))
         /\ paso = "cadena" => ~lat.lleno /\ (~mem.copia => mem.escribe < lat.lee)
BY DEF IInv, DocInv, PasoInv, PasosJson, PasosMp, Abierta

LEMMA EnMp ==
  ASSUME IInv, paso \in PasosMp
  PROVE  /\ MemoriaInv /\ DocBien(mem, doc) /\ ~lat.lleno
         /\ paso = "octetos" => /\ Escribible(mem) /\ (~mem.copia => mem.escribe < lat.lee)
                                /\ lat.lee <= Len(caso.texto) + 1
BY DEF IInv, DocInv, PasoInv, PasosJson, PasosMp, Abierta

LEMMA EnBlancoSigue ==
  ASSUME MemoriaInv
  PROVE  /\ Pestillo(EnBlanco, mem.buf) /\ EnBlanco.lleno /\ EnBlanco.lee \in Nat /\ Sitio(EnBlanco) \in Nat
         /\ EnBlanco.lee = Sitio(EnBlanco) + 1 /\ lat.lee <= EnBlanco.lee /\ Sitio(lat) <= Sitio(EnBlanco)
         /\ EnBlanco.c \in Nat
         /\ LET k == Mover(EnBlanco)
            IN  /\ Pestillo(k, mem.buf) /\ ~k.lleno /\ k.lee = EnBlanco.lee /\ Sitio(k) = k.lee
                /\ lat.lee <= k.lee /\ Sitio(lat) <= Sitio(k)
<1>1. PICK l : /\ l = EnBlanco /\ Pestillo(l, mem.buf) /\ l.lleno /\ l.lee >= lat.lee
               /\ Sitio(l) >= Sitio(lat) /\ l.lee = Sitio(l) + 1 /\ l.lee \in Nat
  BY Hechos, EnBlancoBien
<1>2. lat.lee \in Nat /\ Sitio(lat) \in Nat
  BY Hechos
<1>3. l.lee >= 2 /\ l.c \in Nat
  BY <1>1 DEF Pestillo
<1>4. Sitio(l) \in Nat
  BY <1>1, <1>3 DEF Sitio
<1>5. PICK k : k = Mover(l) /\ Pestillo(k, mem.buf) /\ ~k.lleno /\ k.lee = l.lee /\ Sitio(k) = l.lee
  BY <1>1, Movido
<1> QED  BY <1>1, <1>2, <1>3, <1>4, <1>5

-----------------------------------------------------------------------------
(* The steps of a text.                                                    *)
LEMMA FinDelTextoQueda == ASSUME IInv, FinDelTexto PROVE Conservado
<1>1. /\ lat' = EnBlanco /\ paso' = "fin" /\ UNCHANGED <<caso, mem, doc>>
  BY DEF FinDelTexto, Fallar
<1>2. MemoriaConserva
  BY <1>1, SinEscribir, EnBlancoSigue DEF IInv
<1> QED  BY <1>1, <1>2, AlFinal DEF IInv, DocInv, Conservado, MemoriaConserva

LEMMA AbrirQueda == ASSUME IInv, Abrir PROVE Conservado
<1>1. paso \in PasosJson /\ UNCHANGED <<caso, mem, cita>>
  BY DEF Abrir, PasosJson
<1>2. lat' = EnBlanco \/ lat' = Mover(EnBlanco)
  BY DEF Abrir
<1>3. MemoriaConserva
  BY <1>1, <1>2, SinEscribir, EnBlancoSigue DEF IInv
<1>a. PICK tipo : tipo = TipoDe(EnBlanco.c)
  OBVIOUS
<1>4. PICK toma : toma = (~destino.salta /\ PermiteColeccion(destino.f, tipo))
  OBVIOUS
<1>5. doc' = [doc EXCEPT ![destino.v] = [@ EXCEPT !.tipo = tipo, !.hijos = <<>>]] \/ doc' = doc
  BY <1>a, <1>4 DEF Abrir
<1>b. DocBien(mem, doc) /\ mem' = mem
  BY <1>1, EnJson
<1>c. DocBien(mem, [doc EXCEPT ![destino.v] = [@ EXCEPT !.tipo = tipo, !.hijos = <<>>]])
  BY <1>b, DocConColeccion
<1>6. DocInv'
  BY <1>5, <1>b, <1>c DEF DocInv
<1>7. CASE paso' = "fin"
  BY <1>3, <1>6, <1>7, AlFinal DEF IInv, Conservado, MemoriaConserva
<1>8. CASE paso' # "fin"
  <2>1. PICK r : /\ r = [v |-> destino.v, f |-> destino.f, lim |-> destino.lim,
                         salta |-> ~toma, tipo |-> tipo, enClave |-> FALSE]
                 /\ pila' = Append(pila, r) /\ paso' \in {"elemento", "primero"}
    BY <1>a, <1>4, <1>8 DEF Abrir, Fallar, Seguir
  <2>2. EsMarco(r)
    BY <2>1 DEF EsMarco
  <2>3. EsPila(pila') /\ EsCita(cita')
    BY <1>1, <2>1, <2>2, EnJson, PilaApilada
  <2> QED  BY <1>3, <1>6, <2>1, <2>3, PasoSencillo DEF IInv, Conservado, MemoriaConserva
<1> QED  BY <1>7, <1>8

LEMMA CerrarQueda ==
  ASSUME IInv, paso \in PasosJson, UNCHANGED <<caso, mem, doc, cita>>, Cerrar(EnBlanco)
  PROVE  Conservado
<1>1. pila' = Front(pila) /\ lat' = Mover(EnBlanco) /\ paso' = Devuelto(pila')
  BY DEF Cerrar, Seguir
<1>2. MemoriaConserva
  BY <1>1, SinEscribir, EnBlancoSigue DEF IInv
<1>3. EsPila(pila') /\ EsCita(cita')
  BY <1>1, EnJson, PilaFront
<1> QED  BY <1>1, <1>2, <1>3, PasoDevuelto DEF IInv, DocInv, Conservado, MemoriaConserva

LEMMA PrimeroQueda == ASSUME IInv, Primero PROVE Conservado
<1>1. paso \in PasosJson /\ UNCHANGED <<caso, mem, doc, cita>>
  BY DEF Primero, PasosJson
<1>2. CASE Cierra(EnBlanco.c)
  BY <1>1, <1>2, CerrarQueda DEF Primero
<1>3. CASE ~Cierra(EnBlanco.c)
  <2>1. lat' = EnBlanco /\ paso' \in {"elemento", "clave"} /\ pila' = pila
    BY <1>3 DEF Primero, Seguir, Otro
  <2>2. MemoriaConserva
    BY <1>1, <2>1, SinEscribir, EnBlancoSigue DEF IInv
  <2> QED  BY <1>1, <2>1, <2>2, EnJson, PasoSencillo DEF IInv, DocInv, Conservado, MemoriaConserva
<1> QED  BY <1>2, <1>3

LEMMA ComaQueda == ASSUME IInv, Coma PROVE Conservado
<1>1. paso \in PasosJson /\ UNCHANGED <<caso, mem, doc, cita>>
  BY DEF Coma, PasosJson
<1>2. CASE Cierra(EnBlanco.c)
  BY <1>1, <1>2, CerrarQueda DEF Coma
<1>3. CASE ~Cierra(EnBlanco.c) /\ EnBlanco.c = 44
  <2>1. lat' = Mover(EnBlanco) /\ paso' \in {"elemento", "clave"} /\ pila' = pila
    BY <1>3 DEF Coma, Seguir, Otro
  <2>2. MemoriaConserva
    BY <1>1, <2>1, SinEscribir, EnBlancoSigue DEF IInv
  <2> QED  BY <1>1, <2>1, <2>2, EnJson, PasoSencillo DEF IInv, DocInv, Conservado, MemoriaConserva
<1>4. CASE ~Cierra(EnBlanco.c) /\ EnBlanco.c # 44
  <2>1. lat' = EnBlanco /\ paso' = "fin"
    BY <1>4 DEF Coma, Fallar
  <2>2. MemoriaConserva
    BY <1>1, <2>1, SinEscribir, EnBlancoSigue DEF IInv
  <2> QED  BY <1>1, <2>1, <2>2, AlFinal DEF IInv, DocInv, Conservado, MemoriaConserva
<1> QED  BY <1>2, <1>3, <1>4

\* A slot is taken for an element, or there is none.
LEMMA RanuraTomada ==
  ASSUME IInv, UNCHANGED <<caso, lat>>, mem' = Ranura(mem).mem
  PROVE  MemoriaConserva /\ DocBien(mem', doc) /\ \A padre : DocBien(mem', ConHijo(padre, Ranura0.clave))
<1>1. MemoriaInv /\ DocBien(mem, doc)
  BY DEF IInv, DocInv
<1>2. /\ EnZona(mem) /\ lat.lee \in Nat /\ lat.lee >= 1 /\ mem.buf \in Seq(Nat)
      /\ (~mem.copia => mem.escribe <= Sitio(lat)) /\ Pestillo(lat, mem.buf) /\ mem.copia \in BOOLEAN
  BY <1>1, Hechos
<1>3. EnZona(mem') /\ Respeta(mem, mem', 0) /\ mem'.escribe = mem.escribe
  BY <1>2, RanuraBien
<1>4. Pestillo(lat', mem'.buf)
  <2>1. Len(mem'.buf) = Len(mem.buf)
    BY <1>3 DEF Respeta
  <2> QED  BY <1>2, <2>1 DEF Pestillo
<1>5. MemoriaConserva
  BY <1>1, <1>2, <1>3, <1>4, Avance
<1>6. DocBien(mem', doc)
  BY <1>1, <1>2, <1>3, DocQueda
<1>7. Entera(mem', Ranura0.clave)
  BY DEF Entera, Ranura0
<1> QED  BY <1>5, <1>6, <1>7, DocConHijo

LEMMA ElementoQueda == ASSUME IInv, Elemento PROVE Conservado
<1>1. paso \in PasosJson /\ UNCHANGED <<caso, lat, pila, cita>>
  BY DEF Elemento, PasosJson
<1>2. CASE UNCHANGED <<mem, doc>>
  <2>1. paso' \in {"valor", "fin"}
    BY DEF Elemento, Seguir, Fallar
  <2>2. MemoriaConserva
    BY <1>1, <1>2, SinEscribir, Hechos DEF IInv
  <2>3. PasoInv'
    BY <1>1, <2>1, AlFinal, EnJson, PasoSencillo
  <2> QED  BY <1>2, <2>2, <2>3 DEF IInv, DocInv, Conservado, MemoriaConserva
<1>3. CASE ~UNCHANGED <<mem, doc>>
  <2>1. /\ mem' = Ranura(mem).mem /\ paso' \in {"valor", "fin"}
        /\ doc' = doc \/ doc' = ConHijo(Last(pila).v, Ranura0.clave)
    BY <1>3 DEF Elemento, Seguir, Fallar
  <2>2. MemoriaConserva /\ DocInv'
    BY <1>1, <2>1, RanuraTomada DEF DocInv
  <2>3. PasoInv'
    BY <1>1, <2>1, AlFinal, EnJson, PasoSencillo
  <2> QED  BY <2>2, <2>3 DEF IInv, Conservado, MemoriaConserva
<1> QED  BY <1>2, <1>3

LEMMA SaltadaQueda == ASSUME IInv, Saltada PROVE Conservado
<1>1. paso \in PasosJson /\ UNCHANGED <<caso, mem, doc, pila, cita>> /\ MemoriaInv
  BY DEF Saltada, PasosJson, IInv
<1>2. /\ mem.buf \in Seq(Nat) /\ Pestillo(lat, mem.buf) /\ lat.lee \in Nat /\ Sitio(lat) \in Nat
      /\ Sitio(lat) <= lat.lee
  BY <1>1, Hechos
<1>3. PICK v : /\ v = Ver /\ Pestillo(v, mem.buf) /\ v.lleno /\ Sitio(v) = Sitio(lat) /\ lat.lee <= v.lee
               /\ v.lee \in Nat
  BY <1>2, Cargado DEF Ver
<1>4. PICK k : k = Mover(v) /\ Pestillo(k, mem.buf) /\ k.lee = v.lee /\ Sitio(k) = v.lee
  BY <1>3, Movido
<1>5. PICK l : /\ l = Cargar(k, mem.buf) /\ Pestillo(l, mem.buf) /\ l.lleno /\ Sitio(l) = Sitio(k)
               /\ k.lee <= l.lee /\ l.lee \in Nat
  BY <1>2, <1>4, Cargado
<1>6. PICK h : h = Mover(l) /\ Pestillo(h, mem.buf) /\ h.lee = l.lee /\ Sitio(h) = l.lee
  BY <1>5, Movido
<1>7. lat' = h \/ lat' = l \/ lat' = k
  BY <1>3, <1>4, <1>5, <1>6 DEF Saltada
<1>8. MemoriaConserva
  BY <1>1, <1>2, <1>3, <1>4, <1>5, <1>6, <1>7, SinEscribir
<1>9. paso' \in {"fin", "saltada"} \/ paso' = Devuelto(pila')
  BY <1>1 DEF Saltada, Volver, Fallar, Seguir
<1> QED  BY <1>1, <1>8, <1>9, AlFinal, EnJson, PasoSencillo, PasoDevuelto DEF IInv, DocInv, Conservado, MemoriaConserva

LEMMA AcabaQueda == ASSUME IInv, Acaba PROVE Conservado
<1>1. UNCHANGED <<caso, mem, lat, doc>> /\ paso' = "fin"
  BY DEF Acaba, Fallar
<1>2. MemoriaConserva
  BY <1>1, SinEscribir, Hechos DEF IInv
<1> QED  BY <1>1, <1>2, AlFinal DEF IInv, DocInv, Conservado, MemoriaConserva

\* A string is begun, with the latch l or moved on from it.
LEMMA EmpezadaQueda ==
  ASSUME MemoriaInv, DocBien(mem, doc), caso' = caso, mem' = Empezar(mem), Pestillo(lat', mem.buf),
         lat.lee <= lat'.lee, Sitio(lat) <= Sitio(lat')
  PROVE  MemoriaConserva /\ DocBien(mem', doc) /\ Escribible(mem') /\ mem'.copia = mem.copia
         /\ (~mem.copia => mem'.escribe = mem.escribe)
<1>1. /\ EnZona(mem) /\ lat.lee \in Nat /\ lat.lee >= 1 /\ mem.buf \in Seq(Nat) /\ mem.escribe \in Nat
      /\ Sitio(lat) \in Nat /\ (~mem.copia => mem.escribe <= Sitio(lat)) /\ mem.copia \in BOOLEAN
  BY Hechos
<1>2. /\ EnZona(mem') /\ Escribible(mem') /\ Respeta(mem, mem', 0)
      /\ (~mem.copia => mem'.escribe = mem.escribe)
  BY <1>1, EmpezarBien
<1>3. lat'.lee \in Nat /\ Sitio(lat') \in Nat
  BY DEF Pestillo, Sitio
<1>4. Pestillo(lat', mem'.buf) /\ mem'.copia = mem.copia
  <2>1. Len(mem'.buf) = Len(mem.buf) /\ mem'.copia = mem.copia
    BY <1>2 DEF Respeta
  <2> QED  BY <2>1 DEF Pestillo
<1>5. 0 < lat'.lee /\ (~mem.copia => mem'.escribe <= Sitio(lat'))
  BY <1>1, <1>2, <1>3
<1>6. MemoriaConserva
  BY <1>2, <1>4, <1>5, Avance
<1> QED  BY <1>1, <1>2, <1>4, <1>6, DocQueda

LEMMA ClaveQueda == ASSUME IInv, Clave PROVE Conservado
<1>1. paso \in PasosJson /\ UNCHANGED <<caso, limite, doc>> /\ MemoriaInv /\ DocBien(mem, doc)
  BY DEF Clave, PasosJson, IInv, DocInv
<1>2. EsPila(pila) /\ EsCita(cita)
  BY <1>1, EnJson
<1>3. CASE Last(pila).salta
  <2>1. /\ pila' = [pila EXCEPT ![Len(pila)].enClave = TRUE] /\ lat' = EnBlanco /\ paso' = "valor"
        /\ UNCHANGED <<mem, cita>>
    BY <1>3 DEF Clave, Seguir
  <2>2. EsPila(pila')
    BY <1>2, <1>3, <2>1, PilaConClave
  <2>3. MemoriaConserva
    BY <1>1, <2>1, SinEscribir, EnBlancoSigue
  <2> QED  BY <1>1, <1>2, <2>1, <2>2, <2>3, PasoSencillo DEF IInv, DocInv, Conservado, MemoriaConserva
<1>4. CASE ~Last(pila).salta
  <2>1. mem' = Empezar(mem) /\ pila' = pila
    BY <1>4 DEF Clave
  <2>2. /\ mem.escribe \in Nat /\ mem.copia \in BOOLEAN /\ (~mem.copia => mem.escribe <= Sitio(lat))
        /\ Sitio(lat) \in Nat
    BY <1>1, Hechos
  <2>3. CASE EnBlanco.c \in Comillas
    <3>1. /\ cita' = [fin |-> EnBlanco.c, alto |-> 0, clave |-> TRUE] /\ lat' = Mover(EnBlanco)
          /\ paso' = "cadena"
      BY <1>4, <2>3 DEF Clave, Seguir
    <3>2. EsCita(cita')
      BY <2>3, <3>1 DEF EsCita, Comillas, NUL
    <3>3. /\ MemoriaConserva /\ DocBien(mem', doc) /\ Escribible(mem') /\ mem'.copia = mem.copia
          /\ (~mem.copia => mem'.escribe = mem.escribe)
      BY <1>1, <2>1, <3>1, EnBlancoSigue, EmpezadaQueda
    <3>4. ~lat'.lleno /\ (~mem'.copia => mem'.escribe < lat'.lee)
      BY <1>1, <2>2, <3>1, <3>3, EnBlancoSigue
    <3>5. PasoInv'
      BY <1>2, <2>1, <3>1, <3>2, <3>3, <3>4, PasoDeJson DEF PasosJson
    <3> QED  BY <1>1, <3>3, <3>5 DEF IInv, DocInv, Conservado, MemoriaConserva
  <2>4. CASE EnBlanco.c \notin Comillas
    <3>1. cita' = cita /\ lat' = EnBlanco /\ paso' \in {"desnuda", "fin"}
      BY <1>4, <2>4 DEF Clave, Seguir, Fallar
    <3>3. MemoriaConserva /\ DocBien(mem', doc) /\ Escribible(mem')
      BY <1>1, <2>1, <3>1, EnBlancoSigue, EmpezadaQueda
    <3>5. PasoInv'
      BY <1>2, <2>1, <3>1, <3>3, AlFinal, PasoDeJson DEF PasosJson
    <3> QED  BY <1>1, <3>3, <3>5 DEF IInv, DocInv, Conservado, MemoriaConserva
  <2> QED  BY <2>3, <2>4
<1> QED  BY <1>3, <1>4

LEMMA AbrirCadenaQueda == ASSUME IInv, AbrirCadena PROVE Conservado
<1>1. paso \in PasosJson /\ UNCHANGED <<caso, doc, pila>> /\ MemoriaInv /\ DocBien(mem, doc)
  BY DEF AbrirCadena, PasosJson, IInv, DocInv
<1>2. /\ EnBlanco.c \in Comillas /\ lat' = Mover(EnBlanco)
      /\ cita' = [fin |-> EnBlanco.c, alto |-> 0, clave |-> FALSE]
  BY DEF AbrirCadena
<1>3. EsPila(pila') /\ EsCita(cita')
  <2>1. EsCita(cita')
    BY <1>2 DEF EsCita, Comillas, NUL
  <2> QED  BY <1>1, <2>1, EnJson
<1>4. CASE Toma
  <2>1. mem' = Empezar(mem) /\ paso' = "cadena"
    BY <1>4 DEF AbrirCadena, Seguir
  <2>2. /\ mem.escribe \in Nat /\ mem.copia \in BOOLEAN /\ (~mem.copia => mem.escribe <= Sitio(lat))
        /\ Sitio(lat) \in Nat
    BY <1>1, Hechos
  <2>3. /\ MemoriaConserva /\ DocBien(mem', doc) /\ Escribible(mem') /\ mem'.copia = mem.copia
        /\ (~mem.copia => mem'.escribe = mem.escribe)
    BY <1>1, <1>2, <2>1, EnBlancoSigue, EmpezadaQueda
  <2>4. ~lat'.lleno /\ (~mem'.copia => mem'.escribe < lat'.lee)
    BY <1>1, <1>2, <2>2, <2>3, EnBlancoSigue
  <2>5. PasoInv'
    BY <1>3, <2>1, <2>3, <2>4, PasoDeJson DEF PasosJson
  <2> QED  BY <1>1, <2>3, <2>5 DEF IInv, DocInv, Conservado, MemoriaConserva
<1>5. CASE ~Toma
  <2>1. mem' = mem /\ paso' = "saltada"
    BY <1>5 DEF AbrirCadena, Seguir
  <2>2. MemoriaConserva
    BY <1>1, <1>2, <2>1, SinEscribir, EnBlancoSigue
  <2> QED  BY <1>1, <1>3, <2>1, <2>2, PasoSencillo DEF IInv, DocInv, Conservado, MemoriaConserva
<1> QED  BY <1>4, <1>5

\* Characters are written over what was read before q.
LEMMA Anadida ==
  ASSUME MemoriaInv, DocBien(mem, doc), Escribible(mem), caso' = caso, NEW cs \in Seq(Nat),
         mem' = Anadir(mem, cs), Pestillo(lat', mem'.buf), lat.lee <= lat'.lee,
         ~mem.copia => mem.escribe + Len(cs) <= Sitio(lat') /\ mem.escribe + Len(cs) <= lat'.lee
  PROVE  /\ MemoriaConserva /\ DocBien(mem', doc) /\ Escribible(mem') /\ mem'.copia = mem.copia
         /\ ~mem.copia => mem'.escribe = mem.escribe + Len(cs)
<1>1. /\ EnZona(mem) /\ lat.lee \in Nat /\ lat.lee >= 1 /\ mem.escribe \in Nat /\ mem.copia \in BOOLEAN
  BY Hechos
<1>2. lat'.lee \in Nat /\ lat'.lee >= 1 /\ Len(cs) \in Nat
  BY DEF Pestillo
<1>a. lat'.lee - 1 \in Nat /\ lat'.lee - 1 < lat'.lee /\ (mem.copia \/ mem.escribe + Len(cs) - 1 <= lat'.lee - 1)
  BY <1>1, <1>2
<1>3. PICK q \in Nat : q < lat'.lee /\ (mem.copia \/ mem.escribe + Len(cs) - 1 <= q)
  BY <1>a
<1>4. /\ EnZona(mem') /\ Escribible(mem') /\ Respeta(mem, mem', q)
      /\ ~mem.copia => mem'.escribe = mem.escribe + Len(cs)
  BY <1>1, <1>3, AnadirBien
<1>5. MemoriaConserva
  BY <1>3, <1>4, Avance
<1>6. mem'.copia = mem.copia
  BY <1>4 DEF Respeta
<1> QED  BY <1>1, <1>4, <1>5, <1>6, DocQueda

LEMMA UnCaracter == ASSUME NEW c \in Nat PROVE <<c>> \in Seq(Nat) /\ Len(<<c>>) = 1
OBVIOUS

\* The character that is looked at.
LEMMA VerBien ==
  ASSUME MemoriaInv
  PROVE  /\ Pestillo(Ver, mem.buf) /\ Ver.lleno /\ Sitio(Ver) = Sitio(lat) /\ lat.lee <= Ver.lee
         /\ Ver.lee = Sitio(lat) + 1 /\ Ver.lee \in Nat /\ Ver.c \in Nat
         /\ Ver.c # NUL => Sitio(lat) <= Len(mem.buf)
         /\ LET k == Mover(Ver)
            IN  /\ ~k.lleno /\ k.lee = Ver.lee /\ Sitio(k) = Ver.lee
                /\ \A s : Pestillo(k, s)
<1>1. PICK v : /\ v = Ver /\ Pestillo(v, mem.buf) /\ v.lleno /\ Sitio(v) = Sitio(lat) /\ v.lee >= lat.lee
               /\ v.lee = Sitio(v) + 1 /\ v.lee \in Nat
  BY Hechos, Cargado DEF Ver
<1>2. v.c \in Nat /\ v.lee >= 1 /\ (v.c # NUL => v.lee - 1 <= Len(mem.buf))
  BY <1>1 DEF Pestillo
<1>3. PICK k : k = Mover(v) /\ Pestillo(k, mem.buf) /\ ~k.lleno /\ k.lee = v.lee /\ Sitio(k) = v.lee
  BY <1>1, Movido
<1>4. \A s : Pestillo(k, s)
  BY <1>3 DEF Pestillo
<1>5. lat.lee \in Nat /\ Sitio(lat) \in Nat
  BY Hechos
<1> QED  BY <1>1, <1>2, <1>3, <1>4, <1>5

LEMMA DesnudaQueda == ASSUME IInv, Desnuda PROVE Conservado
<1>1. paso \in PasosJson /\ paso = "desnuda" /\ UNCHANGED <<caso, doc, pila, cita>>
  BY DEF Desnuda, PasosJson
<1>2. MemoriaInv /\ DocBien(mem, doc) /\ Escribible(mem) /\ EsPila(pila) /\ EsCita(cita)
  BY <1>1, EnJson
<1>3. /\ mem.escribe \in Nat /\ mem.copia \in BOOLEAN /\ (~mem.copia => mem.escribe <= Sitio(lat))
      /\ Sitio(lat) \in Nat /\ lat.lee \in Nat /\ EnZona(mem) /\ Sitio(lat) <= lat.lee
  BY <1>2, Hechos
<1>4. CASE Ver.c \in SinComillas
  <2>1. mem' = Anadir(mem, <<Ver.c>>) /\ lat' = Cargar(Mover(Ver), mem'.buf) /\ paso' = "desnuda"
    BY <1>4 DEF Desnuda, Seguir
  <2>2. PICK k : /\ k = Mover(Ver) /\ k.lee = Ver.lee /\ Sitio(k) = Ver.lee /\ Pestillo(k, mem'.buf)
                 /\ Ver.lee = Sitio(lat) + 1 /\ lat.lee <= Ver.lee /\ Ver.lee \in Nat
    BY <1>2, VerBien
  <2>3. PICK cs \in Seq(Nat) : cs = <<Ver.c>> /\ Len(cs) = 1
    BY <1>2, VerBien, UnCaracter
  <2>4. mem'.buf \in Seq(Nat)
    <3>1. mem.copia \/ mem.escribe + Len(cs) - 1 <= lat.lee
      BY <1>3, <2>3
    <3>2. EnZona(mem')
      BY <1>2, <1>3, <2>1, <2>3, <3>1, AnadirBien
    <3> QED  BY <3>2, Campos DEF EnZona
  <2>5. Pestillo(lat', mem'.buf) /\ Sitio(lat') = Ver.lee /\ lat'.lee >= Ver.lee /\ lat'.lee \in Nat
    BY <2>1, <2>2, <2>4, Cargado
  <2>6. ~mem.copia => mem.escribe + Len(cs) <= Sitio(lat') /\ mem.escribe + Len(cs) <= lat'.lee
    BY <1>3, <2>2, <2>3, <2>5
  <2>7. lat.lee <= lat'.lee
    BY <1>3, <2>2, <2>5
  <2>8. MemoriaConserva /\ DocBien(mem', doc) /\ Escribible(mem')
    BY <1>1, <1>2, <2>1, <2>3, <2>5, <2>6, <2>7, Anadida
  <2>9. PasoInv'
    BY <1>1, <1>2, <2>1, <2>8, PasoDeJson DEF PasosJson
  <2> QED  BY <1>1, <2>8, <2>9 DEF IInv, DocInv, Conservado, MemoriaConserva
<1>5. CASE Ver.c \notin SinComillas
  <2>1. /\ lat' = Ver /\ mem' = mem
        /\ paso' = "fin" \/ (paso' = "dosPuntos" /\ Valida(mem))
    BY <1>5 DEF Desnuda, Seguir, Fallar
  <2>2. MemoriaConserva
    BY <1>1, <1>2, <1>3, <2>1, VerBien, SinEscribir
  <2>3. PasoInv'
    BY <1>1, <1>2, <2>1, AlFinal, PasoDeJson DEF PasosJson
  <2> QED  BY <1>1, <1>2, <2>1, <2>2, <2>3 DEF IInv, DocInv, Conservado, MemoriaConserva
<1> QED  BY <1>4, <1>5

\* A string is ended, and kept or not, where what was read goes beyond it.
LEMMA Terminal ==
  ASSUME MemoriaInv, DocBien(mem, doc), caso' = caso, EnZona(mem'),
         Pestillo(lat', mem.buf), lat.lee <= lat'.lee,
         \A q \in Nat : mem.copia \/ mem.escribe <= q => Respeta(mem, mem', q),
         ~mem.copia => mem.escribe < lat'.lee /\ mem'.escribe <= Sitio(lat')
  PROVE  MemoriaConserva /\ DocBien(mem', doc)
<1>1. EnZona(mem) /\ lat.lee \in Nat /\ lat.lee >= 1 /\ mem.escribe \in Nat /\ mem.copia \in BOOLEAN
  BY Hechos
<1>2. lat'.lee \in Nat /\ lat'.lee >= 1
  BY DEF Pestillo
<1>3. lat'.lee - 1 \in Nat /\ lat'.lee - 1 < lat'.lee /\ (mem.copia \/ mem.escribe <= lat'.lee - 1)
  BY <1>1, <1>2
<1>4. PICK q \in Nat : q < lat'.lee /\ Respeta(mem, mem', q)
  BY <1>3
<1>5. Pestillo(lat', mem'.buf)
  BY <1>4 DEF Pestillo, Respeta
<1> QED  BY <1>1, <1>4, <1>5, Avance, DocQueda

LEMMA CadenaTerminada ==
  ASSUME MemoriaInv, DocBien(mem, doc), Escribible(mem), caso' = caso, mem' = Terminada(mem),
         Pestillo(lat', mem.buf), lat.lee <= lat'.lee, mem.copia \/ mem.escribe < Sitio(lat')
  PROVE  MemoriaConserva /\ DocBien(mem', doc)
<1>1. EnZona(mem) /\ mem.escribe \in Nat /\ mem.copia \in BOOLEAN
  BY Hechos
<1>2. \A q \in Nat : mem.copia \/ mem.escribe <= q => Respeta(mem, mem', q)
  BY <1>1, TerminadaBien
<1>3. EnZona(mem') /\ mem'.escribe = mem.escribe
  <2>1. mem.copia \/ mem.escribe <= mem.escribe
    BY <1>1
  <2> QED  BY <1>1, <2>1, TerminadaBien
<1>4. Sitio(lat') \in Nat /\ lat'.lee \in Nat /\ Sitio(lat') <= lat'.lee
  BY DEF Sitio, Pestillo
<1>5. ~mem.copia => mem.escribe < lat'.lee /\ mem'.escribe <= Sitio(lat')
  BY <1>1, <1>3, <1>4
<1> QED  BY <1>2, <1>3, <1>5, Terminal

LEMMA CadenaGuardada ==
  ASSUME MemoriaInv, DocBien(mem, doc), Escribible(mem), Valida(mem), caso' = caso,
         NEW r, r = Guardada(mem) \/ r = NuevoMiembro(Terminada(mem)), mem' = r.mem,
         Pestillo(lat', mem.buf), lat.lee <= lat'.lee,
         mem.copia \/ mem.escribe < Sitio(lat'), mem.copia \/ mem.escribe <= Len(mem.buf)
  PROVE  MemoriaConserva /\ DocBien(mem', doc) /\ Entera(mem', r.ref)
<1>1. EnZona(mem) /\ mem.escribe \in Nat /\ mem.copia \in BOOLEAN
  BY Hechos
<1>2. \A q \in Nat : mem.copia \/ mem.escribe <= q =>
        /\ EnZona(mem') /\ Respeta(mem, mem', q) /\ Entera(mem', r.ref)
        /\ ~mem.copia => mem'.escribe = mem.escribe + 1
  BY <1>1, GuardadaBien, MiembroBien
<1>3. /\ EnZona(mem') /\ Entera(mem', r.ref)
      /\ ~mem.copia => mem'.escribe = mem.escribe + 1
  <2>1. mem.copia \/ mem.escribe <= mem.escribe
    BY <1>1
  <2> QED  BY <1>1, <1>2, <2>1
<1>4. Sitio(lat') \in Nat /\ lat'.lee \in Nat /\ Sitio(lat') <= lat'.lee
  BY DEF Sitio, Pestillo
<1>5. ~mem.copia => mem.escribe < lat'.lee /\ mem'.escribe <= Sitio(lat')
  BY <1>1, <1>3, <1>4
<1> QED  BY <1>2, <1>3, <1>5, Terminal

LEMMA DosPuntosQueda == ASSUME IInv, DosPuntos PROVE Conservado
<1>1. paso \in PasosJson /\ paso = "dosPuntos" /\ UNCHANGED <<caso, cita>>
  BY DEF DosPuntos, PasosJson
<1>2. /\ MemoriaInv /\ DocBien(mem, doc) /\ EsPila(pila) /\ EsCita(cita)
      /\ Last(pila).salta \/ (Escribible(mem) /\ Valida(mem))
  BY <1>1, EnJson
<1>3. pila' = [pila EXCEPT ![Len(pila)].enClave = FALSE] /\ paso' \in {"valor", "fin"}
  BY DEF DosPuntos, Seguir, Fallar
<1>4. PasoInv'
  <2>1. EsPila(pila')
    BY <1>2, <1>3, PilaConClave
  <2> QED  BY <1>1, <1>2, <1>3, <2>1, AlFinal, PasoSencillo
<1>5. CASE UNCHANGED <<mem, doc>>
  <2>1. lat' = EnBlanco \/ lat' = Mover(EnBlanco)
    BY DEF DosPuntos
  <2>2. MemoriaConserva
    BY <1>1, <1>2, <1>5, <2>1, SinEscribir, EnBlancoSigue
  <2> QED  BY <1>2, <1>4, <1>5, <2>2 DEF IInv, DocInv, Conservado, MemoriaConserva
<1>6. CASE ~UNCHANGED <<mem, doc>>
  <2>1. EnBlanco.c = 58 /\ lat' = Mover(EnBlanco) /\ ~Last(pila).salta
    BY <1>6 DEF DosPuntos
  <2>2. Escribible(mem) /\ Valida(mem)
    BY <1>2, <2>1
  <2>3. /\ Pestillo(lat', mem.buf) /\ lat.lee <= lat'.lee
        /\ mem.copia \/ (mem.escribe < Sitio(lat') /\ mem.escribe <= Len(mem.buf))
    <3>1. /\ mem.escribe \in Nat /\ (~mem.copia => mem.escribe <= Sitio(lat)) /\ Sitio(lat) \in Nat
          /\ mem.copia \in BOOLEAN /\ Len(mem.buf) \in Nat
      BY <1>2, Hechos
    <3>2. PICK l : /\ l = EnBlanco /\ Pestillo(l, mem.buf) /\ l.lleno /\ l.lee = Sitio(l) + 1
                   /\ l.lee \in Nat /\ Sitio(l) \in Nat /\ Sitio(lat) <= Sitio(l)
      BY <1>2, EnBlancoSigue
    <3>3. l.lee - 1 <= Len(mem.buf)
      BY <2>1, <3>2 DEF Pestillo, NUL
    <3>4. Pestillo(lat', mem.buf) /\ lat.lee <= lat'.lee /\ Sitio(lat') = l.lee
      BY <1>2, <2>1, <3>2, EnBlancoSigue
    <3> QED  BY <3>1, <3>2, <3>3, <3>4
  <2>4. PICK r : r = NuevoMiembro(Terminada(mem))
    OBVIOUS
  <2>5. \/ mem' = Terminada(mem) /\ doc' = doc
        \/ mem' = r.mem /\ (doc' = doc \/ doc' = ConHijo(Last(pila).v, r.ref))
    BY <1>6, <2>1, <2>4 DEF DosPuntos
  <2>6. CASE mem' = Terminada(mem) /\ doc' = doc
    <3>1. MemoriaConserva /\ DocBien(mem', doc)
      BY <1>1, <1>2, <2>2, <2>3, <2>6, CadenaTerminada
    <3> QED  BY <1>4, <2>6, <3>1 DEF IInv, DocInv, Conservado, MemoriaConserva
  <2>7. CASE mem' = r.mem /\ (doc' = doc \/ doc' = ConHijo(Last(pila).v, r.ref))
    <3>1. MemoriaConserva /\ DocBien(mem', doc) /\ Entera(mem', r.ref)
      BY <1>1, <1>2, <2>2, <2>3, <2>4, <2>7, CadenaGuardada
    <3>2. DocBien(mem', doc')
      BY <2>7, <3>1, DocConHijo
    <3> QED  BY <1>4, <3>1, <3>2 DEF IInv, DocInv, Conservado, MemoriaConserva
  <2> QED  BY <2>5, <2>6, <2>7
<1> QED  BY <1>5, <1>6

LEMMA CierraCadenaQueda == ASSUME IInv, CierraCadena PROVE Conservado
<1>1. /\ paso \in PasosJson /\ paso = "cadena" /\ UNCHANGED <<caso, pila, cita>>
      /\ Ver.c = cita.fin /\ lat' = Mover(Ver)
  BY DEF CierraCadena, PasosJson
<1>2. MemoriaInv /\ DocBien(mem, doc) /\ Escribible(mem) /\ EsPila(pila) /\ EsCita(cita)
  BY <1>1, EnJson
<1>3. /\ mem.escribe \in Nat /\ mem.copia \in BOOLEAN /\ (~mem.copia => mem.escribe <= Sitio(lat))
      /\ Sitio(lat) \in Nat /\ lat.lee \in Nat /\ Sitio(lat) <= lat.lee /\ Len(mem.buf) \in Nat
  BY <1>2, Hechos
<1>4. /\ Pestillo(lat', mem.buf) /\ lat.lee <= lat'.lee /\ Sitio(lat') = Sitio(lat) + 1
      /\ Sitio(lat) <= Len(mem.buf)
  BY <1>1, <1>2, VerBien DEF EsCita
<1>5. CASE UNCHANGED <<mem, doc>>
  <2>1. Sitio(lat) <= Sitio(lat')
    BY <1>3, <1>4
  <2>2. MemoriaConserva
    BY <1>1, <1>2, <1>4, <1>5, <2>1, SinEscribir
  <2>3. paso' = "fin" \/ (paso' = "dosPuntos" /\ Valida(mem)) \/ paso' = Devuelto(pila')
    BY <1>1 DEF CierraCadena, Seguir, Fallar, Volver
  <2>4. PasoInv'
    BY <1>1, <1>2, <1>5, <2>3, AlFinal, PasoDeJson, PasoDevuelto DEF PasosJson
  <2> QED  BY <1>2, <1>5, <2>2, <2>4 DEF IInv, DocInv, Conservado, MemoriaConserva
<1>6. CASE ~UNCHANGED <<mem, doc>>
  <2>1. PICK r : r = Guardada(mem)
    OBVIOUS
  <2>2. Valida(mem) /\ mem' = r.mem /\ doc' = ConCadena(r.ref) /\ paso' = Devuelto(pila')
    BY <1>1, <1>6, <2>1 DEF CierraCadena, Volver, Seguir
  <2>3. mem.copia \/ (mem.escribe < Sitio(lat') /\ mem.escribe <= Len(mem.buf))
    BY <1>3, <1>4
  <2>4. MemoriaConserva /\ DocBien(mem', doc) /\ Entera(mem', r.ref)
    BY <1>1, <1>2, <1>4, <2>1, <2>2, <2>3, CadenaGuardada
  <2>5. DocBien(mem', doc')
    BY <2>2, <2>4, DocConValor DEF ConCadena
  <2> QED  BY <1>1, <1>2, <2>2, <2>4, <2>5, PasoDevuelto DEF IInv, DocInv, Conservado, MemoriaConserva
<1> QED  BY <1>5, <1>6

LEMMA LetraQueda == ASSUME IInv, Letra PROVE Conservado
<1>1. paso \in PasosJson /\ paso = "cadena" /\ UNCHANGED <<caso, doc, pila, cita>> /\ lat' = Mover(Ver)
  BY DEF Letra, PasosJson
<1>2. /\ MemoriaInv /\ DocBien(mem, doc) /\ Escribible(mem) /\ EsPila(pila) /\ EsCita(cita)
      /\ ~lat.lleno /\ (~mem.copia => mem.escribe < lat.lee)
  BY <1>1, EnJson
<1>3. /\ mem.escribe \in Nat /\ mem.copia \in BOOLEAN /\ Sitio(lat) = lat.lee /\ lat.lee \in Nat
  BY <1>2, Hechos
<1>4. /\ \A s : Pestillo(lat', s)
      /\ ~lat'.lleno /\ lat.lee <= lat'.lee /\ Sitio(lat') = lat.lee + 1 /\ lat'.lee = lat.lee + 1
  BY <1>1, <1>2, <1>3, VerBien
<1>5. CASE Ver.c = NUL
  <2>1. paso' = "fin" /\ mem' = mem
    BY <1>5 DEF Letra, Fallar
  <2>2. Sitio(lat) <= Sitio(lat')
    BY <1>3, <1>4
  <2>3. MemoriaConserva
    BY <1>1, <1>2, <1>4, <2>1, <2>2, SinEscribir
  <2> QED  BY <1>1, <1>2, <2>1, <2>3, AlFinal DEF IInv, DocInv, Conservado, MemoriaConserva
<1>6. CASE Ver.c # NUL
  <2>1. PICK cs \in Seq(Nat) : cs = <<Ver.c>> /\ Len(cs) = 1
    BY <1>2, VerBien, UnCaracter
  <2>2. mem' = Anadir(mem, cs) /\ paso' = "cadena"
    BY <1>6, <2>1 DEF Letra, Seguir
  <2>3. ~mem.copia => mem.escribe + Len(cs) <= Sitio(lat') /\ mem.escribe + Len(cs) <= lat'.lee
    BY <1>2, <1>3, <1>4, <2>1
  <2>4. /\ MemoriaConserva /\ DocBien(mem', doc) /\ Escribible(mem') /\ mem'.copia = mem.copia
        /\ ~mem.copia => mem'.escribe = mem.escribe + Len(cs)
    BY <1>1, <1>2, <1>4, <2>2, <2>3, Anadida
  <2>5. ~mem'.copia => mem'.escribe < lat'.lee
    BY <1>2, <1>3, <1>4, <2>1, <2>4
  <2>6. PasoInv'
    BY <1>1, <1>2, <1>4, <2>2, <2>4, <2>5, PasoDeJson DEF PasosJson
  <2> QED  BY <1>1, <2>4, <2>6 DEF IInv, DocInv, Conservado, MemoriaConserva
<1> QED  BY <1>5, <1>6

\* The first place of a sequence where something is found.
LEMMA MenorDe ==
  ASSUME NEW I, I \subseteq Nat, I # {}
  PROVE  Min(I) \in I
<1>1. PICK x \in I : \A y \in I : <<y, x>> \notin OpToRel(<, Nat)
  BY NatLessThanWellFounded, WFMin
<1>2. \A y \in I : ~(y < x)
  BY <1>1 DEF OpToRel
<1>3. \A y \in I : x <= y
  BY <1>2
<1> QED  BY <1>3 DEF Min

LEMMA EscapeBien ==
  ASSUME NEW I, I \subseteq 1..Len(EscapesDeEntrada), I # {}
  PROVE  EscapesDeEntrada[Min(I)][2] \in Nat
<1>1. PICK E : E = EscapesDeEntrada
  OBVIOUS
<1>2. E \in Seq(Nat \X Nat)
  <2>1. Escapes \in Seq(Nat \X Nat)
    BY DEF Escapes
  <2>2. <<<<47, 47>>>> \in Seq(Nat \X Nat)
    OBVIOUS
  <2> QED  BY <1>1, <2>1, <2>2 DEF EscapesDeEntrada
<1>3. I \subseteq Nat /\ I \subseteq 1..Len(E)
  BY <1>1
<1>4. PICK i : i = Min(I) /\ i \in I
  BY <1>3, MenorDe
<1>5. E[i] \in Nat \X Nat
  BY <1>2, <1>3, <1>4
<1> QED  BY <1>1, <1>4, <1>5

\* The character after a backslash.
LEMMA TrasBarra ==
  ASSUME MemoriaInv, ~lat.lleno, NEW l, l = Cargar(Mover(Ver), mem.buf)
  PROVE  /\ Pestillo(l, mem.buf) /\ l.lleno /\ l.lee = lat.lee + 2 /\ Sitio(l) = lat.lee + 1
         /\ lat.lee \in Nat /\ Sitio(lat) = lat.lee
<1>1. mem.buf \in Seq(Nat) /\ lat.lee \in Nat /\ Sitio(lat) = lat.lee
  BY Hechos
<1>2. PICK k : k = Mover(Ver) /\ Pestillo(k, mem.buf) /\ Sitio(k) = Ver.lee /\ Ver.lee = Sitio(lat) + 1
  BY VerBien
<1>3. Pestillo(l, mem.buf) /\ l.lleno /\ Sitio(l) = Sitio(k) /\ l.lee = Sitio(l) + 1
  BY <1>1, <1>2, Cargado
<1> QED  BY <1>1, <1>2, <1>3

LEMMA EscapadaQueda == ASSUME IInv, Escapada PROVE Conservado
<1>1. paso \in PasosJson /\ paso = "cadena" /\ UNCHANGED <<caso, doc, pila, cita>>
  BY DEF Escapada, PasosJson
<1>2. /\ MemoriaInv /\ DocBien(mem, doc) /\ Escribible(mem) /\ EsPila(pila) /\ EsCita(cita)
      /\ ~lat.lleno /\ (~mem.copia => mem.escribe < lat.lee)
  BY <1>1, EnJson
<1>3. mem.escribe \in Nat /\ mem.copia \in BOOLEAN
  BY <1>2, Hechos
<1>4. PICK l : /\ l = Cargar(Mover(Ver), mem.buf) /\ Pestillo(l, mem.buf) /\ l.lleno
               /\ l.lee = lat.lee + 2 /\ Sitio(l) = lat.lee + 1 /\ lat.lee \in Nat /\ Sitio(lat) = lat.lee
  BY <1>2, TrasBarra
<1>5. PICK i : i = SelectInSeq(EscapesDeEntrada, LAMBDA e : e[1] = l.c)
  OBVIOUS
<1>a. PICK I : I = {k \in 1..Len(EscapesDeEntrada) : EscapesDeEntrada[k][1] = l.c}
  OBVIOUS
<1>b. i = IF I # {} THEN Min(I) ELSE 0
  BY <1>5, <1>a DEF SelectInSeq
<1>6. CASE i > 0
  <2>a. EscapesDeEntrada[i][2] \in Nat
    <3>1. I \subseteq 1..Len(EscapesDeEntrada)
      BY <1>a
    <3>2. I # {} /\ i = Min(I)
      BY <1>6, <1>b
    <3> QED  BY <3>1, <3>2, EscapeBien
  <2>1. PICK cs \in Seq(Nat) : cs = <<EscapesDeEntrada[i][2]>> /\ Len(cs) = 1
    BY <2>a, UnCaracter
  <2>2. mem' = Anadir(mem, cs) /\ lat' = Mover(l) /\ paso' = "cadena"
    BY <1>4, <1>5, <1>6, <2>1 DEF Escapada, Seguir
  <2>3. /\ \A s : Pestillo(lat', s)
        /\ ~lat'.lleno /\ lat'.lee = lat.lee + 2 /\ Sitio(lat') = lat.lee + 2
    <3>1. Pestillo(lat', mem.buf) /\ ~lat'.lleno /\ lat'.lee = l.lee /\ Sitio(lat') = l.lee
      BY <1>4, <2>2, Movido
    <3>2. \A s : Pestillo(lat', s)
      BY <3>1 DEF Pestillo
    <3> QED  BY <1>4, <3>1, <3>2
  <2>4. /\ ~mem.copia => mem.escribe + Len(cs) <= Sitio(lat') /\ mem.escribe + Len(cs) <= lat'.lee
        /\ lat.lee <= lat'.lee
    BY <1>2, <1>3, <1>4, <2>1, <2>3
  <2>5. /\ MemoriaConserva /\ DocBien(mem', doc) /\ Escribible(mem') /\ mem'.copia = mem.copia
        /\ ~mem.copia => mem'.escribe = mem.escribe + Len(cs)
    BY <1>1, <1>2, <2>2, <2>3, <2>4, Anadida
  <2>6. ~mem'.copia => mem'.escribe < lat'.lee
    BY <1>2, <1>3, <1>4, <2>1, <2>3, <2>5
  <2>7. PasoInv'
    BY <1>1, <1>2, <2>2, <2>3, <2>5, <2>6, PasoDeJson DEF PasosJson
  <2> QED  BY <1>1, <2>5, <2>7 DEF IInv, DocInv, Conservado, MemoriaConserva
<1>7. CASE ~(i > 0)
  <2>1. lat' = l /\ mem' = mem /\ paso' = "fin"
    BY <1>4, <1>5, <1>7 DEF Escapada, Fallar
  <2>2. lat.lee <= lat'.lee /\ Sitio(lat) <= Sitio(lat')
    BY <1>4, <2>1
  <2>3. MemoriaConserva
    BY <1>1, <1>2, <1>4, <2>1, <2>2, SinEscribir
  <2> QED  BY <1>1, <1>2, <2>1, <2>3, AlFinal DEF IInv, DocInv, Conservado, MemoriaConserva
<1> QED  BY <1>6, <1>7

LEMMA EscalarBien ==
  ASSUME NEW m, DocBien(m, doc), NEW v, v.dato.en = ""
  PROVE  DocBien(m, Escalar(v))
<1>1. Entera(m, v.dato)
  BY DEF Entera
<1> QED  BY <1>1, DocConValor DEF Escalar

LEMMA NumericoQueda == ASSUME IInv, Numerico PROVE Conservado
<1>1. paso \in PasosJson /\ UNCHANGED <<caso, mem, pila, cita>>
  BY DEF Numerico, PasosJson
<1>2. MemoriaInv /\ DocBien(mem, doc) /\ EsPila(pila) /\ EsCita(cita)
  BY <1>1, EnJson
<1>3. PICK l : /\ l = EnBlanco /\ Pestillo(l, mem.buf) /\ l.lleno /\ lat.lee <= l.lee
               /\ Sitio(lat) <= Sitio(l) /\ l.lee \in Nat /\ Sitio(l) \in Nat
  BY <1>2, EnBlancoSigue
<1>4. PICK t : t = Palabra(l, 63)
  OBVIOUS
<1>5. lat' = Tras(l, Len(t)) /\ l.c # NUL
  BY <1>3, <1>4 DEF Numerico
<1>6. mem.buf \in Seq(Nat) /\ lat.lee \in Nat /\ Sitio(lat) \in Nat
  BY <1>2, Hechos
<1>7. Len(t) \in Nat
  BY <1>3, <1>4, <1>5, <1>6, PalabraBien
<1>8. Pestillo(lat', mem.buf) /\ lat.lee <= lat'.lee /\ Sitio(lat) <= Sitio(lat')
  <2>1. PICK k : k = Tras(l, Len(t)) /\ Pestillo(k, mem.buf) /\ k.lee >= l.lee /\ Sitio(k) >= Sitio(l)
    BY <1>3, <1>6, <1>7, TrasBien
  <2>2. k.lee \in Nat /\ Sitio(k) \in Nat
    BY <2>1 DEF Pestillo, Sitio
  <2> QED  BY <1>3, <1>5, <1>6, <2>1, <2>2
<1>9. MemoriaConserva
  BY <1>1, <1>2, <1>8, SinEscribir
<1>a. PICK c : c = IF t = <<>> THEN NUL ELSE t[1]
  OBVIOUS
<1>b. PICK b : b = [tipo |-> "logico", dato |-> [en |-> "", n |-> 0, p |-> IF c = 116 THEN 1 ELSE 0]]
  OBVIOUS
<1>c. Numero(t).dato.en = ""
  BY DEF Numero
<1>10. doc' = doc \/ doc' = Escalar(b) \/ doc' = Escalar(Numero(t))
  BY <1>3, <1>4, <1>a, <1>b DEF Numerico
<1>11. DocBien(mem', doc')
  <2>1. DocBien(mem, Escalar(b)) /\ DocBien(mem, Escalar(Numero(t)))
    BY <1>2, <1>b, <1>c, EscalarBien
  <2> QED  BY <1>1, <1>2, <1>10, <2>1
<1>12. paso' = "fin" \/ paso' = Devuelto(pila')
  BY <1>1 DEF Numerico, Volver, Fallar, Seguir
<1> QED  BY <1>1, <1>2, <1>9, <1>11, <1>12, AlFinal, PasoDevuelto DEF IInv, DocInv, Conservado, MemoriaConserva

LEMMA SaltarNumericoQueda == ASSUME IInv, SaltarNumerico PROVE Conservado
<1>1. paso \in PasosJson /\ UNCHANGED <<caso, mem, doc, pila, cita>>
  BY DEF SaltarNumerico, PasosJson
<1>2. MemoriaInv /\ DocBien(mem, doc) /\ EsPila(pila) /\ EsCita(cita)
  BY <1>1, EnJson
<1>3. PICK l : /\ l = EnBlanco /\ Pestillo(l, mem.buf) /\ l.lleno /\ lat.lee <= l.lee
               /\ Sitio(lat) <= Sitio(l) /\ l.lee \in Nat /\ Sitio(l) \in Nat
  BY <1>2, EnBlancoSigue
<1>4. PICK t : t = Palabra(l, Len(mem.buf))
  OBVIOUS
<1>5. lat' = Tras(l, Len(t)) /\ l.c # NUL /\ paso' = Devuelto(pila')
  BY <1>1, <1>3, <1>4 DEF SaltarNumerico, Volver, Seguir
<1>6. mem.buf \in Seq(Nat) /\ lat.lee \in Nat /\ Sitio(lat) \in Nat /\ Len(mem.buf) \in Nat
  BY <1>2, Hechos
<1>7. Len(t) \in Nat
  BY <1>3, <1>4, <1>5, <1>6, PalabraBien
<1>8. Pestillo(lat', mem.buf) /\ lat.lee <= lat'.lee /\ Sitio(lat) <= Sitio(lat')
  <2>1. PICK k : k = Tras(l, Len(t)) /\ Pestillo(k, mem.buf) /\ k.lee >= l.lee /\ Sitio(k) >= Sitio(l)
    BY <1>3, <1>6, <1>7, TrasBien
  <2>2. k.lee \in Nat /\ Sitio(k) \in Nat
    BY <2>1 DEF Pestillo, Sitio
  <2> QED  BY <1>3, <1>5, <1>6, <2>1, <2>2
<1>9. MemoriaConserva
  BY <1>1, <1>2, <1>8, SinEscribir
<1> QED  BY <1>1, <1>2, <1>5, <1>9, PasoDevuelto DEF IInv, DocInv, Conservado, MemoriaConserva

\* Four hexadecimal digits become at most four bytes.
LEMMA HexBien == ASSUME NEW c \in Nat PROVE Hex(c) \in Nat
BY DEF Hex

LEMMA Utf8Bien == ASSUME NEW u \in Nat PROVE Utf8(u) \in Seq(Nat) /\ Len(Utf8(u)) \in 0..4
<1>1. \A d \in {64, 4096, 262144} : u \div d \in Nat
  OBVIOUS
<1>2. \A d \in {1, 64, 4096} : Cola(u, d) \in Nat
  BY DEF Cola
<1>3. PICK a, b, c, d, e, f \in Nat :
        /\ a = Cola(u, 1) /\ b = Cola(u, 64) /\ c = Cola(u, 4096)
        /\ d = 192 + (u \div 64) /\ e = 224 + (u \div 4096) /\ f = 240 + (u \div 262144)
  BY <1>1, <1>2
<1>4. Utf8(u) \in {<<u>>, <<d, a>>, <<e, b, a>>, <<f, c, b, a>>}
  BY <1>3 DEF Utf8
<1>5. /\ <<u>> \in Seq(Nat) /\ Len(<<u>>) \in 0..4
      /\ <<d, a>> \in Seq(Nat) /\ Len(<<d, a>>) \in 0..4
      /\ <<e, b, a>> \in Seq(Nat) /\ Len(<<e, b, a>>) \in 0..4
      /\ <<f, c, b, a>> \in Seq(Nat) /\ Len(<<f, c, b, a>>) \in 0..4
  BY <1>3
<1> QED  BY <1>4, <1>5

LEMMA UnicodeQueda == ASSUME IInv, Unicode PROVE Conservado
<1>a. paso = "cadena" /\ UNCHANGED <<caso, doc, pila>>
  BY DEF Unicode
<1>1. paso \in PasosJson /\ paso = "cadena" /\ UNCHANGED <<caso, doc, pila>>
  BY <1>a DEF PasosJson
<1>2. /\ MemoriaInv /\ DocBien(mem, doc) /\ Escribible(mem) /\ EsPila(pila) /\ EsCita(cita)
      /\ ~lat.lleno /\ (~mem.copia => mem.escribe < lat.lee)
  BY <1>1, EnJson
<1>3. mem.escribe \in Nat /\ mem.copia \in BOOLEAN /\ mem.buf \in Seq(Nat) /\ Len(mem.buf) \in Nat
  BY <1>2, Hechos
<1>4. PICK l : /\ l = Cargar(Mover(Ver), mem.buf) /\ Pestillo(l, mem.buf) /\ l.lleno
               /\ l.lee = lat.lee + 2 /\ Sitio(l) = lat.lee + 1 /\ lat.lee \in Nat /\ Sitio(lat) = lat.lee
  BY <1>2, TrasBarra
<1>5. PICK x : x = Cuatro(l.lee)
  OBVIOUS
<1>6. /\ \A k \in 1..4 : x[k] = Byte(mem.buf, l.lee + k - 1)
      /\ x[1] \in Nat /\ x[2] \in Nat /\ x[3] \in Nat /\ x[4] \in Nat
  <2>1. \A k \in 1..4 : x[k] = Byte(mem.buf, l.lee + k - 1) /\ l.lee + k - 1 \in Int
    BY <1>4, <1>5 DEF Cuatro
  <2>2. \A k \in 1..4 : x[k] \in Nat
    BY <1>3, <2>1, ByteBien
  <2> QED  BY <2>1, <2>2
<1>7. PICK mala : mala = Mala(x)
  OBVIOUS
<1>8. mala \in 0..4
  <2>1. PICK I : I = {k \in 1..Len(x) : Hex(x[k]) = 16}
    OBVIOUS
  <2>2. mala = IF I # {} THEN Min(I) ELSE 0
    BY <1>7, <2>1 DEF Mala, SelectInSeq
  <2>3. I \subseteq 1..4 /\ I \subseteq Nat
    <3>1. Len(x) = 4
      BY <1>5 DEF Cuatro
    <3> QED  BY <2>1, <3>1
  <2>4. CASE I = {}
    BY <2>2, <2>4
  <2>5. CASE I # {}
    <3>1. mala \in I
      BY <2>2, <2>3, <2>5, MenorDe
    <3> QED  BY <2>3, <3>1
  <2> QED  BY <2>4, <2>5
<1>9. PICK u : u = Unidad(x)
  OBVIOUS
<1>10. u \in Nat
  <2>1. Hex(x[1]) \in Nat /\ Hex(x[2]) \in Nat /\ Hex(x[3]) \in Nat /\ Hex(x[4]) \in Nat
    BY <1>6, HexBien
  <2> QED  BY <1>9, <2>1 DEF Unidad
<1>11. CASE mala > 0
  <2>1. lat' = [lleno |-> TRUE, c |-> x[mala], lee |-> l.lee + mala] /\ mem' = mem /\ paso' = "fin"
    BY <1>4, <1>5, <1>7, <1>11 DEF Unicode, Fallar
  <2>2. PICK k \in 1..4 : k = mala /\ x[k] = Byte(mem.buf, l.lee + k - 1) /\ l.lee + k - 1 \in Int
    BY <1>4, <1>6, <1>8, <1>11
  <2>3. PICK b \in Nat : b = x[k] /\ (b # NUL => l.lee + k - 1 \in 1..Len(mem.buf))
    BY <1>3, <2>2, ByteBien
  <2>4. lat' = [lleno |-> TRUE, c |-> b, lee |-> l.lee + k] /\ l.lee + k \in Nat
    <3>1. x[mala] = b /\ mala = k
      BY <2>2, <2>3
    <3>2. lat' = [lleno |-> TRUE, c |-> b, lee |-> l.lee + k]
      BY <2>1, <3>1
    <3>3. l.lee + k \in Nat
      BY <1>4, <2>2
    <3> QED  BY <3>2, <3>3
  <2>5. Pestillo(lat', mem.buf)
    BY SMTT(30), <1>3, <1>4, <2>3, <2>4 DEF Pestillo
  <2>6. lat.lee <= lat'.lee /\ Sitio(lat) <= Sitio(lat')
    BY <1>4, <2>4 DEF Sitio
  <2>7. MemoriaConserva
    BY <1>1, <1>2, <2>1, <2>5, <2>6, SinEscribir
  <2> QED  BY <1>1, <1>2, <2>1, <2>7, AlFinal DEF IInv, DocInv, Conservado, MemoriaConserva
<1>12. CASE ~(mala > 0)
  <2>1. lat' = [lleno |-> FALSE, c |-> x[4], lee |-> l.lee + 4] /\ paso' = "cadena" /\ Codepoint(u)
    BY <1>4, <1>5, <1>7, <1>9, <1>12 DEF Unicode, Seguir
  <2>2. /\ \A s : Pestillo(lat', s)
        /\ ~lat'.lleno /\ lat'.lee = lat.lee + 6 /\ Sitio(lat') = lat.lee + 6 /\ lat.lee <= lat'.lee
        /\ Sitio(lat) <= Sitio(lat')
    <3>1. PICK z \in Nat : z = x[4]
      BY <1>6
    <3>2. l.lee + 4 = lat.lee + 6 /\ lat.lee + 6 \in Nat /\ lat.lee <= lat.lee + 6
      BY <1>4
    <3>3. PICK n \in Nat : n = lat.lee + 6 /\ l.lee + 4 = n /\ lat.lee <= n /\ n >= 1
      BY <1>4, <3>2
    <3>4. lat' = [lleno |-> FALSE, c |-> z, lee |-> n]
      BY <2>1, <3>1, <3>3
    <3>5. \A s : Pestillo(lat', s)
      BY <3>1, <3>3, <3>4 DEF Pestillo
    <3>6. ~lat'.lleno /\ lat'.lee = n /\ Sitio(lat') = n
      BY <3>4 DEF Sitio
    <3> QED  BY <1>4, <3>3, <3>5, <3>6
  <2>3. CASE u \in 55296..56319
    <3>1. mem' = mem /\ cita' = [cita EXCEPT !.alto = u % 1024]
      BY <2>1, <2>3 DEF Codepoint
    <3>2. EsCita(cita')
      <4>1. u % 1024 \in Nat
        BY <1>10
      <4> QED  BY <1>2, <3>1, <4>1 DEF EsCita
    <3>3. MemoriaConserva
      BY <1>1, <1>2, <2>2, <3>1, SinEscribir
    <3>4. ~mem.copia => mem.escribe < lat'.lee
      BY <1>2, <1>3, <1>4, <2>2
    <3>5. PasoInv'
      BY <1>1, <1>2, <2>1, <2>2, <3>1, <3>2, <3>4, PasoDeJson DEF PasosJson
    <3> QED  BY <1>1, <1>2, <3>1, <3>3, <3>5 DEF IInv, DocInv, Conservado, MemoriaConserva
  <2>4. CASE u \notin 55296..56319
    <3>1. PICK w : w = IF u \in 56320..57343 THEN 65536 + cita.alto * 1024 + (u % 1024) ELSE u
      OBVIOUS
    <3>2. w \in Nat
      <4>1. u % 1024 \in Nat /\ cita.alto \in Nat
        BY <1>2, <1>10 DEF EsCita
      <4> QED  BY <1>10, <3>1, <4>1
    <3>3. PICK cs \in Seq(Nat) : cs = Utf8(w) /\ Len(cs) \in 0..4
      BY SMTT(30), <3>2, Utf8Bien
    <3>a. cita' = cita /\ mem' = Anadir(mem, Utf8(w))
      BY SMTT(30), <2>1, <2>4, <3>1 DEF Codepoint
    <3>4. mem' = Anadir(mem, cs) /\ cita' = cita
      BY <3>3, <3>a
    <3>5. ~mem.copia => mem.escribe + Len(cs) < Sitio(lat') /\ mem.escribe + Len(cs) < lat'.lee
      <4>0. \A j \in 0..4 : j \in Nat /\ j < 6
        OBVIOUS
      <4>1. PICK k \in 0..4 : k = Len(cs)
        BY <3>3
      <4>2. mem.escribe \in Nat /\ lat.lee \in Nat /\ (~mem.copia => mem.escribe < lat.lee)
        BY <1>2, <1>3, <1>4
      <4>a. k \in Nat /\ k < 6
        BY <4>0, <4>1
      <4>b. ASSUME mem.escribe < lat.lee PROVE mem.escribe + k < lat.lee + 6
        BY <4>2, <4>a, <4>b
      <4>3. ~mem.copia => mem.escribe + k < lat.lee + 6
        BY <4>2, <4>b
      <4> QED  BY <2>2, <4>1, <4>3
    <3>6. Len(cs) \in Nat /\ lat'.lee \in Nat /\ Sitio(lat') \in Nat
      BY <1>4, <2>2, <3>3
    <3>7. ~mem.copia => mem.escribe + Len(cs) <= Sitio(lat') /\ mem.escribe + Len(cs) <= lat'.lee
      BY <1>3, <3>5, <3>6
    <3>8. /\ MemoriaConserva /\ DocBien(mem', doc) /\ Escribible(mem') /\ mem'.copia = mem.copia
          /\ ~mem.copia => mem'.escribe = mem.escribe + Len(cs)
      BY <1>1, <1>2, <2>2, <3>4, <3>7, Anadida
    <3>9. ~mem'.copia => mem'.escribe < lat'.lee
      BY <3>5, <3>8
    <3>10. PasoInv'
      BY <1>1, <1>2, <2>1, <2>2, <3>4, <3>8, <3>9, PasoDeJson DEF PasosJson
    <3> QED  BY <1>1, <3>8, <3>10 DEF IInv, DocInv, Conservado, MemoriaConserva
  <2> QED  BY <2>3, <2>4
<1> QED  BY <1>11, <1>12

-----------------------------------------------------------------------------
(* The bytes of MessagePack.                                               *)
Anchos(f) == \A x \in DOMAIN f : f[x] \in Nat

LEMMA TablasBien == Anchos(AnchoLargo) /\ Anchos(AnchoNumero) /\ Anchos(FixExt)
<1>1. Anchos(AnchoLargo) /\ Anchos(AnchoNumero)
  BY DEF Anchos, AnchoLargo, AnchoNumero
<1>2. \A c \in 212..216 : <<2, 3, 5, 9, 17>>[c - 211] \in Nat
  OBVIOUS
<1>3. Anchos(FixExt)
  BY <1>2 DEF Anchos, FixExt
<1> QED  BY <1>1, <1>3

LEMMA NaturalBien == ASSUME NEW bs \in Seq(Nat) PROVE Natural(bs) \in Nat
<1> DEFINE o(i) == IF i < Len(bs) THEN bs[Len(bs) - i] ELSE 0
<1>1. Len(bs) \in Nat /\ \A i \in 1..Len(bs) : bs[i] \in Nat
  OBVIOUS
<1>2. \A i \in 0..7 : o(i) \in Nat
  BY <1>1
<1>3. o(7) \in Nat /\ o(6) \in Nat /\ o(5) \in Nat /\ o(4) \in Nat /\ o(3) \in Nat /\ o(2) \in Nat
      /\ o(1) \in Nat /\ o(0) \in Nat
  BY <1>2
<1>4. Natural(bs) = (((((((0 * 256 + o(7)) * 256 + o(6)) * 256 + o(5)) * 256 + o(4)) * 256 + o(3)) * 256
                     + o(2)) * 256 + o(1)) * 256 + o(0)
  BY DEF Natural, EnBase256
<1> HIDE DEF o
<1>5. PICK a, b, c, d \in Nat : a = o(7) /\ b = o(6) /\ c = o(5) /\ d = o(4)
  BY <1>3
<1>6. PICK e, f, g, h \in Nat : e = o(3) /\ f = o(2) /\ g = o(1) /\ h = o(0)
  BY <1>3
<1>7. (((0 * 256 + a) * 256 + b) * 256 + c) * 256 + d \in Nat
  OBVIOUS
<1>8. PICK x \in Nat : x = (((0 * 256 + a) * 256 + b) * 256 + c) * 256 + d
  BY <1>7
<1>9. (((x * 256 + e) * 256 + f) * 256 + g) * 256 + h \in Nat
  OBVIOUS
<1>10. Natural(bs) = (((x * 256 + e) * 256 + f) * 256 + g) * 256 + h
  BY <1>4, <1>5, <1>6, <1>8
<1> QED  BY <1>9, <1>10

LEMMA CodigoBien ==
  ASSUME MemoriaInv, ~Falta(1)
  PROVE  Codigo \in Nat /\ lat.lee <= Len(caso.texto)
<1>1. /\ mem.buf \in Seq(Nat) /\ lat.lee \in Nat /\ lat.lee >= 1 /\ Len(caso.texto) \in Nat
      /\ Len(mem.buf) = Len(caso.texto) + 1
  BY Hechos
<1>2. lat.lee <= Len(caso.texto)
  BY <1>1 DEF Falta
<1>3. lat.lee \in 1..Len(mem.buf)
  BY <1>1, <1>2
<1>4. \A i \in 1..Len(mem.buf) : mem.buf[i] \in Nat
  BY <1>1
<1> QED  BY <1>2, <1>3, <1>4 DEF Codigo

LEMMA TrozoBien ==
  ASSUME MemoriaInv, NEW w \in Nat, ~Falta(1 + w)
  PROVE  Trozo(1, w) \in Seq(Nat) /\ lat.lee + w <= Len(caso.texto)
<1>1. /\ mem.buf \in Seq(Nat) /\ lat.lee \in Nat /\ lat.lee >= 1 /\ Len(caso.texto) \in Nat
      /\ Len(mem.buf) = Len(caso.texto) + 1
  BY Hechos
<1>2. lat.lee + w <= Len(caso.texto)
  BY <1>1 DEF Falta
<1>a. PICK n, k \in Nat : n = lat.lee /\ n >= 1 /\ k = Len(mem.buf) /\ n + w <= k
  BY <1>1, <1>2
<1>b. n + 1 \in Nat /\ n + 1 + w - 1 \in Nat /\ n + 1 + w - 1 <= k /\ n + 1 >= 1 /\ n + 1 <= n + 1 + w - 1 + 1
  BY SMTT(30), <1>a
<1>3. PICK a, b \in Nat : a = lat.lee + 1 /\ b = lat.lee + 1 + w - 1 /\ b <= Len(mem.buf) /\ a >= 1 /\ a <= b + 1
  BY <1>a, <1>b
<1>4. SubSeq(mem.buf, a, b) \in Seq(Nat)
  BY <1>1, <1>3, TrozoDeSeq
<1> QED  BY <1>2, <1>3, <1>4 DEF Trozo

LEMMA LargoBien ==
  ASSUME MemoriaInv, NEW c \in Nat, ~Falta(1 + AnchoDe(c))
  PROVE  AnchoDe(c) \in Nat /\ LargoDe(c) \in Nat /\ lat.lee + AnchoDe(c) <= Len(caso.texto)
<1>1. AnchoDe(c) \in Nat
  BY TablasBien DEF AnchoDe, Anchos
<1>2. PICK w \in Nat : w = AnchoDe(c)
  BY <1>1
<1>3. Trozo(1, w) \in Seq(Nat) /\ lat.lee + w <= Len(caso.texto)
  BY <1>2, TrozoBien
<1>4. PICK n \in Nat : n = Natural(Trozo(1, w))
  BY <1>3, NaturalBien
<1>5. c % 32 \in Nat /\ c % 16 \in Nat /\ (c \in DOMAIN FixExt => FixExt[c] \in Nat)
  BY TablasBien DEF Anchos
<1>6. LargoDe(c) \in {c % 32, c % 16, n, n + 1} \/ (c \in DOMAIN FixExt /\ LargoDe(c) = FixExt[c])
  BY <1>2, <1>4 DEF LargoDe
<1> QED  BY <1>1, <1>2, <1>3, <1>4, <1>5, <1>6

LEMMA Avanzada ==
  ASSUME MemoriaInv, ~lat.lleno, NEW n \in Nat, lat' = Avanza(n)
  PROVE  /\ \A s : Pestillo(lat', s)
         /\ ~lat'.lleno /\ lat'.lee = lat.lee + n /\ Sitio(lat') = lat'.lee /\ lat'.lee \in Nat
         /\ lat.lee <= lat'.lee /\ Sitio(lat) <= Sitio(lat') /\ Sitio(lat) = lat.lee /\ lat.lee \in Nat
<1>1. lat \in [lleno : BOOLEAN, c : Nat, lee : Nat] /\ lat.lee >= 1 /\ Sitio(lat) = lat.lee /\ lat.lee \in Nat
  BY Hechos DEF Pestillo
<1>2. PICK k \in Nat : k = lat.lee + n /\ lat.lee <= k
  BY <1>1
<1>3. lat' = [lat EXCEPT !.lee = k]
  BY <1>2 DEF Avanza
<1>4. lat' \in [lleno : BOOLEAN, c : Nat, lee : Nat] /\ lat'.lee = k /\ ~lat'.lleno
  BY <1>1, <1>3
<1>5. k >= 1
  BY <1>1, <1>2
<1>6. \A s : Pestillo(lat', s)
  BY <1>4, <1>5 DEF Pestillo
<1> QED  BY <1>1, <1>2, <1>4, <1>6 DEF Sitio

-----------------------------------------------------------------------------
(* The steps of MessagePack.                                               *)
LEMMA SinCodigoQueda == ASSUME IInv, SinCodigo PROVE Conservado
<1>1. UNCHANGED <<caso, mem, lat, doc>> /\ paso' = "fin"
  BY DEF SinCodigo, Fallar
<1>2. MemoriaConserva
  BY <1>1, SinEscribir, Hechos DEF IInv
<1> QED  BY <1>1, <1>2, AlFinal DEF IInv, DocInv, Conservado, MemoriaConserva

LEMMA CodigoMaloQueda == ASSUME IInv, CodigoMalo PROVE Conservado
<1>1. UNCHANGED <<caso, mem, lat, doc>> /\ paso' = "fin"
  BY DEF CodigoMalo, Fallar
<1>2. MemoriaConserva
  BY <1>1, SinEscribir, Hechos DEF IInv
<1> QED  BY <1>1, <1>2, AlFinal DEF IInv, DocInv, Conservado, MemoriaConserva

\* A code that goes on, with what comes after it.
LEMMA SigueBien ==
  ASSUME IInv, Sigue(Codigo)
  PROVE  /\ paso = "codigo" /\ paso \in PasosMp /\ MemoriaInv /\ DocBien(mem, doc) /\ ~lat.lleno
         /\ Codigo \in Nat /\ AnchoDe(Codigo) \in Nat /\ LargoDe(Codigo) \in Nat /\ Cuerpo(Codigo) \in Nat
         /\ lat.lee + AnchoDe(Codigo) <= Len(caso.texto)
<1>1. paso = "codigo" /\ ~Falta(1) /\ ~Incompleto(Codigo)
  BY DEF Sigue
<1>2. paso \in PasosMp
  BY <1>1 DEF PasosMp
<1>3. MemoriaInv /\ DocBien(mem, doc) /\ ~lat.lleno
  BY <1>2, EnMp
<1>4. Codigo \in Nat /\ ~Falta(1 + AnchoDe(Codigo))
  BY <1>1, <1>3, CodigoBien DEF Incompleto
<1>5. /\ AnchoDe(Codigo) \in Nat /\ LargoDe(Codigo) \in Nat
      /\ lat.lee + AnchoDe(Codigo) <= Len(caso.texto)
  BY <1>3, <1>4, LargoBien
<1>6. Cuerpo(Codigo) \in Nat
  BY <1>5, TablasBien DEF Cuerpo, Anchos
<1> QED  BY <1>1, <1>2, <1>3, <1>4, <1>5, <1>6

LEMMA SimpleQueda == ASSUME IInv, Simple PROVE Conservado
<1>1. Sigue(Codigo) /\ UNCHANGED <<caso, mem>> /\ paso' = "siguiente" /\ lat' = Avanza(1 + Cuerpo(Codigo))
  BY DEF Simple, Seguir
<1>2. MemoriaInv /\ DocBien(mem, doc) /\ ~lat.lleno /\ 1 + Cuerpo(Codigo) \in Nat
  BY <1>1, SigueBien
<1>3. Pestillo(lat', mem.buf) /\ ~lat'.lleno /\ lat.lee <= lat'.lee /\ Sitio(lat) <= Sitio(lat')
  BY <1>1, <1>2, Avanzada
<1>4. MemoriaConserva
  BY <1>1, <1>2, <1>3, SinEscribir
<1>5. doc' = doc \/ \E v : doc' = Escalar(v) /\ v.dato.en = ""
  <2>1. PICK v : v = CASE Codigo \in {194, 195} -> LogicoDe(Codigo - 194)
                       [] Codigo \in 202..203 -> Real
                       [] Codigo \in 204..207 -> EnteroDe(Natural(Trozo(1, Cuerpo(Codigo))))
                       [] Codigo \in 208..211 -> EnteroDe(ConSigno(Trozo(1, Cuerpo(Codigo))))
                       [] OTHER -> EnteroDe(ConSigno(<<Codigo>>))
    OBVIOUS
  <2>2. doc' = doc \/ doc' = Escalar(v)
    BY <2>1 DEF Simple
  <2>3. (\A b : LogicoDe(b).dato.en = "") /\ Real.dato.en = "" /\ \A n : EnteroDe(n).dato.en = ""
    <3>1. \A b : LogicoDe(b).dato.en = ""
      BY DEF LogicoDe
    <3>2. Real.dato.en = ""
      BY DEF Real, Ranura0
    <3>3. \A n : EnteroDe(n).dato.en = ""
      BY DEF EnteroDe
    <3> QED  BY <3>1, <3>2, <3>3
  <2>4. v.dato.en = ""
    BY ZenonT(60), <2>1, <2>3
  <2> QED  BY <2>2, <2>4
<1>6. DocBien(mem', doc')
  BY <1>1, <1>2, <1>5, EscalarBien
<1>7. PasoInv'
  BY <1>1, <1>3, PasoDeMp DEF PasosMp
<1> QED  BY <1>4, <1>6, <1>7 DEF IInv, DocInv, Conservado, MemoriaConserva

LEMMA SaltarQueda == ASSUME IInv, Saltar PROVE Conservado
<1>1. /\ Sigue(Codigo) /\ UNCHANGED <<caso, mem, doc>> /\ paso' = "siguiente"
      /\ lat' = Avanza(1 + AnchoDe(Codigo) + LargoDe(Codigo))
  BY DEF Saltar, Seguir
<1>2. MemoriaInv /\ DocBien(mem, doc) /\ ~lat.lleno /\ 1 + AnchoDe(Codigo) + LargoDe(Codigo) \in Nat
  BY <1>1, SigueBien
<1>3. Pestillo(lat', mem.buf) /\ ~lat'.lleno /\ lat.lee <= lat'.lee /\ Sitio(lat) <= Sitio(lat')
  BY <1>1, <1>2, Avanzada
<1>4. MemoriaConserva
  BY <1>1, <1>2, <1>3, SinEscribir
<1>5. PasoInv'
  BY <1>1, <1>3, PasoDeMp DEF PasosMp
<1> QED  BY <1>1, <1>2, <1>4, <1>5 DEF IInv, DocInv, Conservado, MemoriaConserva

\* A string is begun where what has been read ends.
LEMMA EmpezarCadenaBien ==
  ASSUME IInv, paso \in PasosMp, NEW clave, EmpezarCadena(clave), ~Falta(1 + AnchoDe(Codigo)), Codigo \in Nat
  PROVE  Conservado
<1>1. MemoriaInv /\ DocBien(mem, doc) /\ ~lat.lleno
  BY EnMp
<1>2. UNCHANGED <<caso, doc>> /\ mem' = Empezar(mem) /\ lat' = Avanza(1 + AnchoDe(Codigo)) /\ paso' = "octetos"
  BY DEF EmpezarCadena, Seguir
<1>3. PICK w \in Nat : w = AnchoDe(Codigo) /\ lat.lee + w <= Len(caso.texto) /\ 1 + w \in Nat
  BY <1>1, LargoBien
<1>4. /\ Pestillo(lat', mem.buf) /\ ~lat'.lleno /\ lat'.lee = lat.lee + (1 + w) /\ lat.lee <= lat'.lee
      /\ Sitio(lat) <= Sitio(lat') /\ Sitio(lat) = lat.lee /\ lat.lee \in Nat
  BY <1>1, <1>2, <1>3, Avanzada
<1>5. /\ MemoriaConserva /\ DocBien(mem', doc) /\ Escribible(mem') /\ mem'.copia = mem.copia
      /\ (~mem.copia => mem'.escribe = mem.escribe)
  BY <1>1, <1>2, <1>4, EmpezadaQueda
<1>6. mem.escribe \in Nat /\ (~mem.copia => mem.escribe <= Sitio(lat)) /\ Len(caso.texto) \in Nat
  BY <1>1, Hechos
<1>7. ~mem'.copia => mem'.escribe < lat'.lee
  BY <1>3, <1>4, <1>5, <1>6
<1>8. lat'.lee <= Len(caso'.texto) + 1
  BY <1>2, <1>3, <1>4, <1>6
<1>9. PasoInv'
  BY <1>2, <1>4, <1>5, <1>7, <1>8, PasoDeMp DEF PasosMp
<1> QED  BY <1>2, <1>5, <1>9 DEF IInv, DocInv, Conservado, MemoriaConserva

LEMMA ReadStringQueda == ASSUME IInv, ReadString PROVE Conservado
<1>1. Sigue(Codigo) /\ EmpezarCadena(FALSE)
  BY DEF ReadString
<1>2. paso \in PasosMp /\ Codigo \in Nat
  BY <1>1, SigueBien
<1>3. ~Falta(1 + AnchoDe(Codigo))
  BY <1>1 DEF Sigue, Incompleto
<1> QED  BY <1>1, <1>2, <1>3, EmpezarCadenaBien

LEMMA ReadKeyQueda == ASSUME IInv, ReadKey PROVE Conservado
<1>1. paso = "claveMp" /\ ~Falta(1) /\ paso \in PasosMp
  BY DEF ReadKey, PasosMp
<1>2. MemoriaInv /\ DocBien(mem, doc)
  BY <1>1, EnMp
<1>3. CASE Codigo \in CodigosCadena /\ ~Falta(1 + AnchoDe(Codigo))
  <2>1. EmpezarCadena(TRUE)
    BY <1>3 DEF ReadKey
  <2>2. Codigo \in Nat
    BY <1>1, <1>2, CodigoBien
  <2> QED  BY <1>1, <1>3, <2>1, <2>2, EmpezarCadenaBien
<1>4. CASE ~(Codigo \in CodigosCadena /\ ~Falta(1 + AnchoDe(Codigo)))
  <2>1. UNCHANGED <<caso, mem, lat, doc>> /\ paso' = "fin"
    BY <1>4 DEF ReadKey, Fallar
  <2>2. MemoriaConserva
    BY <1>2, <2>1, SinEscribir, Hechos
  <2> QED  BY <1>2, <2>1, <2>2, AlFinal DEF IInv, DocInv, Conservado, MemoriaConserva
<1> QED  BY <1>3, <1>4

LEMMA ColeccionQueda == ASSUME IInv, Coleccion PROVE Conservado
<1>1. Sigue(Codigo) /\ UNCHANGED <<caso, mem>> /\ lat' = Avanza(1 + AnchoDe(Codigo))
  BY DEF Coleccion
<1>2. MemoriaInv /\ DocBien(mem, doc) /\ ~lat.lleno /\ 1 + AnchoDe(Codigo) \in Nat
  BY <1>1, SigueBien
<1>3. Pestillo(lat', mem.buf) /\ ~lat'.lleno /\ lat.lee <= lat'.lee /\ Sitio(lat) <= Sitio(lat')
  BY <1>1, <1>2, Avanzada
<1>4. MemoriaConserva
  BY <1>1, <1>2, <1>3, SinEscribir
<1>5. PICK tipo : tipo = IF Codigo \in CodigosLista THEN "lista" ELSE "objeto"
  OBVIOUS
<1>6. doc' = doc \/ doc' = [doc EXCEPT ![destino.v] = [@ EXCEPT !.tipo = tipo, !.hijos = <<>>]]
  BY <1>5 DEF Coleccion
<1>a. DocBien(mem, [doc EXCEPT ![destino.v] = [@ EXCEPT !.tipo = tipo, !.hijos = <<>>]])
  BY <1>2, DocConColeccion
<1>b. mem' = mem
  BY <1>1
<1>7. DocBien(mem', doc')
  BY <1>2, <1>6, <1>a, <1>b
<1>8. paso' \in {"fin", "siguiente"}
  BY DEF Coleccion, Fallar, Seguir
<1>9. PasoInv'
  BY <1>3, <1>8, AlFinal, PasoDeMp DEF PasosMp
<1> QED  BY <1>4, <1>7, <1>9 DEF IInv, DocInv, Conservado, MemoriaConserva

LEMMA SiguienteMpQueda == ASSUME IInv, SiguienteMp PROVE Conservado
<1>1. paso \in PasosMp /\ UNCHANGED <<caso, lat>>
  BY DEF SiguienteMp, PasosMp
<1>2. MemoriaInv /\ DocBien(mem, doc) /\ ~lat.lleno
  BY <1>1, EnMp
<1>3. paso' \in {"fin", "siguiente", "claveMp", "codigo"}
  BY DEF SiguienteMp, Fallar, Seguir
<1>4. PasoInv'
  BY <1>1, <1>2, <1>3, AlFinal, PasoDeMp DEF PasosMp
<1>5. CASE UNCHANGED <<mem, doc>>
  <2>1. MemoriaConserva
    BY <1>1, <1>2, <1>5, SinEscribir, Hechos
  <2> QED  BY <1>2, <1>4, <1>5, <2>1 DEF IInv, DocInv, Conservado, MemoriaConserva
<1>6. CASE ~UNCHANGED <<mem, doc>>
  <2>1. /\ mem' = Ranura(mem).mem
        /\ doc' = doc \/ doc' = ConHijo(Last(pila).v, Ranura0.clave)
    BY <1>6 DEF SiguienteMp
  <2>2. MemoriaConserva /\ DocInv'
    BY <1>1, <2>1, RanuraTomada DEF DocInv
  <2> QED  BY <1>4, <2>2 DEF IInv, Conservado, MemoriaConserva
<1> QED  BY <1>5, <1>6

LEMMA OctetoQueda == ASSUME IInv, Octeto PROVE Conservado
<1>1. paso \in PasosMp /\ paso = "octetos" /\ UNCHANGED <<caso, doc>>
  BY DEF Octeto, PasosMp
<1>2. /\ MemoriaInv /\ DocBien(mem, doc) /\ ~lat.lleno /\ Escribible(mem)
      /\ (~mem.copia => mem.escribe < lat.lee) /\ lat.lee <= Len(caso.texto) + 1
  BY <1>1, EnMp
<1>3. mem.escribe \in Nat /\ Len(caso.texto) \in Nat /\ mem.copia \in BOOLEAN
  BY <1>2, Hechos
<1>4. CASE Falta(1)
  <2>1. UNCHANGED <<mem, lat>> /\ paso' = "fin"
    BY <1>4 DEF Octeto, Fallar
  <2>2. MemoriaConserva
    BY <1>1, <1>2, <2>1, SinEscribir, Hechos
  <2> QED  BY <1>1, <1>2, <2>1, <2>2, AlFinal DEF IInv, DocInv, Conservado, MemoriaConserva
<1>5. CASE ~Falta(1)
  <2>1. mem' = Anadir(mem, <<Codigo>>) /\ lat' = Avanza(1) /\ paso' = "octetos"
    BY <1>5 DEF Octeto, Seguir
  <2>2. Codigo \in Nat /\ lat.lee <= Len(caso.texto)
    BY <1>2, <1>5, CodigoBien
  <2>3. PICK cs \in Seq(Nat) : cs = <<Codigo>> /\ Len(cs) = 1
    BY <2>2, UnCaracter
  <2>4. /\ Pestillo(lat', mem'.buf) /\ ~lat'.lleno /\ lat'.lee = lat.lee + 1 /\ Sitio(lat') = lat'.lee
        /\ lat.lee <= lat'.lee /\ lat.lee \in Nat
    BY <1>2, <2>1, Avanzada
  <2>5. ~mem.copia => mem.escribe + Len(cs) <= Sitio(lat') /\ mem.escribe + Len(cs) <= lat'.lee
    BY <1>2, <1>3, <2>3, <2>4
  <2>6. /\ MemoriaConserva /\ DocBien(mem', doc) /\ Escribible(mem') /\ mem'.copia = mem.copia
        /\ ~mem.copia => mem'.escribe = mem.escribe + Len(cs)
    BY <1>1, <1>2, <2>1, <2>3, <2>4, <2>5, Anadida
  <2>7. ~mem'.copia => mem'.escribe < lat'.lee
    BY <1>2, <1>3, <2>3, <2>4, <2>6
  <2>8. lat'.lee <= Len(caso'.texto) + 1
    BY <1>1, <1>3, <2>2, <2>4
  <2>9. PasoInv'
    BY <2>1, <2>4, <2>6, <2>7, <2>8, PasoDeMp DEF PasosMp
  <2> QED  BY <1>1, <2>6, <2>9 DEF IInv, DocInv, Conservado, MemoriaConserva
<1> QED  BY <1>4, <1>5

\* The end of a string: where its terminator goes has been read.
LEMMA FinalDeCadena ==
  ASSUME IInv, paso = "octetos"
  PROVE  /\ MemoriaInv /\ DocBien(mem, doc) /\ ~lat.lleno /\ Escribible(mem)
         /\ Pestillo(lat, mem.buf) /\ lat.lee <= lat.lee /\ Sitio(lat) <= Sitio(lat)
         /\ mem.copia \/ mem.escribe < Sitio(lat)
         /\ mem.copia \/ mem.escribe <= Len(mem.buf)
<1>1. /\ MemoriaInv /\ DocBien(mem, doc) /\ ~lat.lleno /\ Escribible(mem)
      /\ (~mem.copia => mem.escribe < lat.lee) /\ lat.lee <= Len(caso.texto) + 1
  BY EnMp DEF PasosMp
<1>2. /\ mem.escribe \in Nat /\ lat.lee \in Nat /\ Len(caso.texto) \in Nat /\ Len(mem.buf) = Len(caso.texto) + 1
      /\ Sitio(lat) = lat.lee /\ Pestillo(lat, mem.buf) /\ mem.copia \in BOOLEAN
  BY <1>1, Hechos
<1> QED  BY <1>1, <1>2

LEMMA FinDeOctetosQueda == ASSUME IInv, FinDeOctetos PROVE Conservado
<1>1. paso = "octetos" /\ UNCHANGED <<caso, lat>> /\ paso' \in {"fin", "siguiente"}
  BY DEF FinDeOctetos, Fallar, Seguir
<1>2. /\ MemoriaInv /\ DocBien(mem, doc) /\ ~lat.lleno /\ Escribible(mem)
      /\ Pestillo(lat, mem.buf) /\ lat.lee <= lat.lee
      /\ mem.copia \/ mem.escribe < Sitio(lat)
      /\ mem.copia \/ mem.escribe <= Len(mem.buf)
  BY <1>1, FinalDeCadena
<1>3. PasoInv'
  BY <1>1, <1>2, AlFinal, PasoDeMp DEF PasosMp
<1>4. CASE UNCHANGED <<mem, doc>>
  <2>1. MemoriaConserva
    BY <1>1, <1>2, <1>4, SinEscribir, Hechos
  <2> QED  BY <1>2, <1>3, <1>4, <2>1 DEF IInv, DocInv, Conservado, MemoriaConserva
<1>5. CASE ~UNCHANGED <<mem, doc>>
  <2>1. PICK r : r = Guardada(mem)
    OBVIOUS
  <2>2. Valida(mem) /\ mem' = r.mem /\ doc' = ConCadena(r.ref)
    BY <1>5, <2>1 DEF FinDeOctetos
  <2>3. MemoriaConserva /\ DocBien(mem', doc) /\ Entera(mem', r.ref)
    BY <1>1, <1>2, <2>1, <2>2, CadenaGuardada
  <2>4. DocBien(mem', doc')
    BY <2>2, <2>3, DocConValor DEF ConCadena
  <2> QED  BY <1>3, <2>3, <2>4 DEF IInv, DocInv, Conservado, MemoriaConserva
<1> QED  BY <1>4, <1>5

LEMMA MiembroMpQueda == ASSUME IInv, MiembroMp PROVE Conservado
<1>1. paso = "octetos" /\ UNCHANGED <<caso, lat>> /\ paso' \in {"fin", "codigo"} /\ Valida(mem)
  BY DEF MiembroMp, Fallar, Seguir
<1>2. /\ MemoriaInv /\ DocBien(mem, doc) /\ ~lat.lleno /\ Escribible(mem)
      /\ Pestillo(lat, mem.buf) /\ lat.lee <= lat.lee
      /\ mem.copia \/ mem.escribe < Sitio(lat)
      /\ mem.copia \/ mem.escribe <= Len(mem.buf)
  BY <1>1, FinalDeCadena
<1>3. PasoInv'
  BY <1>1, <1>2, AlFinal, PasoDeMp DEF PasosMp
<1>4. PICK r : r = NuevoMiembro(Terminada(mem))
  OBVIOUS
<1>5. \/ mem' = Terminada(mem) /\ doc' = doc
      \/ mem' = r.mem /\ (doc' = doc \/ doc' = ConHijo(Last(pila).v, r.ref))
  BY <1>4 DEF MiembroMp
<1>6. CASE mem' = Terminada(mem) /\ doc' = doc
  <2>1. MemoriaConserva /\ DocBien(mem', doc)
    BY <1>1, <1>2, <1>6, CadenaTerminada
  <2> QED  BY <1>3, <1>6, <2>1 DEF IInv, DocInv, Conservado, MemoriaConserva
<1>7. CASE mem' = r.mem /\ (doc' = doc \/ doc' = ConHijo(Last(pila).v, r.ref))
  <2>1. MemoriaConserva /\ DocBien(mem', doc) /\ Entera(mem', r.ref)
    BY <1>1, <1>2, <1>4, <1>7, CadenaGuardada
  <2>2. DocBien(mem', doc')
    BY <1>7, <2>1, DocConHijo
  <2> QED  BY <1>3, <2>1, <2>2 DEF IInv, DocInv, Conservado, MemoriaConserva
<1> QED  BY <1>5, <1>6, <1>7

-----------------------------------------------------------------------------
(* The theorem.                                                            *)
LEMMA TextoConNul ==
  ASSUME NEW t \in Seq(0..255)
  PROVE  /\ Append(t, NUL) \in Seq(Nat) /\ Len(Append(t, NUL)) = Len(t) + 1 /\ Len(t) \in Nat
         /\ \A i \in 1..Len(t) : Append(t, NUL)[i] = t[i]
<1>1. t \in Seq(Nat)
  <2>a. PICK S : S = 0..255
    OBVIOUS
  <2>b. t \in Seq(S) /\ \A c \in S : c \in Nat
    BY <2>a
  <2>c. Len(t) \in Nat /\ \A i \in 1..Len(t) : t[i] \in S
    BY <2>b
  <2>1. Len(t) \in Nat /\ \A i \in 1..Len(t) : t[i] \in Nat
    BY <2>b, <2>c
  <2>2. t = [i \in 1..Len(t) |-> t[i]]
    OBVIOUS
  <2> QED  BY <2>1, <2>2
<1>2. NUL \in Nat
  BY DEF NUL
<1> QED  BY <1>1, <1>2

LEMMA MemoriaNueva ==
  ASSUME NEW t \in Seq(Nat), NEW copia \in BOOLEAN, NEW cap \in Nat,
         NEW m, m = Memoria(t, copia, cap)
  PROVE  EnZona(m) /\ m.buf = t /\ m.escribe = 1
<1>1. PICK bs \in Seq(Nat) : bs = [i \in 1..cap |-> NUL] /\ Len(bs) = cap
  <2>1. PICK z \in Nat : z = NUL
    BY DEF NUL
  <2>2. PICK s : s = [i \in 1..cap |-> z]
    OBVIOUS
  <2>3. s \in Seq(Nat) /\ DOMAIN s = 1..cap
    BY <2>2
  <2>4. Len(s) = cap
    BY <2>3
  <2> QED  BY <2>1, <2>2, <2>3, <2>4
<1>2. m = [copia |-> copia, buf |-> t, bytes |-> bs, izq |-> 1, der |-> cap + 1, lleno |-> FALSE,
           desde |-> 1, escribe |-> 1]
  BY <1>1 DEF Memoria
<1>3. m \in Mem
  BY <1>2 DEF Mem
<1> QED  BY <1>1, <1>2, <1>3 DEF EnZona

LEMMA InitBien == Init \/ MpInit => IInv
<1> SUFFICES ASSUME Init \/ MpInit PROVE IInv
  OBVIOUS
<1>1. caso \in Casos \cup CasosMp
  BY DEF Init, MpInit
<1>2. PICK t \in Seq(0..255) : t = caso.texto
  BY <1>1, JsonAssumption, MpAssumption
<1>3. PICK cap \in Capacidades, copia \in BOOLEAN : mem = Memoria(Append(caso.texto, NUL), copia, cap)
  BY DEF Init, MpInit
<1>4. cap \in Nat
  BY <1>3, JsonAssumption
<1>5. PICK b \in Seq(Nat) : b = Append(t, NUL) /\ Len(b) = Len(t) + 1 /\ Len(t) \in Nat
                            /\ \A i \in 1..Len(t) : b[i] = t[i]
  BY TextoConNul
<1>6. EnZona(mem) /\ mem.buf = b /\ mem.escribe = 1
  <2>1. mem = Memoria(b, copia, cap)
    BY <1>2, <1>3, <1>5
  <2> QED  BY <1>4, <2>1, MemoriaNueva
<1>7. lat = [lleno |-> FALSE, c |-> NUL, lee |-> 1]
  BY DEF Init, MpInit
<1>8. Pestillo(lat, mem.buf) /\ Sitio(lat) = 1 /\ lat.lee = 1 /\ ~lat.lleno
  BY <1>7 DEF Pestillo, Sitio, NUL
<1>9. MemoriaInv
  BY <1>2, <1>5, <1>6, <1>8 DEF MemoriaInv
<1>10. DocInv
  <2>1. doc = <<Ranura0>>
    BY DEF Init, MpInit
  <2>n. EsNodo(Ranura0)
    BY DEF EsNodo, Ranura0
  <2>a. PICK r0 : r0 = Ranura0 /\ EsNodo(r0)
    BY <2>n
  <2>s. DOMAIN <<r0>> = 1..1 /\ <<r0>>[1] = r0
    OBVIOUS
  <2>b. PICK s : s = <<r0>> /\ DOMAIN s = 1..1 /\ s[1] = r0
    BY <2>s
  <2>c. s \in Seq({s[i] : i \in DOMAIN s})
    BY <2>b
  <2>2. EsDoc(doc)
    BY <2>1, <2>a, <2>b, <2>c DEF EsDoc, EsSec
  <2>3. \A i \in DOMAIN doc : doc[i] = Ranura0
    BY <2>1
  <2>4. Entera(mem, Ranura0.clave) /\ Entera(mem, Ranura0.dato)
    BY DEF Entera, Ranura0
  <2> QED  BY <2>2, <2>3, <2>4 DEF DocInv, DocBien
<1>11. PasoInv
  <2>1. CASE Init
    <3>1. paso = "valor" /\ pila = <<>> /\ cita = [fin |-> 34, alto |-> 0, clave |-> FALSE]
      BY <2>1 DEF Init
    <3>2. EsPila(pila)
      BY <3>1 DEF EsPila, EsSec
    <3>3. EsCita(cita)
      BY <3>1 DEF EsCita, NUL
    <3> QED  BY <3>1, <3>2, <3>3 DEF PasoInv, Abierta, PasosJson, PasosMp
  <2>2. CASE MpInit
    <3>1. paso = "codigo"
      BY <2>2 DEF MpInit
    <3> QED  BY <1>8, <3>1 DEF PasoInv, Abierta, PasosJson, PasosMp
  <2> QED  BY <2>1, <2>2
<1> QED  BY <1>9, <1>10, <1>11 DEF IInv, Conservado, MemoriaConserva

\* Every step of the two readers keeps the invariant.
LEMMA PasoQueda == IInv /\ [Next \/ MpNext]_vars => Conservado
<1> SUFFICES ASSUME IInv, [Next \/ MpNext]_vars PROVE Conservado
  OBVIOUS
<1>1. CASE Next
  BY <1>1, FinDelTextoQueda, AbrirQueda, PrimeroQueda, ComaQueda, ElementoQueda, ClaveQueda, AbrirCadenaQueda,
     DesnudaQueda, DosPuntosQueda, CierraCadenaQueda, LetraQueda, EscapadaQueda, UnicodeQueda, NumericoQueda,
     SaltarNumericoQueda, SaltadaQueda, AcabaQueda DEF Next
<1>2. CASE MpNext
  BY <1>2, SinCodigoQueda, CodigoMaloQueda, SimpleQueda, SaltarQueda, ReadStringQueda, ReadKeyQueda,
     ColeccionQueda, SiguienteMpQueda, OctetoQueda, FinDeOctetosQueda, MiembroMpQueda DEF MpNext
<1>3. CASE UNCHANGED vars
  <2>1. UNCHANGED <<caso, mem, lat, doc, pila, cita, paso>>
    BY <1>3 DEF vars
  <2>2. MemoriaConserva
    BY <2>1, SinEscribir, Hechos DEF IInv
  <2>3. Abierta' = Abierta
    BY <2>1 DEF Abierta
  <2>4. PasoInv'
    BY <2>1, <2>3 DEF IInv, PasoInv
  <2> QED  BY <2>1, <2>2, <2>4 DEF IInv, DocInv, Conservado, MemoriaConserva
<1> QED  BY <1>1, <1>2, <1>3

\* What was sent, the pool and the strings are as they must be.
LEMMA EnOrden == IInv => MemoriaEnOrden
<1> SUFFICES ASSUME IInv PROVE MemoriaEnOrden
  OBVIOUS
<1>1. MemoriaInv /\ DocBien(mem, doc) /\ EnZona(mem)
  BY DEF IInv, DocInv, MemoriaInv
<1>2. /\ mem.escribe \in Nat /\ Sitio(lat) \in Nat /\ Sitio(lat) <= lat.lee /\ lat.lee \in Nat
      /\ mem.copia \in BOOLEAN /\ (~mem.copia => mem.escribe <= Sitio(lat)) /\ mem \in Mem
  BY <1>1, Hechos
<1>3. mem.izq \in Nat /\ mem.der \in Nat
  BY <1>2, Campos
<1>4. ~mem.copia => mem.escribe <= lat.lee
  BY <1>2
<1>5. mem.copia /\ ~mem.lleno /\ Abierta => mem.desde = mem.izq /\ mem.escribe \in mem.izq..(mem.der - 1)
  <2> SUFFICES ASSUME mem.copia, ~mem.lleno, Abierta
               PROVE  mem.desde = mem.izq /\ mem.escribe \in mem.izq..(mem.der - 1)
    OBVIOUS
  <2>1. Escribible(mem)
    BY DEF IInv, PasoInv
  <2> QED  BY <1>2, <1>3, <2>1 DEF Escribible
<1> QED  BY <1>1, <1>4, <1>5 DEF MemoriaEnOrden, EnZona, MemoriaInv, DocBien

\* Whatever is read, by whichever of the two readers, into a pool of whichever size:
\* strings and slots never meet, a string that is copied has room for its terminator
\* until the pool is said to be full, what is written in place never passes what is read,
\* and no string of the document is cut or written over.
THEOREM MemoriaEnOrdenCorrect == Lectura => []MemoriaEnOrden
<1>1. Init \/ MpInit => IInv
  BY InitBien
<1>2. IInv /\ [Next \/ MpNext]_vars => IInv'
  BY PasoQueda DEF Conservado
<1>3. IInv => MemoriaEnOrden
  BY EnOrden
<1> QED  BY <1>1, <1>2, <1>3, PTL DEF Lectura

\* What a string of the document says, up to and with its NUL, is still said after a step.
Intacta(ref) ==
  /\ ref.en = "pool"  => \A i \in ref.p..(ref.p + ref.n) : mem'.bytes[i] = mem.bytes[i]
  /\ ref.en = "texto" => \A i \in ref.p..(ref.p + ref.n) : mem'.buf[i] = mem.buf[i]
CadenasIntactas == \A i \in DOMAIN doc : Intacta(doc[i].clave) /\ Intacta(doc[i].dato)

LEMMA EnteraIntacta ==
  ASSUME MemoriaInv, NEW q \in Nat, Respeta(mem, mem', q), NEW ref, Entera(mem, ref)
  PROVE  Intacta(ref)
<1>1. EnZona(mem) /\ mem \in Mem
  BY Hechos
<1>2. /\ mem.izq \in Nat /\ mem.der \in Nat /\ mem.escribe \in Nat /\ Len(mem.buf) \in Nat /\ Len(mem.bytes) \in Nat
  BY <1>1, Campos
<1>3. ASSUME ref.en = "pool", NEW i \in ref.p..(ref.p + ref.n) PROVE mem'.bytes[i] = mem.bytes[i]
  <2>1. ref.p \in 1..(mem.izq - 1) /\ ref.n \in 0..(mem.izq - 1 - ref.p)
    BY <1>3 DEF Entera, Alojada
  <2>2. i \in 1..(mem.izq - 1)
    BY <1>2, <1>3, <2>1, Dentro
  <2> QED  BY <2>2 DEF Respeta
<1>4. ASSUME ref.en = "texto", NEW i \in ref.p..(ref.p + ref.n) PROVE mem'.buf[i] = mem.buf[i]
  <2>1. /\ ref.p \in 1..(mem.escribe - 1) /\ ref.n \in 0..(mem.escribe - 1 - ref.p)
        /\ ref.p + ref.n <= Len(mem.buf) /\ ~mem.copia
    BY <1>4 DEF Entera, Alojada
  <2>2. i \in 1..(mem.escribe - 1)
    BY <1>2, <1>4, <2>1, Dentro
  <2>3. i <= Len(mem.buf)
    <3>1. PICK p, n, k \in Nat : p = ref.p /\ n = ref.n /\ k = Len(mem.buf) /\ p + n <= k
      BY <1>2, <2>1
    <3> QED  BY <1>4, <3>1
  <2>4. i \in 1..Len(mem.buf) /\ i < mem.escribe
    BY <1>2, <2>2, <2>3
  <2> QED  BY <2>1, <2>4 DEF Respeta
<1> QED  BY <1>3, <1>4 DEF Intacta

\* However much is read after it, copied or in place, with escapes or repeated keys, a
\* string that the document keeps says what it said (StringCopier.hpp, StringMover.hpp,
\* MemoryPool.hpp).
THEOREM CadenasIntactasCorrect == Lectura => [][CadenasIntactas]_vars
<1>1. Init \/ MpInit => IInv
  BY InitBien
<1>2. IInv /\ [Next \/ MpNext]_vars => IInv'
  BY PasoQueda DEF Conservado
<1>3. IInv /\ [Next \/ MpNext]_vars => CadenasIntactas
  <2> SUFFICES ASSUME IInv, [Next \/ MpNext]_vars PROVE CadenasIntactas
    OBVIOUS
  <2>1. PICK q \in Nat : Respeta(mem, mem', q)
    BY PasoQueda DEF Conservado, Conserva
  <2>2. MemoriaInv /\ \A i \in DOMAIN doc : Entera(mem, doc[i].clave) /\ Entera(mem, doc[i].dato)
    BY DEF IInv, DocInv, DocBien
  <2> QED  BY <2>1, <2>2, EnteraIntacta DEF CadenasIntactas
<1> QED  BY <1>1, <1>2, <1>3, PTL DEF Lectura
=============================================================================
