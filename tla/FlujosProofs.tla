---------------------------- MODULE FlujosProofs ----------------------------
(*************************************************************************)
(* Proofs about the WebSocket handler of AsyncWebSocket.cpp, composed    *)
(* with the event source (AsyncFlujos): the text of a queued message is  *)
(* kept until it is sent, and what reaches a peer is whole messages.     *)
(*                                                                       *)
(* Why the invariant is what it is.  Of the queue of a client only the   *)
(* first message is ever under way: the ones behind it have sent nothing *)
(* and are not finished, and no number appears in it twice (EnCola).     *)
(* What the peer has of the message it is reading is exactly what the    *)
(* first one has sent (EnPar).  textAll() walks the list of clients with *)
(* a cursor while acks are handled between two of its steps: the clients *)
(* from the cursor on have not got its message yet (CursorInv), so it    *)
(* can be queued there without a repeated number.  The buffer is locked  *)
(* while the cursor walks and is in use as long as a queue holds it, so  *)
(* _cleanBuffers() keeps it (BuferesInv).                                *)
(*                                                                       *)
(* Sigue(k, r, n, x) is what every operation of a client's queue has in  *)
(* common: the peer forgets nothing, and a message leaves the queue only *)
(* when it is empty or the peer has it whole.                            *)
(*************************************************************************)
EXTENDS AsyncFlujos, FiniteSetTheorems, SequenceTheorems, WellFoundedInduction, TLAPS

\* Types.
Estados  == {"no", "CONNECTED", "DISCONNECTING", "fuera"}
Ops      == {"", "PING", "PONG", "DISCONNECT"}
Controles == [op : Ops, largo : Int, ido : BOOLEAN]
Mensajes == [n : Nat \ {0}, largo : Nat, comun : BOOLEAN, sent : Nat, ack : Nat, acked : Nat, acabado : BOOLEAN]
Pares    == [de : Nat, van : Nat, hechos : SUBSET Nat, mal : BOOLEAN]
Registros ==
  [est : Estados, control : Seq(Controles), mensajes : Seq(Mensajes), vuelo : Int, porAvisar : Int,
   trama : [op : Ops, largo : Int, leido : Int], par : Pares, descuadre : BOOLEAN]

\* The queue of k holds message n of length l; k has, or its peer has had, message n.
Tiene(k, n, l, comun) ==
  \E i \in 1..Len(k.mensajes) :
    k.mensajes[i].n = n /\ k.mensajes[i].largo = l /\ k.mensajes[i].comun = comun
Usa(k, n) == n \in k.par.hechos \/ \E i \in 1..Len(k.mensajes) : k.mensajes[i].n = n

\* A queue of messages, given the ones the peer has had; the peer, given the queue.
AMedias(m) == 0 < m.sent /\ m.sent < m.largo
EnCola(ms, hechos) ==
  /\ \A i, j \in 1..Len(ms) : ms[i].n = ms[j].n => i = j
  /\ \A i \in 1..Len(ms) :
       /\ ms[i].sent <= ms[i].largo /\ (ms[i].acabado => ms[i].sent = ms[i].largo)
       /\ i > 1 => ms[i].sent = 0 /\ ~ms[i].acabado
       /\ ms[i].n \in hechos <=> ms[i].sent = ms[i].largo /\ ms[i].largo > 0
EnPar(ms, p) ==
  /\ ~p.mal
  /\ IF Len(ms) > 0 /\ AMedias(ms[1]) THEN p.de = ms[1].n /\ p.van = ms[1].sent ELSE p.de = 0
EnOrden(k) == k \in Registros /\ EnCola(k.mensajes, k.par.hechos) /\ EnPar(k.mensajes, k.par)

\* Every client has such a queue, and no message from the future.
Cursores == [n : Nat, largo : Nat, en : Nat]
ClientesInv ==
  /\ cl \in [Clientes -> Registros] /\ creados \in Nat
  /\ \A c \in Clientes :
       /\ EnOrden(cl[c])
       /\ cl[c].est = "no" => cl[c].mensajes = <<>> /\ cl[c].par = SinPar
       /\ \A n \in Nat : Usa(cl[c], n) => n <= creados
\* The list of clients.
ListaInv ==
  /\ clientes \in Seq(Clientes)
  /\ \A p, q \in 1..Len(clientes) : clientes[p] = clientes[q] => p = q
  /\ \A p \in 1..Len(clientes) : cl[clientes[p]].est # "no"
  /\ \A c \in Clientes : Vivo(c) => \E p \in 1..Len(clientes) : clientes[p] = c
\* textAll(): the clients from the one it is at on have not got its message yet.
CursorInv ==
  /\ cursor \in Cursores /\ cursor.n <= creados
  /\ cursor.n = 0 => cursor.en = Nadie
  /\ cursor.en = Hecho => \A c \in Clientes : ~Usa(cl[c], cursor.n)
  /\ cursor.en \in Clientes => \E p \in 1..Len(clientes) :
       /\ clientes[p] = cursor.en
       /\ \A q \in p..Len(clientes) : ~Usa(cl[clientes[q]], cursor.n)
\* The buffers of textAll() and of the queues exist.
BuferesInv ==
  /\ cursor.n # 0 /\ cursor.en # Hecho => cursor.n \in DOMAIN bufs /\ bufs[cursor.n] = TRUE
  /\ DOMAIN bufs \subseteq Nat
  /\ \A c \in Clientes, n, l \in Nat : Tiene(cl[c], n, l, TRUE) => n \in DOMAIN bufs
WsInv == ClientesInv /\ ListaInv /\ CursorInv /\ BuferesInv

\* What a step makes of a client: n is the message that it is given, or 0.
Sigue(k, r, nuevo, comun) ==
  /\ EnOrden(r) /\ r.est # "no"
  /\ k.par.hechos \subseteq r.par.hechos
  /\ \A n \in Nat : Usa(r, n) => Usa(k, n) \/ (n # 0 /\ n = nuevo)
  /\ \A n, l \in Nat, x \in BOOLEAN : Tiene(r, n, l, x) => Tiene(k, n, l, x) \/ (n # 0 /\ n = nuevo /\ x = comun)
  /\ \A n, l \in Nat, x \in BOOLEAN :
       Tiene(k, n, l, x) => l = 0 \/ n \in r.par.hechos \/ Tiene(r, n, l, x)

-----------------------------------------------------------------------------
(* Positions in sequences.                                                 *)
LEMMA MinEsta == ASSUME NEW T, T \subseteq Nat, T # {} PROVE Min(T) \in T /\ \A y \in T : Min(T) <= y
<1>1. PICK x \in T : \A y \in T : <<y, x>> \notin OpToRel(<, Nat)
  BY NatLessThanWellFounded, WFMin
<1>2. \A y \in T : ~(y < x)
  BY <1>1 DEF OpToRel
<1>3. \A y \in T : x <= y
  BY <1>2
<1> QED  BY <1>3 DEF Min

LEMMA PrimeroIgual ==
  ASSUME NEW S, NEW s \in Seq(S), NEW e
  PROVE  LET i == SelectInSeq(s, LAMBDA x : x = e)
         IN  \/ i = 0 /\ \A j \in 1..Len(s) : s[j] # e
             \/ i \in 1..Len(s) /\ s[i] = e
<1> DEFINE I == {j \in 1..Len(s) : s[j] = e}
<1>1. I \subseteq Nat
  OBVIOUS
<1>2. CASE I = {}
  BY <1>2 DEF SelectInSeq
<1>3. CASE I # {}
  <2>1. Min(I) \in I
    BY <1>1, <1>3, MinEsta
  <2>2. SelectInSeq(s, LAMBDA x : x = e) = Min(I)
    BY <1>3 DEF SelectInSeq
  <2> QED  BY <2>1, <2>2
<1> QED  BY <1>2, <1>3

\* A sequence without the first e.
LEMMA Quitado ==
  ASSUME NEW S, NEW s \in Seq(S), NEW e
  PROVE  LET r == RemoveFirst(s, e)
         IN  /\ r \in Seq(S)
             /\ \/ r = s /\ \A j \in 1..Len(s) : s[j] # e
                \/ \E i \in 1..Len(s) :
                     /\ s[i] = e /\ Len(r) = Len(s) - 1
                     /\ \A j \in 1..Len(r) : r[j] = s[IF j < i THEN j ELSE j + 1]
<1>1. CASE \A j \in 1..Len(s) : s[j] # e
  BY <1>1 DEF RemoveFirst
<1>2. CASE \E j \in 1..Len(s) : s[j] = e
  <2>1. PICK i \in 1..Len(s) : i = SelectInSeq(s, LAMBDA x : x = e) /\ s[i] = e
    BY <1>2, PrimeroIgual
  <2>2. RemoveFirst(s, e) = SubSeq(s, 1, i - 1) \o SubSeq(s, i + 1, Len(s))
    BY <1>2, <2>1 DEF RemoveFirst, RemoveAt
  <2> DEFINE a == SubSeq(s, 1, i - 1)
             b == SubSeq(s, i + 1, Len(s))
  <2>3. a \in Seq(S) /\ Len(a) = i - 1 /\ \A j \in 1..i - 1 : a[j] = s[j]
    BY SubSeqProperties
  <2>4. b \in Seq(S) /\ Len(b) = Len(s) - i /\ \A j \in 1..Len(s) - i : b[j] = s[j + i]
    BY SubSeqProperties
  <2> HIDE DEF a, b
  <2>5. /\ a \o b \in Seq(S) /\ Len(a \o b) = Len(s) - 1
        /\ \A j \in 1..Len(s) - 1 : (a \o b)[j] = IF j <= i - 1 THEN a[j] ELSE b[j - (i - 1)]
    <3>1. Len(s) \in Nat /\ i \in Int /\ Len(a) + Len(b) = Len(s) - 1
      BY <2>3, <2>4
    <3>2. /\ a \o b \in Seq(S) /\ Len(a \o b) = Len(a) + Len(b)
          /\ \A j \in 1..Len(a) + Len(b) : (a \o b)[j] = IF j <= Len(a) THEN a[j] ELSE b[j - Len(a)]
      BY <2>3, <2>4, ConcatProperties
    <3> QED  BY <2>3, <3>1, <3>2
  <2>6. \A j \in 1..Len(s) - 1 : (a \o b)[j] = s[IF j < i THEN j ELSE j + 1]
    BY <2>3, <2>4, <2>5
  <2>7. RemoveFirst(s, e) = a \o b
    BY <2>2 DEF a, b
  <2> QED  BY <2>1, <2>5, <2>6, <2>7
<1> QED  BY <1>1, <1>2

LEMMA SinAcabadosCola ==
  ASSUME NEW ms \in Seq(Mensajes), NEW h, EnCola(ms, h)
  PROVE  \/ SinAcabados(ms) = ms
         \/ Len(ms) > 0 /\ ms[1].acabado /\ SinAcabados(ms) = Tail(ms)
<1> DEFINE I == {j \in 1..Len(ms) : ~ms[j].acabado}
           i == SelectInSeq(ms, LAMBDA m : ~m.acabado)
<1>1. I \subseteq Nat /\ \A j \in 2..Len(ms) : j \in I
  BY DEF EnCola
<1>2. CASE I = {}
  <2>1. i = 0 /\ SinAcabados(ms) = <<>>
    BY <1>2 DEF SelectInSeq, SinAcabados
  <2>2. CASE Len(ms) = 0
    BY <2>1, <2>2
  <2>3. CASE Len(ms) > 0
    <3>1. Len(ms) = 1 /\ ms[1].acabado
      BY <1>1, <1>2, <2>3
    <3>2. Tail(ms) = <<>>
      <4>1. ms # <<>>
        BY <3>1
      <4>2. Tail(ms) \in Seq(Mensajes) /\ Len(Tail(ms)) = 0
        BY <3>1, <4>1, HeadTailProperties
      <4> QED  BY <4>2, EmptySeq
    <3> QED  BY <2>1, <3>1, <3>2
  <2> QED  BY <2>2, <2>3
<1>3. CASE I # {}
  <2>1. i = Min(I) /\ Min(I) \in I /\ \A y \in I : Min(I) <= y
    BY <1>1, <1>3, MinEsta DEF SelectInSeq
  <2>2. PICK j \in 1..Len(ms) : j = i /\ ~ms[j].acabado /\ \A y \in I : j <= y
    BY <2>1
  <2>3. SinAcabados(ms) = SubSeq(ms, j, Len(ms))
    BY <2>2 DEF SinAcabados
  <2>4. CASE j = 1
    BY <2>3, <2>4
  <2>5. CASE j # 1
    <3>1. j = 2 /\ ms[1].acabado
      BY <1>1, <2>2, <2>5
    <3> QED  BY <2>3, <3>1
  <2> QED  BY <2>4, <2>5
<1> QED  BY <1>2, <1>3

-----------------------------------------------------------------------------
(* The queue of one client.                                                *)
LEMMA SigueTrans ==
  ASSUME NEW k, NEW r, NEW s, NEW nuevo, NEW comun, Sigue(k, r, nuevo, comun), Sigue(r, s, 0, FALSE)
  PROVE  Sigue(k, s, nuevo, comun)
BY DEF Sigue

LEMMA MismaCola ==
  ASSUME NEW k, EnOrden(k), NEW r \in Registros, r.est # "no", r.mensajes = k.mensajes, r.par = k.par
  PROVE  Sigue(k, r, 0, FALSE)
<1>1. EnOrden(r)
  BY DEF EnOrden
<1> QED  BY <1>1 DEF Sigue, Usa, Tiene

\* The first message goes on, and what the peer has of it.
LEMMA OtroPrimero ==
  ASSUME NEW k, EnOrden(k), Len(k.mensajes) > 0, NEW r \in Registros, r.est # "no",
         NEW m \in Mensajes, r.mensajes = [k.mensajes EXCEPT ![1] = m],
         m.n = k.mensajes[1].n, m.largo = k.mensajes[1].largo, m.comun = k.mensajes[1].comun,
         m.sent <= m.largo, m.acabado => m.sent = m.largo,
         m.n \in r.par.hechos <=> m.sent = m.largo /\ m.largo > 0,
         k.par.hechos \subseteq r.par.hechos, r.par.hechos \subseteq k.par.hechos \cup {m.n},
         ~r.par.mal, IF AMedias(m) THEN r.par.de = m.n /\ r.par.van = m.sent ELSE r.par.de = 0
  PROVE  Sigue(k, r, 0, FALSE)
<1>1. /\ k.mensajes \in Seq(Mensajes) /\ Len(r.mensajes) = Len(k.mensajes) /\ r.mensajes[1] = m
      /\ \A i \in 1..Len(k.mensajes) : i # 1 => r.mensajes[i] = k.mensajes[i]
  BY DEF EnOrden, Registros
<1>2. \A i \in 1..Len(k.mensajes) :
        r.mensajes[i].n = k.mensajes[i].n /\ r.mensajes[i].largo = k.mensajes[i].largo /\ r.mensajes[i].comun = k.mensajes[i].comun
  BY <1>1
<1>3. EnCola(k.mensajes, k.par.hechos)
  BY DEF EnOrden
<1>4. \A i, j \in 1..Len(r.mensajes) : r.mensajes[i].n = r.mensajes[j].n => i = j
  BY <1>1, <1>2, <1>3 DEF EnCola
<1>5. ASSUME NEW i \in 1..Len(r.mensajes)
      PROVE  /\ r.mensajes[i].sent <= r.mensajes[i].largo /\ (r.mensajes[i].acabado => r.mensajes[i].sent = r.mensajes[i].largo)
             /\ i > 1 => r.mensajes[i].sent = 0 /\ ~r.mensajes[i].acabado
             /\ r.mensajes[i].n \in r.par.hechos <=> r.mensajes[i].sent = r.mensajes[i].largo /\ r.mensajes[i].largo > 0
  <2>1. CASE i = 1
    BY <1>1, <2>1
  <2>2. CASE i # 1
    <3>1. r.mensajes[i] = k.mensajes[i] /\ k.mensajes[i].n # m.n /\ i \in 1..Len(k.mensajes) /\ 1 \in 1..Len(k.mensajes)
      BY <1>1, <1>3, <2>2 DEF EnCola
    <3>2. k.mensajes[i].n \in r.par.hechos <=> k.mensajes[i].n \in k.par.hechos
      BY <3>1
    <3> QED  BY <1>3, <2>2, <3>1, <3>2 DEF EnCola
  <2> QED  BY <2>1, <2>2
<1>6. EnCola(r.mensajes, r.par.hechos)
  BY <1>4, <1>5 DEF EnCola
<1>7. EnPar(r.mensajes, r.par)
  BY <1>1 DEF EnPar
<1>8. EnOrden(r)
  BY <1>6, <1>7 DEF EnOrden
<1>9. \A n \in Nat : Usa(r, n) => Usa(k, n)
  BY <1>1, <1>2 DEF Usa
<1>10. \A n, l \in Nat, x \in BOOLEAN : Tiene(r, n, l, x) <=> Tiene(k, n, l, x)
  BY <1>1, <1>2 DEF Tiene
<1> QED  BY <1>8, <1>9, <1>10 DEF Sigue

LEMMA SinAcabadosSigue ==
  ASSUME NEW k, EnOrden(k), k.est # "no", NEW r, r = [k EXCEPT !.mensajes = SinAcabados(k.mensajes)]
  PROVE  Sigue(k, r, 0, FALSE)
<1>1. k \in Registros /\ k.mensajes \in Seq(Mensajes) /\ EnCola(k.mensajes, k.par.hechos) /\ EnPar(k.mensajes, k.par)
  BY DEF EnOrden, Registros
<1>2. CASE SinAcabados(k.mensajes) = k.mensajes
  <2>1. r = k
    BY <1>1, <1>2 DEF Registros
  <2> QED  BY <1>1, <2>1, MismaCola
<1>3. CASE Len(k.mensajes) > 0 /\ k.mensajes[1].acabado /\ SinAcabados(k.mensajes) = Tail(k.mensajes)
  <2>1. PICK t \in Seq(Mensajes) : /\ t = SinAcabados(k.mensajes) /\ Len(t) = Len(k.mensajes) - 1
                                   /\ \A i \in 1..Len(t) : t[i] = k.mensajes[i + 1]
    <3>1. k.mensajes # <<>> /\ Len(k.mensajes) \in Nat
      BY <1>1, <1>3
    <3>2. /\ Tail(k.mensajes) \in Seq(Mensajes) /\ Len(Tail(k.mensajes)) = Len(k.mensajes) - 1
          /\ \A i \in 1..Len(Tail(k.mensajes)) : Tail(k.mensajes)[i] = k.mensajes[i + 1]
      BY <1>1, <3>1, HeadTailProperties
    <3> QED  BY <1>3, <3>2
  <2>2. r \in Registros /\ r.mensajes = t /\ r.par = k.par /\ r.est = k.est
    BY <1>1, <2>1 DEF Registros
  <2> DEFINE m == k.mensajes[1]
  <2>0. m \in Mensajes /\ m.sent = m.largo /\ m.largo \in Nat /\ (m.n \in k.par.hechos <=> m.largo > 0)
    <3>1. m \in Mensajes /\ 1 \in 1..Len(k.mensajes)
      BY <1>1, <1>3
    <3>2. m.sent = m.largo /\ (m.n \in k.par.hechos <=> m.sent = m.largo /\ m.largo > 0)
      BY <1>1, <1>3, <3>1 DEF EnCola
    <3> QED  BY <3>1, <3>2 DEF Mensajes
  <2>3. EnCola(t, k.par.hechos)
    <3>1. ASSUME NEW i \in 1..Len(t) PROVE i + 1 \in 1..Len(k.mensajes) /\ i + 1 > 1 /\ t[i] = k.mensajes[i + 1]
      BY <2>1
    <3>2. \A i, j \in 1..Len(t) : t[i].n = t[j].n => i = j
      BY <1>1, <3>1 DEF EnCola
    <3> QED  BY <1>1, <3>1, <3>2 DEF EnCola
  <2>4. EnPar(t, k.par)
    <3>1. k.par.de = 0 /\ ~k.par.mal
      BY <1>1, <2>0 DEF EnPar, AMedias
    <3>2. Len(t) > 0 => ~AMedias(t[1])
      <4>1. Len(t) > 0 => 2 \in 1..Len(k.mensajes) /\ t[1] = k.mensajes[2]
        BY <1>3, <2>1
      <4>2. \A i \in 1..Len(k.mensajes) : i > 1 => k.mensajes[i].sent = 0
        BY <1>1 DEF EnCola
      <4> QED  BY <4>1, <4>2 DEF AMedias
    <3> QED  BY <3>1, <3>2 DEF EnPar
  <2>5. EnOrden(r)
    BY <2>2, <2>3, <2>4 DEF EnOrden
  <2>6. \A i \in 1..Len(t) : i + 1 \in 1..Len(k.mensajes) /\ t[i] = k.mensajes[i + 1]
    BY <2>1
  <2>7. \A i \in 1..Len(k.mensajes) : i = 1 \/ (i - 1 \in 1..Len(t) /\ t[i - 1] = k.mensajes[i])
    BY <2>1
  <2>8. k.mensajes[1].largo = 0 \/ k.mensajes[1].n \in k.par.hechos
    BY <2>0
  <2>9. \A n \in Nat : Usa(r, n) => Usa(k, n)
    BY <2>2, <2>6 DEF Usa
  <2>10. \A n, l \in Nat, x \in BOOLEAN : Tiene(r, n, l, x) => Tiene(k, n, l, x)
    BY <2>2, <2>6 DEF Tiene
  <2>11. \A n, l \in Nat, x \in BOOLEAN : Tiene(k, n, l, x) => l = 0 \/ n \in r.par.hechos \/ Tiene(r, n, l, x)
    BY <2>2, <2>7, <2>8 DEF Tiene
  <2> QED  BY <2>2, <2>5, <2>9, <2>10, <2>11 DEF Sigue
<1> QED  BY <1>1, <1>2, <1>3, SinAcabadosCola

\* A frame that a control message asks for is none of the peer's messages.
LEMMA EnviarControlSigue ==
  ASSUME NEW k, EnOrden(k), k.est # "no", Len(k.control) > 0
  PROVE  Sigue(k, EnviarControl(k), 0, FALSE)
<1>1. k \in Registros /\ k.control \in Seq(Controles) /\ k.vuelo \in Int /\ k.descuadre \in BOOLEAN
  BY DEF EnOrden, Registros
<1>2. PICK x \in Controles : x = Head(k.control) /\ x = k.control[1]
  BY <1>1
<1>3. x.largo \in Int /\ x.ido \in BOOLEAN
  BY DEF Controles
<1> DEFINE f == [op |-> "CONTROL", fin |-> TRUE, n |-> 0, desde |-> 0, largo |-> x.largo, total |-> x.largo]
<1>4. Recibe(k.par, f) = k.par
  BY DEF Recibe
<1>5. PICK v \in Int : v = k.vuelo + CabeceraDe(x.largo) + x.largo
  BY <1>1, <1>3 DEF CabeceraDe
<1>6. PICK cs \in Seq(Controles) : cs = [k.control EXCEPT ![1].ido = TRUE]
  <2>1. [x EXCEPT !.ido = TRUE] \in Controles
    BY DEF Controles
  <2>2. [k.control EXCEPT ![1].ido = TRUE] = [k.control EXCEPT ![1] = [x EXCEPT !.ido = TRUE]]
    BY <1>2
  <2>3. [k.control EXCEPT ![1] = [x EXCEPT !.ido = TRUE]] \in Seq(Controles)
    BY <1>1, <2>1
  <2> QED  BY <2>2, <2>3
<1>7. PICK d \in BOOLEAN : d = (k.descuadre \/ x.ido)
  BY <1>1, <1>3
<1>8. EnviarTrama(k, f) = [k EXCEPT !.vuelo = v, !.par = k.par]
  BY <1>4, <1>5 DEF EnviarTrama
<1>9. EnviarTrama(k, f) \in Registros /\ EnviarTrama(k, f).control = k.control /\ EnviarTrama(k, f).descuadre = k.descuadre
      /\ EnviarTrama(k, f).mensajes = k.mensajes /\ EnviarTrama(k, f).par = k.par /\ EnviarTrama(k, f).est = k.est
  BY <1>1, <1>8 DEF Registros
<1>10. EnviarControl(k) = [EnviarTrama(k, f) EXCEPT !.control = cs, !.descuadre = d]
  BY <1>2, <1>6, <1>7, <1>9 DEF EnviarControl
<1>11. /\ EnviarControl(k) \in Registros /\ EnviarControl(k).est # "no"
       /\ EnviarControl(k).mensajes = k.mensajes /\ EnviarControl(k).par = k.par
  BY <1>9, <1>10 DEF Registros
<1> QED  BY <1>11, MismaCola

\* The next frame of the first message is the one that the peer waits for.
LEMMA EnviarMensajeSigue ==
  ASSUME NEW k, EnOrden(k), k.est # "no", Len(k.mensajes) > 0, VentanaDeTrama(k) > 0
  PROVE  Sigue(k, EnviarMensaje(k), 0, FALSE)
<1>1. /\ k \in Registros /\ k.mensajes \in Seq(Mensajes) /\ k.vuelo \in Int /\ k.par \in Pares
      /\ EnCola(k.mensajes, k.par.hechos) /\ EnPar(k.mensajes, k.par)
  BY DEF EnOrden, Registros
<1>2. PICK m \in Mensajes : m = Head(k.mensajes) /\ m = k.mensajes[1]
  BY <1>1
<1>3. /\ m.n \in Nat \ {0} /\ m.largo \in Nat /\ m.comun \in BOOLEAN /\ m.sent \in Nat
      /\ m.ack \in Nat /\ m.acked \in Nat /\ m.acabado \in BOOLEAN
  BY DEF Mensajes
<1>4. PICK w \in Int : w = VentanaDeTrama(k) /\ w > 0
  BY <1>1, AsyncWebSocketAssumption DEF VentanaDeTrama, Espacio
<1>5. /\ m.sent <= m.largo /\ (m.acabado => m.sent = m.largo)
      /\ m.n \in k.par.hechos <=> m.sent = m.largo /\ m.largo > 0
  <2>1. 1 \in 1..Len(k.mensajes)
    BY <1>1
  <2> QED  BY <1>1, <1>2, <2>1 DEF EnCola
<1>6. k.par.hechos \subseteq Nat /\ ~k.par.mal /\ (IF AMedias(m) THEN k.par.de = m.n /\ k.par.van = m.sent ELSE k.par.de = 0)
  BY <1>1, <1>2 DEF EnPar, Pares
<1>7. CASE m.acabado \/ m.acked < m.ack
  <2>1. EnviarMensaje(k) = k
    BY <1>2, <1>7 DEF EnviarMensaje
  <2> QED  BY <1>1, <2>1, MismaCola
<1>8. CASE ~(m.acabado \/ m.acked < m.ack) /\ m.sent = m.largo
  <2>1. PICK b \in BOOLEAN : b = (m.comun \/ EntreTramas(m))
    BY <1>3 DEF EntreTramas
  <2>2. PICK m2 \in Mensajes : m2 = [m EXCEPT !.acabado = b]
    BY DEF Mensajes
  <2>3. m2.n = m.n /\ m2.largo = m.largo /\ m2.comun = m.comun /\ m2.sent = m.sent
    BY <2>2 DEF Mensajes
  <2>4. EnviarMensaje(k) = [k EXCEPT !.mensajes[1].acabado = b]
    BY <1>2, <1>8, <2>1 DEF EnviarMensaje
  <2>5. EnviarMensaje(k) = [k EXCEPT !.mensajes = [k.mensajes EXCEPT ![1] = m2]]
    BY <1>1, <1>2, <2>2, <2>4 DEF Registros
  <2>6. PICK ms \in Seq(Mensajes) : ms = [k.mensajes EXCEPT ![1] = m2]
    <3>1. 1 \in 1..Len(k.mensajes)
      BY <1>1
    <3> QED  BY <1>1, <3>1, ExceptSeq
  <2>7. PICK r \in Registros : r = EnviarMensaje(k) /\ r.mensajes = ms /\ r.par = k.par /\ r.est = k.est
    BY <1>1, <2>5, <2>6 DEF Registros
  <2>8. ~AMedias(m2)
    BY <1>3, <1>8, <2>3 DEF AMedias
  <2>9. k.par.de = 0
    BY <1>3, <1>6, <1>8 DEF AMedias
  <2>10. m2.sent <= m2.largo /\ m2.sent = m2.largo /\ (m2.n \in r.par.hechos <=> m2.sent = m2.largo /\ m2.largo > 0)
    BY <1>5, <1>8, <2>3, <2>7
  <2> QED  BY <1>2, <1>6, <2>3, <2>6, <2>7, <2>8, <2>9, <2>10, OtroPrimero
<1>9. CASE ~(m.acabado \/ m.acked < m.ack) /\ m.sent # m.largo
  <2>1. PICK n \in Nat : /\ n = (IF w < m.largo - m.sent THEN w ELSE m.largo - m.sent)
                         /\ n > 0 /\ m.sent + n <= m.largo
    BY <1>3, <1>4, <1>5, <1>9
  <2>a. PorConfirmar(n) \in Nat
    BY SMTT(60) DEF PorConfirmar, CabeceraDe
  <2>b. m.sent + n \in Nat /\ m.ack + PorConfirmar(n) \in Nat
    BY <1>3, <2>a
  <2>2. PICK s \in Nat, a \in Nat : s = m.sent + n /\ a = m.ack + PorConfirmar(n)
    BY <2>b
  <2>3. PICK m2 \in Mensajes : m2 = [m EXCEPT !.sent = s, !.ack = a]
    BY DEF Mensajes
  <2>4. m2.n = m.n /\ m2.largo = m.largo /\ m2.comun = m.comun /\ m2.sent = s /\ m2.acabado = m.acabado
    BY <2>3 DEF Mensajes
  <2>5. PICK op \in {"TEXT", "CONTINUATION"} : op = IF n > 0 /\ m.sent = 0 THEN "TEXT" ELSE "CONTINUATION"
    OBVIOUS
  <2>6. PICK fin \in BOOLEAN : fin = (s = m.largo)
    OBVIOUS
  <2> DEFINE f == [op |-> op, fin |-> fin, n |-> m.n, desde |-> m.sent, largo |-> n, total |-> m.largo]
  <2>p. PICK p : p = Recibe(k.par, f)
    OBVIOUS
  <2>7. /\ p \in Pares /\ ~p.mal
        /\ p.hechos = IF fin THEN k.par.hechos \cup {m.n} ELSE k.par.hechos
        /\ IF fin THEN p.de = 0 ELSE p.de = m.n /\ p.van = s
    <3>1. (op = "CONTINUATION" => k.par.de = m.n /\ k.par.van = m.sent) /\ (op = "TEXT" => k.par.de = 0 /\ m.sent = 0)
      BY <1>3, <1>5, <1>6, <1>9, <2>1, <2>5 DEF AMedias
    <3>2. m.n \notin k.par.hechos
      BY <1>5, <1>9
    <3>3. (op = "CONTINUATION" => (k.par.de = f.n /\ k.par.van = f.desde)) /\ (op = "TEXT" => k.par.de = 0 /\ f.desde = 0)
      BY <3>1
    <3>4. f.desde + f.largo = s
      BY <2>2
    <3>5. p = [de     |-> IF fin THEN 0 ELSE m.n,
               van    |-> IF fin THEN 0 ELSE s,
               hechos |-> IF fin THEN k.par.hechos \cup {m.n} ELSE k.par.hechos,
               mal    |-> FALSE]
      BY <1>6, <2>p, <2>5, <2>6, <3>2, <3>3, <3>4 DEF Recibe
    <3>6. p.de = (IF fin THEN 0 ELSE m.n) /\ p.van = (IF fin THEN 0 ELSE s) /\ p.mal = FALSE
          /\ p.hechos = (IF fin THEN k.par.hechos \cup {m.n} ELSE k.par.hechos)
      BY <3>5
    <3>7. (IF fin THEN 0 ELSE m.n) \in Nat /\ (IF fin THEN 0 ELSE s) \in Nat
          /\ (IF fin THEN k.par.hechos \cup {m.n} ELSE k.par.hechos) \in SUBSET Nat
      BY <1>3, <1>6
    <3>8. p \in Pares
      BY <3>5, <3>7 DEF Pares
    <3> QED  BY <3>6, <3>8
  <2>8. PICK v \in Int : v = k.vuelo + CabeceraDe(n) + n
    BY <1>1 DEF CabeceraDe
  <2>9. PICK ms \in Seq(Mensajes) : ms = [k.mensajes EXCEPT ![1] = m2]
    <3>1. 1 \in 1..Len(k.mensajes)
      BY <1>1
    <3> QED  BY <1>1, <3>1, ExceptSeq
  <2>10. EnviarTrama(k, f) = [k EXCEPT !.vuelo = v, !.par = p]
    BY <2>p, <2>8 DEF EnviarTrama
  <2>11. EnviarMensaje(k) = [EnviarTrama(k, f) EXCEPT !.mensajes[1] = m2]
    BY <1>2, <1>4, <1>9, <2>1, <2>2, <2>3, <2>5, <2>6 DEF EnviarMensaje
  <2>12. EnviarTrama(k, f) \in Registros /\ EnviarTrama(k, f).mensajes = k.mensajes /\ EnviarTrama(k, f).par = p /\ EnviarTrama(k, f).est = k.est
    BY <1>1, <2>7, <2>10 DEF Registros
  <2>13. PICK r \in Registros : r = EnviarMensaje(k) /\ r.mensajes = ms /\ r.par = p /\ r.est = k.est
    BY <2>9, <2>11, <2>12 DEF Registros
  <2>14. 0 < s /\ s <= m.largo /\ (fin <=> s = m.largo)
    <3>1. 0 < s /\ s <= m.largo
      BY <1>3, <2>1, <2>2
    <3>2. fin <=> s = m.largo
      BY <2>6
    <3> QED  BY <3>1, <3>2
  <2>16. AMedias(m2) <=> ~fin
    BY <1>3, <2>4, <2>14 DEF AMedias
  <2>15. /\ m2.sent <= m2.largo /\ ~m2.acabado
         /\ m2.n \in p.hechos <=> m2.sent = m2.largo /\ m2.largo > 0
         /\ k.par.hechos \subseteq p.hechos /\ p.hechos \subseteq k.par.hechos \cup {m2.n}
    <3>1. m.largo > 0 /\ m.n \notin k.par.hechos
      BY <1>3, <1>5, <1>9, <2>14
    <3>2. m2.sent <= m2.largo /\ ~m2.acabado
      BY <1>9, <2>4, <2>14
    <3>3. m2.n \in p.hechos <=> m2.sent = m2.largo
      BY <2>4, <2>7, <2>14, <3>1
    <3> QED  BY <2>4, <2>7, <3>1, <3>2, <3>3
  <2> QED  BY <1>2, <2>4, <2>7, <2>9, <2>13, <2>15, <2>16, OtroPrimero
<1> QED  BY <1>7, <1>8, <1>9

LEMMA DespacharSigue ==
  ASSUME NEW k, EnOrden(k), k.est # "no"
  PROVE  Sigue(k, Despachar(k), 0, FALSE)
<1>1. k \in Registros /\ k.mensajes \in Seq(Mensajes) /\ k.control \in Seq(Controles)
  BY DEF EnOrden, Registros
<1>2. (k.mensajes # <<>> => Len(k.mensajes) > 0) /\ (k.control # <<>> => Len(k.control) > 0)
  BY <1>1
<1>3. \/ Despachar(k) = k
      \/ k.control # <<>> /\ Despachar(k) = EnviarControl(k)
      \/ k.mensajes # <<>> /\ VentanaDeTrama(k) > 0 /\ Despachar(k) = EnviarMensaje(k)
  BY DEF Despachar
<1>4. Sigue(k, k, 0, FALSE)
  BY <1>1, MismaCola
<1> QED  BY <1>2, <1>3, <1>4, EnviarControlSigue, EnviarMensajeSigue

LEMMA RunQueueSigue ==
  ASSUME NEW k, EnOrden(k), k.est # "no"
  PROVE  Sigue(k, RunQueue(k), 0, FALSE)
<1>1. PICK r : r = [k EXCEPT !.mensajes = SinAcabados(k.mensajes)]
  OBVIOUS
<1>2. RunQueue(k) = Despachar(r)
  BY <1>1 DEF RunQueue
<1>3. Sigue(k, r, 0, FALSE)
  BY <1>1, SinAcabadosSigue
<1>4. Sigue(r, Despachar(r), 0, FALSE)
  BY <1>3, DespacharSigue DEF Sigue
<1> QED  BY <1>2, <1>3, <1>4, SigueTrans

\* A message with a number that the client has not got yet is queued behind the others.
LEMMA AnadirSigue ==
  ASSUME NEW k, EnOrden(k), k.est # "no", NEW m \in Mensajes, m.sent = 0, ~m.acabado, ~Usa(k, m.n),
         NEW r, r = [k EXCEPT !.mensajes = Append(k.mensajes, m)]
  PROVE  Sigue(k, r, m.n, m.comun)
<1>1. /\ k \in Registros /\ k.mensajes \in Seq(Mensajes) /\ k.par \in Pares
      /\ EnCola(k.mensajes, k.par.hechos) /\ EnPar(k.mensajes, k.par)
  BY DEF EnOrden, Registros
<1>2. PICK t \in Seq(Mensajes) :
        /\ t = Append(k.mensajes, m) /\ Len(t) = Len(k.mensajes) + 1 /\ t[Len(t)] = m
        /\ \A i \in 1..Len(k.mensajes) : t[i] = k.mensajes[i]
  <2> DEFINE t == Append(k.mensajes, m)
  <2>1. t \in Seq(Mensajes) /\ Len(t) = Len(k.mensajes) + 1 /\ t[Len(k.mensajes) + 1] = m
    BY <1>1, AppendProperties
  <2>2. \A i \in 1..Len(k.mensajes) : t[i] = k.mensajes[i]
    BY <1>1, AppendProperties
  <2> QED  BY <2>1, <2>2
<1>3. r \in Registros /\ r.mensajes = t /\ r.par = k.par /\ r.est = k.est
  BY <1>1, <1>2 DEF Registros
<1>4. m.n \in Nat \ {0} /\ m.largo \in Nat /\ m.n \notin k.par.hechos /\ \A i \in 1..Len(k.mensajes) : k.mensajes[i].n # m.n
  BY DEF Usa, Mensajes
<1>5. \A i \in 1..Len(t) : (i \in 1..Len(k.mensajes) /\ t[i] = k.mensajes[i]) \/ (i = Len(t) /\ t[i] = m)
  BY <1>1, <1>2
<1>6. EnCola(t, k.par.hechos)
  <2>1. \A i, j \in 1..Len(t) : t[i].n = t[j].n => i = j
    BY <1>1, <1>4, <1>5 DEF EnCola
  <2>2. ASSUME NEW i \in 1..Len(t)
        PROVE  /\ t[i].sent <= t[i].largo /\ (t[i].acabado => t[i].sent = t[i].largo)
               /\ i > 1 => t[i].sent = 0 /\ ~t[i].acabado
               /\ t[i].n \in k.par.hechos <=> t[i].sent = t[i].largo /\ t[i].largo > 0
    <3>1. CASE i \in 1..Len(k.mensajes) /\ t[i] = k.mensajes[i]
      BY <1>1, <3>1 DEF EnCola
    <3>2. CASE t[i] = m
      BY <1>4, <3>2
    <3> QED  BY <1>5, <3>1, <3>2
  <2> QED  BY <2>1, <2>2 DEF EnCola
<1>7. EnPar(t, k.par)
  <2>1. CASE Len(k.mensajes) = 0
    <3>1. t[1] = m /\ ~AMedias(m)
      BY <1>2, <2>1 DEF AMedias
    <3> QED  BY <1>1, <2>1, <3>1 DEF EnPar
  <2>2. CASE Len(k.mensajes) > 0
    <3>1. t[1] = k.mensajes[1] /\ Len(t) > 0
      BY <1>1, <1>2, <2>2
    <3> QED  BY <1>1, <2>2, <3>1 DEF EnPar
  <2> QED  BY <1>1, <2>1, <2>2
<1>8. EnOrden(r)
  BY <1>3, <1>6, <1>7 DEF EnOrden
<1>9. \A n \in Nat : Usa(r, n) => Usa(k, n) \/ (n # 0 /\ n = m.n)
  BY <1>3, <1>4, <1>5 DEF Usa
<1>10. \A n, l \in Nat, x \in BOOLEAN : Tiene(r, n, l, x) => Tiene(k, n, l, x) \/ (n # 0 /\ n = m.n /\ x = m.comun)
  BY <1>3, <1>4, <1>5 DEF Tiene
<1>11. \A i \in 1..Len(k.mensajes) : i \in 1..Len(t) /\ t[i] = k.mensajes[i]
  BY <1>1, <1>2
<1>12. \A n, l \in Nat, x \in BOOLEAN : Tiene(k, n, l, x) => Tiene(r, n, l, x)
  BY <1>3, <1>11 DEF Tiene
<1> QED  BY <1>3, <1>8, <1>9, <1>10, <1>12 DEF Sigue

LEMMA SiCabeSigue ==
  ASSUME NEW k, EnOrden(k), k.est # "no"
  PROVE  Sigue(k, SiCabe(k), 0, FALSE)
<1>1. Sigue(k, k, 0, FALSE)
  BY MismaCola DEF EnOrden
<1> QED  BY <1>1, RunQueueSigue DEF SiCabe

LEMMA QueueMessageSigue ==
  ASSUME NEW k, EnOrden(k), k.est # "no",
         NEW n \in Nat \ {0}, NEW l \in Nat, NEW comun \in BOOLEAN, ~Usa(k, n)
  PROVE  Sigue(k, QueueMessage(k, Mensaje(n, l, comun)), n, comun)
<1>1. PICK m \in Mensajes : m = Mensaje(n, l, comun)
  BY DEF Mensaje, Mensajes
<1>2. m.n = n /\ m.comun = comun /\ m.sent = 0 /\ ~m.acabado
  BY <1>1 DEF Mensaje
<1>3. ASSUME NEW r, Sigue(k, r, 0, FALSE) PROVE Sigue(k, r, n, comun)
  BY <1>3 DEF Sigue
<1>4. Sigue(k, k, 0, FALSE)
  BY MismaCola DEF EnOrden
<1>5. CASE k.est # "CONNECTED"
  <2>1. QueueMessage(k, m) = k
    BY <1>5 DEF QueueMessage
  <2> QED  BY <1>1, <1>3, <1>4, <2>1
<1>6. CASE k.est = "CONNECTED"
  <2>1. CASE Len(k.mensajes) >= ColaMax
    <3>1. QueueMessage(k, m) = SiCabe(k)
      BY <1>6, <2>1 DEF QueueMessage
    <3> QED  BY <1>1, <1>3, <3>1, SiCabeSigue
  <2>2. CASE ~(Len(k.mensajes) >= ColaMax)
    <3>1. PICK r : r = [k EXCEPT !.mensajes = Append(k.mensajes, m)]
      OBVIOUS
    <3>2. QueueMessage(k, m) = SiCabe(r)
      BY <1>6, <2>2, <3>1 DEF QueueMessage
    <3>3. Sigue(k, r, n, comun)
      BY <1>2, <3>1, AnadirSigue
    <3>4. Sigue(r, SiCabe(r), 0, FALSE)
      BY <3>3, SiCabeSigue DEF Sigue
    <3> QED  BY <1>1, <3>2, <3>3, <3>4, SigueTrans
  <2> QED  BY <2>1, <2>2
<1> QED  BY <1>5, <1>6

LEMMA QueueControlSigue ==
  ASSUME NEW k, EnOrden(k), k.est # "no", NEW x \in Controles
  PROVE  Sigue(k, QueueControl(k, x), 0, FALSE)
<1>1. k \in Registros /\ k.control \in Seq(Controles)
  BY DEF EnOrden, Registros
<1>2. PICK cs \in Seq(Controles) : cs = Append(k.control, x)
  BY <1>1, AppendProperties
<1> DEFINE r == [k EXCEPT !.control = cs]
<1>3. r \in Registros /\ r.mensajes = k.mensajes /\ r.par = k.par /\ r.est = k.est
  BY <1>1 DEF Registros
<1> HIDE DEF r
<1>4. QueueControl(k, x) = SiCabe(r)
  BY <1>2 DEF QueueControl, r
<1>5. Sigue(k, r, 0, FALSE)
  BY <1>3, MismaCola
<1>6. Sigue(r, SiCabe(r), 0, FALSE)
  BY <1>5, SiCabeSigue DEF Sigue
<1> QED  BY <1>4, <1>5, <1>6, SigueTrans

\* An ack finishes no message that was not all sent.
LEMMA ConAckSigue ==
  ASSUME NEW k, EnOrden(k), k.est # "no", NEW n \in Int
  PROVE  Sigue(k, ConAck(k, n), 0, FALSE)
<1>1. /\ k \in Registros /\ k.mensajes \in Seq(Mensajes) /\ k.control \in Seq(Controles)
      /\ k.porAvisar \in Int /\ k.descuadre \in BOOLEAN /\ k.par \in Pares
      /\ EnCola(k.mensajes, k.par.hechos) /\ EnPar(k.mensajes, k.par)
  BY DEF EnOrden, Registros
<1>2. PICK x : x = Head(k.control)
  OBVIOUS
<1>3. PICK quita \in BOOLEAN : quita = (k.control # <<>> /\ x.ido)
  <2>1. k.control # <<>> => x \in Controles
    BY <1>1, <1>2
  <2> QED  BY <2>1 DEF Controles
<1>4. quita => Len(k.control) > 0 /\ x \in Controles /\ x.largo \in Int
  <2>1. quita => k.control # <<>> /\ Len(k.control) > 0
    <3>1. k.control # <<>> => Len(k.control) > 0
      BY <1>1
    <3> QED  BY <1>3, <3>1
  <2>2. quita => x \in Controles
    BY <1>1, <1>2, <2>1
  <2> QED  BY <2>1, <2>2 DEF Controles
<1>5. PICK resto \in Int : resto = IF quita THEN (n - Talla(x)) % Modulo ELSE n
  <2>1. Modulo \in Nat /\ Modulo > 0
    BY AsyncWebSocketAssumption
  <2>2. PICK t \in Int : quita => t = n - Talla(x)
    BY <1>4 DEF Talla
  <2>3. t % Modulo \in Int
    BY <2>1
  <2>4. quita => (n - Talla(x)) % Modulo \in Int
    BY <2>2, <2>3
  <2> QED  BY <2>4
<1>6. PICK cs \in Seq(Controles) : cs = IF quita THEN Tail(k.control) ELSE k.control
  <2>1. quita => Tail(k.control) \in Seq(Controles)
    BY <1>1, <1>3, HeadTailProperties
  <2> QED  BY <1>1, <2>1
<1>7. PICK d \in BOOLEAN : d = (k.descuadre \/ (quita /\ n < Talla(x)))
  BY <1>1
<1>8. PICK pa \in Int : pa = k.porAvisar - n
  BY <1>1
<1> DEFINE k1 == [k EXCEPT !.porAvisar = pa, !.control = cs, !.descuadre = d]
<1>9. k1 \in Registros /\ k1.mensajes = k.mensajes /\ k1.par = k.par /\ k1.est = k.est
  BY <1>1 DEF Registros
<1>10. ConAck(k, n) = IF resto = 0 \/ k.mensajes = <<>> THEN k1
                      ELSE [k1 EXCEPT !.mensajes[1] = Confirmado(@, resto)]
  BY <1>2, <1>3, <1>5, <1>6, <1>7, <1>8 DEF ConAck
<1> HIDE DEF k1
<1>11. Sigue(k, k1, 0, FALSE)
  BY <1>9, MismaCola
<1>12. CASE ~(resto = 0 \/ k.mensajes = <<>>)
  <2>1. Len(k.mensajes) > 0 /\ 1 \in 1..Len(k.mensajes)
    BY <1>1, <1>12
  <2>2. PICK m \in Mensajes : m = k.mensajes[1]
    BY <1>1, <2>1
  <2>3. PICK a \in Nat : a = (m.acked + resto) % Modulo
    <3>1. Modulo \in Nat /\ Modulo > 0
      BY AsyncWebSocketAssumption
    <3>2. PICK s \in Int : s = m.acked + resto
      BY DEF Mensajes
    <3>3. s % Modulo \in Nat
      BY <3>1
    <3> QED  BY <3>2, <3>3
  <2>4. PICK fin \in BOOLEAN : fin = (m.sent = m.largo /\ (IF m.comun THEN a >= m.ack ELSE a = m.ack))
    OBVIOUS
  <2>5. PICK b \in BOOLEAN : b = (m.acabado \/ fin)
    OBVIOUS
  <2>6. PICK m2 \in Mensajes : m2 = [m EXCEPT !.acked = a, !.acabado = b]
    BY DEF Mensajes
  <2>7. m2.n = m.n /\ m2.largo = m.largo /\ m2.comun = m.comun /\ m2.sent = m.sent /\ m2.acabado = b
    BY <2>6 DEF Mensajes
  <2>8. Confirmado(m, resto) = m2
    BY <2>3, <2>4, <2>5, <2>6 DEF Confirmado
  <2>9. PICK ms \in Seq(Mensajes) : ms = [k.mensajes EXCEPT ![1] = m2]
    BY <1>1, <2>1, ExceptSeq
  <2>10. [k1 EXCEPT !.mensajes[1] = Confirmado(@, resto)] = [k1 EXCEPT !.mensajes = ms]
    BY <1>9, <2>2, <2>8, <2>9
  <2> DEFINE r == [k1 EXCEPT !.mensajes = ms]
  <2>11. r \in Registros /\ r.mensajes = ms /\ r.par = k.par /\ r.est = k.est
    BY <1>9 DEF Registros
  <2>16. ConAck(k, n) = r
    BY <1>10, <1>12, <2>10
  <2> HIDE DEF r
  <2>12. /\ m.sent <= m.largo /\ (m.acabado => m.sent = m.largo)
         /\ m.n \in k.par.hechos <=> m.sent = m.largo /\ m.largo > 0
    BY <1>1, <2>1, <2>2 DEF EnCola
  <2>13. ~k.par.mal /\ (IF AMedias(m) THEN k.par.de = m.n /\ k.par.van = m.sent ELSE k.par.de = 0)
    BY <1>1, <2>1, <2>2 DEF EnPar
  <2>14. m2.acabado => m2.sent = m2.largo
    BY <2>4, <2>5, <2>7, <2>12
  <2>15. AMedias(m2) <=> AMedias(m)
    BY <2>7 DEF AMedias
  <2> QED  BY <2>1, <2>2, <2>7, <2>9, <2>11, <2>12, <2>13, <2>14, <2>15, <2>16, OtroPrimero
<1> QED  BY <1>10, <1>11, <1>12

-----------------------------------------------------------------------------
(* The clients and the buffers, step by step.                              *)

\* A step of the queue of a client, which the list and the cursor know nothing of.
DeCola(c) ==
  /\ Vivo(c) /\ UNCHANGED <<clientes, cursor>>
  /\ \E r, nuevo : /\ cl' = [cl EXCEPT ![c] = r] /\ Sigue(cl[c], r, nuevo, FALSE)
                   /\ (nuevo = 0 /\ creados' = creados) \/ (nuevo = creados + 1 /\ creados' = creados + 1)
  /\ UNCHANGED bufs \/ bufs' \in Limpios(bufs, cl)

LEMMA ClienteEs ==
  ASSUME ClientesInv, NEW c \in Clientes
  PROVE  cl[c] \in Registros /\ EnOrden(cl[c]) /\ (Vivo(c) => cl[c].est # "no")
BY DEF ClientesInv, Vivo

LEMMA AcuseCola == ASSUME ClientesInv, NEW c \in Clientes, Acuse(c) PROVE DeCola(c)
<1>1. cl[c] \in Registros /\ EnOrden(cl[c]) /\ Vivo(c) /\ cl[c].est # "no"
  BY ClienteEs DEF Acuse
<1>2. cl[c].vuelo \in Int /\ cl[c].porAvisar \in Int
  BY <1>1 DEF Registros
<1>3. PICK n \in Tajos(cl[c].vuelo) : cl' = [cl EXCEPT ![c].vuelo = cl[c].vuelo - n, ![c].porAvisar = cl[c].porAvisar + n]
  BY DEF Acuse
<1>4. n \in Int
  BY <1>2, AsyncWebSocketAssumption DEF Tajos
<1>5. PICK v \in Int, a \in Int : v = cl[c].vuelo - n /\ a = cl[c].porAvisar + n
  BY <1>2, <1>4
<1> DEFINE r == [cl[c] EXCEPT !.vuelo = v, !.porAvisar = a]
<1>6. r \in Registros /\ r.est = cl[c].est /\ r.mensajes = cl[c].mensajes /\ r.par = cl[c].par
  BY <1>1 DEF Registros
<1>7. cl' = [cl EXCEPT ![c] = r]
  <2>1. cl' = [cl EXCEPT ![c].vuelo = v, ![c].porAvisar = a]
    BY <1>3, <1>5
  <2>2. cl \in [Clientes -> Registros]
    BY DEF ClientesInv
  <2> QED  BY <1>1, <2>1, <2>2
<1> HIDE DEF r
<1>8. Sigue(cl[c], r, 0, FALSE)
  BY <1>1, <1>6, MismaCola
<1> QED  BY <1>1, <1>7, <1>8 DEF DeCola, Acuse

LEMMA OnPollCola == ASSUME ClientesInv, NEW c \in Clientes, OnPoll(c) PROVE DeCola(c)
<1>1. EnOrden(cl[c]) /\ Vivo(c) /\ cl[c].est # "no"
  BY ClienteEs DEF OnPoll, Activo
<1>2. cl' = [cl EXCEPT ![c] = RunQueue(cl[c])] /\ UNCHANGED <<clientes, bufs, creados, cursor>>
  BY DEF OnPoll
<1>3. Sigue(cl[c], RunQueue(cl[c]), 0, FALSE)
  BY <1>1, RunQueueSigue
<1> QED  BY <1>1, <1>2, <1>3 DEF DeCola

LEMMA OnAckCola == ASSUME ClientesInv, NEW c \in Clientes, OnAck(c), ~CierraConAck(cl[c]) PROVE DeCola(c)
<1>1. cl[c] \in Registros /\ EnOrden(cl[c]) /\ Vivo(c) /\ cl[c].est # "no"
  BY ClienteEs DEF OnAck
<1>2. cl[c].porAvisar \in Int
  BY <1>1 DEF Registros
<1>3. PICK n \in Tajos(cl[c].porAvisar) : cl' = [cl EXCEPT ![c] = RunQueue(ConAck(cl[c], n))]
  BY DEF OnAck
<1>4. UNCHANGED <<clientes, creados, cursor>> /\ bufs' \in Limpios(bufs, cl)
  BY DEF OnAck
<1>5. n \in Int
  BY <1>2, AsyncWebSocketAssumption DEF Tajos
<1>6. Sigue(cl[c], ConAck(cl[c], n), 0, FALSE)
  BY <1>1, <1>5, ConAckSigue
<1>7. Sigue(ConAck(cl[c], n), RunQueue(ConAck(cl[c], n)), 0, FALSE)
  BY <1>6, RunQueueSigue DEF Sigue
<1>8. Sigue(cl[c], RunQueue(ConAck(cl[c], n)), 0, FALSE)
  BY <1>6, <1>7, SigueTrans
<1> QED  BY <1>1, <1>3, <1>4, <1>8 DEF DeCola

\* What a client is between two lines of a handler.
LEMMA Retocado ==
  ASSUME NEW k, EnOrden(k), NEW e \in {k.est, "DISCONNECTING"}, e # "no", NEW t \in [op : Ops, largo : Int, leido : Int],
         NEW r, r = [k EXCEPT !.est = e, !.trama = t]
  PROVE  Sigue(k, r, 0, FALSE)
<1>1. k \in Registros
  BY DEF EnOrden
<1>2. r \in Registros /\ r.est = e /\ r.mensajes = k.mensajes /\ r.par = k.par
  BY <1>1 DEF Registros, Estados
<1> QED  BY <1>2, MismaCola

LEMMA ResponderCola ==
  ASSUME ClientesInv, NEW c \in Clientes, Vivo(c), NEW op \in Ops, NEW n \in Int, Responder(c, op, n)
  PROVE  \/ SeVa(c)
         \/ UNCHANGED clientes /\ \E r : cl' = [cl EXCEPT ![c] = r] /\ Sigue(cl[c], r, 0, FALSE)
<1>1. cl[c] \in Registros /\ EnOrden(cl[c]) /\ cl[c].est # "no"
  BY ClienteEs
<1> DEFINE k == [cl[c] EXCEPT !.trama = Ninguna]
           e == IF op = "PING" THEN cl[c].est ELSE "DISCONNECTING"
           k2 == [cl[c] EXCEPT !.est = e, !.trama = Ninguna]
           x == Control(IF op = "PING" THEN "PONG" ELSE "DISCONNECT", n)
<1>2. k.est = cl[c].est /\ k2 = IF op = "PING" THEN k ELSE [k EXCEPT !.est = "DISCONNECTING"]
  BY <1>1 DEF Registros
<1>3. \/ SeVa(c)
      \/ UNCHANGED clientes /\ cl' = [cl EXCEPT ![c] = QueueControl(k2, x)]
  BY <1>2 DEF Responder
<1>4. x \in Controles
  BY DEF Control, Controles, Ops
<1>5. Ninguna \in [op : Ops, largo : Int, leido : Int]
  <2>1. "" \in Ops
    BY Zenon DEF Ops
  <2>2. 0 \in Int
    OBVIOUS
  <2> QED  BY <2>1, <2>2, Zenon DEF Ninguna
<1>6. Sigue(cl[c], k2, 0, FALSE)
  BY <1>1, <1>5, Retocado
<1> HIDE DEF k2, x
<1>7. Sigue(k2, QueueControl(k2, x), 0, FALSE)
  BY <1>4, <1>6, QueueControlSigue DEF Sigue
<1>8. Sigue(cl[c], QueueControl(k2, x), 0, FALSE)
  BY <1>6, <1>7, SigueTrans
<1> QED  BY <1>3, <1>8

LEMMA OnDataCola ==
  ASSUME ClientesInv, NEW c \in Clientes, NEW op \in {"PING", "DISCONNECT"}, NEW n \in LargosControl, NEW parte \in 0..n,
         OnData(c, op, n, parte)
  PROVE  DeCola(c) \/ (Vivo(c) /\ SeVa(c) /\ UNCHANGED <<bufs, creados, cursor>>)
<1>1. cl[c] \in Registros /\ EnOrden(cl[c]) /\ Vivo(c) /\ cl[c].est # "no" /\ UNCHANGED <<bufs, creados, cursor>>
  BY ClienteEs DEF OnData, Activo
<1>2. n \in Int /\ parte \in Int /\ op \in Ops
  <2>1. n \in Nat
    BY AsyncWebSocketAssumption
  <2>2. op \in Ops
    BY Zenon DEF Ops
  <2> QED  BY <2>1, <2>2
<1>3. CASE parte = n
  <2>1. Responder(c, op, n)
    BY <1>3 DEF OnData
  <2> QED  BY <1>1, <1>2, <2>1, ResponderCola DEF DeCola
<1>4. CASE parte # n
  <2>1. PICK t \in [op : Ops, largo : Int, leido : Int] : t = [op |-> op, largo |-> n, leido |-> parte]
    BY <1>2
  <2>2. cl' = [cl EXCEPT ![c].trama = t] /\ UNCHANGED clientes
    BY <1>4, <2>1 DEF OnData
  <2> DEFINE r == [cl[c] EXCEPT !.est = cl[c].est, !.trama = t]
  <2>3. r = [cl[c] EXCEPT !.trama = t]
    BY <1>1 DEF Registros
  <2>4. cl' = [cl EXCEPT ![c] = r]
    BY <2>2, <2>3
  <2>5. Sigue(cl[c], r, 0, FALSE)
    BY <1>1, Retocado
  <2> QED  BY <1>1, <2>2, <2>4, <2>5 DEF DeCola
<1> QED  BY <1>3, <1>4

LEMMA OnDataRestoCola ==
  ASSUME ClientesInv, NEW c \in Clientes, OnDataResto(c)
  PROVE  DeCola(c) \/ (Vivo(c) /\ SeVa(c) /\ UNCHANGED <<bufs, creados, cursor>>)
<1>1. cl[c] \in Registros /\ Vivo(c) /\ UNCHANGED <<bufs, creados, cursor>>
  BY ClienteEs DEF OnDataResto
<1>2. cl[c].trama.op \in Ops /\ cl[c].trama.largo - cl[c].trama.leido \in Int
  BY <1>1 DEF Registros
<1>3. Responder(c, cl[c].trama.op, cl[c].trama.largo - cl[c].trama.leido)
  BY DEF OnDataResto
<1> QED  BY <1>1, <1>2, <1>3, ResponderCola DEF DeCola

LEMMA TextCola ==
  ASSUME ClientesInv, NEW c \in Clientes, NEW l \in Largos, Text(c, l)
  PROVE  DeCola(c)
<1>1. EnOrden(cl[c]) /\ Vivo(c) /\ cl[c].est # "no" /\ creados \in Nat
  BY ClienteEs DEF Text, Activo, ClientesInv
<1>2. creados' = creados + 1 /\ UNCHANGED <<clientes, bufs, cursor>>
      /\ cl' = [cl EXCEPT ![c] = QueueMessage(cl[c], Mensaje(creados + 1, l, FALSE))]
  BY DEF Text, Nuevo
<1>3. l \in Nat /\ creados + 1 \in Nat \ {0} /\ ~Usa(cl[c], creados + 1)
  BY <1>1, AsyncWebSocketAssumption DEF ClientesInv
<1>4. Sigue(cl[c], QueueMessage(cl[c], Mensaje(creados + 1, l, FALSE)), creados + 1, FALSE)
  BY <1>1, <1>3, QueueMessageSigue
<1> QED  BY <1>1, <1>2, <1>4 DEF DeCola

LEMMA PingCloseCola ==
  ASSUME ClientesInv, NEW c \in Clientes, NEW n \in Nat, Ping(c, n) \/ Close(c, n)
  PROVE  DeCola(c)
<1>1. EnOrden(cl[c]) /\ Vivo(c) /\ cl[c].est # "no" /\ UNCHANGED <<clientes, bufs, creados, cursor>>
  BY ClienteEs DEF Ping, Close, Activo
<1>2. PICK op \in {"PING", "DISCONNECT"} : cl' = [cl EXCEPT ![c] = QueueControl(cl[c], Control(op, n))]
  BY DEF Ping, Close
<1>3. Control(op, n) \in Controles
  <2>1. op \in Ops
    BY Zenon DEF Ops
  <2> QED  BY <2>1 DEF Control, Controles
<1>4. Sigue(cl[c], QueueControl(cl[c], Control(op, n)), 0, FALSE)
  BY <1>1, <1>3, QueueControlSigue
<1> QED  BY <1>1, <1>2, <1>4 DEF DeCola

\* cleanupClients() has a client to close.
LEMMA CleanupCola ==
  ASSUME ClientesInv, ListaInv, CleanupClients
  PROVE  \E c \in Clientes : DeCola(c)
<1>1. Cuantos > MaxClientes /\ MaxClientes \in Nat \ {0}
  BY AsyncWebSocketAssumption DEF CleanupClients
<1>2. {c \in Clientes : cl[c].est = "CONNECTED"} # {}
  <2>1. SUFFICES ASSUME {c \in Clientes : cl[c].est = "CONNECTED"} = {} PROVE FALSE
    OBVIOUS
  <2>2. Cuantos = 0
    BY <2>1, FS_EmptySet DEF Cuantos
  <2> QED  BY <1>1, <2>2
<1>3. PICK c \in Clientes : Vivo(c)
  BY <1>2 DEF Vivo
<1>4. Head(clientes) \in Clientes
  BY <1>3 DEF ListaInv
<1>5. Close(Head(clientes), 0)
  BY DEF CleanupClients
<1> QED  BY <1>4, <1>5, PingCloseCola

\* A buffer that is locked or that a queue holds is not deleted.
LEMMA LimpiosGuarda ==
  ASSUME NEW b, NEW d, NEW b2 \in Limpios(b, d)
  PROVE  DOMAIN b2 \subseteq DOMAIN b /\ \A n \in DOMAIN b : b[n] \/ EnUso(n, d) => n \in DOMAIN b2 /\ b2[n] = b[n]
<1> DEFINE libres == {n \in DOMAIN b : ~b[n] /\ ~EnUso(n, d)}
<1>1. CASE libres = {}
  <2>1. b2 = b
    BY <1>1 DEF Limpios
  <2> QED  BY <2>1
<1>2. CASE libres # {}
  <2>1. PICK x \in libres : b2 = [n \in DOMAIN b \ {y \in libres : y <= x} |-> b[n]]
    BY <1>2 DEF Limpios
  <2> QED  BY <2>1
<1> QED  BY <1>1, <1>2

LEMMA EnUsoDe ==
  ASSUME NEW c \in Clientes, NEW n \in Nat, NEW l \in Nat, Tiene(cl[c], n, l, TRUE)
  PROVE  EnUso(n, cl)
BY DEF Tiene, EnUso

LEMMA TrasSigue ==
  ASSUME ClientesInv, NEW c \in Clientes, NEW r, NEW nuevo \in Nat, NEW comun, Sigue(cl[c], r, nuevo, comun),
         cl' = [cl EXCEPT ![c] = r], creados' \in Nat, creados <= creados', nuevo <= creados'
  PROVE  /\ ClientesInv'
         /\ cl'[c] = r /\ \A d \in Clientes : d # c => cl'[d] = cl[d]
<1>1. cl \in [Clientes -> Registros] /\ creados \in Nat
  BY DEF ClientesInv
<1>2. r \in Registros /\ EnOrden(r) /\ r.est # "no"
  BY DEF Sigue, EnOrden
<1>3. cl'[c] = r /\ cl' \in [Clientes -> Registros] /\ \A d \in Clientes : d # c => cl'[d] = cl[d]
  BY <1>1, <1>2
<1>4. \A n \in Nat : Usa(r, n) => n <= creados'
  <2> SUFFICES ASSUME NEW n \in Nat, Usa(r, n) PROVE n <= creados'
    OBVIOUS
  <2>1. Usa(cl[c], n) \/ n = nuevo
    BY DEF Sigue
  <2>2. Usa(cl[c], n) => n <= creados
    BY DEF ClientesInv
  <2> QED  BY <1>1, <2>1, <2>2
<1>5. ASSUME NEW d \in Clientes
      PROVE  /\ EnOrden(cl'[d])
             /\ cl'[d].est = "no" => cl'[d].mensajes = <<>> /\ cl'[d].par = SinPar
             /\ \A n \in Nat : Usa(cl'[d], n) => n <= creados'
  <2>1. CASE d = c
    BY <1>2, <1>3, <1>4, <2>1
  <2>2. CASE d # c
    <3>1. /\ EnOrden(cl[d])
          /\ cl[d].est = "no" => cl[d].mensajes = <<>> /\ cl[d].par = SinPar
          /\ \A n \in Nat : Usa(cl[d], n) => n <= creados
      BY DEF ClientesInv
    <3>2. cl'[d] = cl[d]
      BY <1>3, <2>2
    <3> QED  BY <1>1, <3>1, <3>2
  <2> QED  BY <2>1, <2>2
<1> QED  BY <1>3, <1>5 DEF ClientesInv

\* The property of a step about the messages that leave a queue.
PasoEntero ==
  \A c \in Clientes : \A i \in 1..Len(cl[c].mensajes) :
    LET n == cl[c].mensajes[i].n
    IN  Vivo(c)' => \/ cl[c].mensajes[i].largo = 0 \/ n \in cl'[c].par.hechos
                    \/ \E j \in 1..Len(cl'[c].mensajes) : cl'[c].mensajes[j].n = n

LEMMA EnteroTras ==
  ASSUME ClientesInv, NEW c \in Clientes, NEW r, NEW nuevo, NEW comun, Sigue(cl[c], r, nuevo, comun),
         cl' = [cl EXCEPT ![c] = r]
  PROVE  PasoEntero
<1>1. cl \in [Clientes -> Registros]
  BY DEF ClientesInv
<1>2. cl'[c] = r /\ \A d \in Clientes : d # c => cl'[d] = cl[d]
  BY <1>1
<1>3. ASSUME NEW i \in 1..Len(cl[c].mensajes)
      PROVE  \/ cl[c].mensajes[i].largo = 0 \/ cl[c].mensajes[i].n \in r.par.hechos
             \/ \E j \in 1..Len(r.mensajes) : r.mensajes[j].n = cl[c].mensajes[i].n
  <2>1. cl[c].mensajes \in Seq(Mensajes)
    BY <1>1 DEF Registros
  <2>2. PICK m \in Mensajes : m = cl[c].mensajes[i]
    BY <2>1
  <2>3. m.n \in Nat /\ m.largo \in Nat /\ m.comun \in BOOLEAN
    BY DEF Mensajes
  <2>4. Tiene(cl[c], m.n, m.largo, m.comun)
    BY <2>2 DEF Tiene
  <2>5. m.largo = 0 \/ m.n \in r.par.hechos \/ Tiene(r, m.n, m.largo, m.comun)
    BY <2>3, <2>4 DEF Sigue
  <2> QED  BY <2>2, <2>5 DEF Tiene
<1> QED  BY <1>2, <1>3 DEF PasoEntero

LEMMA EnteroQuieto ==
  ASSUME UNCHANGED cl
  PROVE  PasoEntero
BY DEF PasoEntero

-----------------------------------------------------------------------------
LEMMA DeColaPaso ==
  ASSUME WsInv, NEW c \in Clientes, DeCola(c)
  PROVE  WsInv' /\ PasoEntero
<1>1. PICK r, nuevo : /\ cl' = [cl EXCEPT ![c] = r] /\ Sigue(cl[c], r, nuevo, FALSE)
                      /\ (nuevo = 0 /\ creados' = creados) \/ (nuevo = creados + 1 /\ creados' = creados + 1)
  BY DEF DeCola
<1>2. UNCHANGED <<clientes, cursor>> /\ Vivo(c) /\ ClientesInv /\ ListaInv /\ CursorInv /\ BuferesInv /\ creados \in Nat
  BY DEF DeCola, WsInv, ClientesInv
<1>3. nuevo \in Nat /\ creados' \in Nat /\ creados <= creados' /\ nuevo <= creados' /\ (nuevo = 0 \/ nuevo > creados)
  BY <1>1, <1>2
<1>4. ClientesInv' /\ cl'[c] = r /\ \A d \in Clientes : d # c => cl'[d] = cl[d]
  BY <1>1, <1>2, <1>3, TrasSigue
<1>5. ListaInv'
  <2>1. r.est # "no"
    BY <1>1 DEF Sigue
  <2>2. \A d \in Clientes : (cl'[d].est = "no" => cl[d].est = "no") /\ (Vivo(d)' => Vivo(d))
    BY <1>2, <1>4, <2>1 DEF Vivo
  <2> QED  BY <1>2, <2>2 DEF ListaInv
<1>6. CursorInv'
  <2>1. cursor.n \in Nat /\ cursor.n <= creados
    BY <1>2 DEF CursorInv, Cursores
  <2>2. ASSUME NEW d \in Clientes, ~Usa(cl[d], cursor.n), cursor.n # 0 PROVE ~Usa(cl'[d], cursor.n)
    <3>1. cursor.n # nuevo
      BY <1>2, <1>3, <2>1, <2>2
    <3> QED  BY <1>1, <1>4, <2>1, <2>2, <3>1 DEF Sigue
  <2>3. Hecho # Nadie /\ (cursor.en \in Clientes \cup {Hecho} => cursor.n # 0)
    BY <1>2, AsyncWebSocketAssumption DEF CursorInv, Hecho, Nadie, Clientes
  <2>4. \A p \in 1..Len(clientes) : clientes[p] \in Clientes
    BY <1>2 DEF ListaInv
  <2>5. cursor.n <= creados'
    BY <1>2, <1>3, <2>1
  <2>6. cursor.en = Hecho => \A d \in Clientes : ~Usa(cl'[d], cursor.n)
    BY <1>2, <2>2, <2>3 DEF CursorInv
  <2>7. cursor.en \in Clientes => \E p \in 1..Len(clientes) :
          clientes[p] = cursor.en /\ \A q \in p..Len(clientes) : ~Usa(cl'[clientes[q]], cursor.n)
    <3> SUFFICES ASSUME cursor.en \in Clientes
                 PROVE  \E p \in 1..Len(clientes) :
                          clientes[p] = cursor.en /\ \A q \in p..Len(clientes) : ~Usa(cl'[clientes[q]], cursor.n)
      OBVIOUS
    <3>1. PICK p \in 1..Len(clientes) : clientes[p] = cursor.en /\ \A q \in p..Len(clientes) : ~Usa(cl[clientes[q]], cursor.n)
      BY <1>2 DEF CursorInv
    <3>2. \A q \in p..Len(clientes) : clientes[q] \in Clientes
      BY <2>4
    <3>3. \A q \in p..Len(clientes) : ~Usa(cl'[clientes[q]], cursor.n)
      BY <2>2, <2>3, <3>1, <3>2
    <3> QED  BY <3>1, <3>3
  <2> QED  BY <1>2, <2>5, <2>6, <2>7 DEF CursorInv
<1>7. BuferesInv'
  <2>1. DOMAIN bufs' \subseteq DOMAIN bufs /\ \A n \in DOMAIN bufs : bufs[n] \/ EnUso(n, cl) => n \in DOMAIN bufs' /\ bufs'[n] = bufs[n]
    BY LimpiosGuarda DEF DeCola
  <2>2. \A d \in Clientes, n, l \in Nat : Tiene(cl'[d], n, l, TRUE) => Tiene(cl[d], n, l, TRUE)
    BY <1>1, <1>4 DEF Sigue
  <2>3. \A d \in Clientes, n, l \in Nat : Tiene(cl'[d], n, l, TRUE) => n \in DOMAIN bufs'
    BY <1>2, <2>1, <2>2, EnUsoDe DEF BuferesInv
  <2>4. cursor.n # 0 /\ cursor.en # Hecho => cursor.n \in DOMAIN bufs' /\ bufs'[cursor.n] = TRUE
    BY <1>2, <2>1 DEF BuferesInv
  <2> QED  BY <1>2, <2>1, <2>3, <2>4 DEF BuferesInv
<1>8. PasoEntero
  BY <1>1, <1>2, EnteroTras
<1> QED  BY <1>4, <1>5, <1>6, <1>7, <1>8 DEF WsInv

\* A client that goes is taken off the list, and textAll() is not at it.
LEMMA SeVaPaso ==
  ASSUME WsInv, NEW c \in Clientes, Vivo(c), SeVa(c), UNCHANGED <<bufs, creados, cursor>>
  PROVE  WsInv' /\ PasoEntero
<1>1. ClientesInv /\ ListaInv /\ CursorInv /\ BuferesInv /\ cl \in [Clientes -> Registros] /\ clientes \in Seq(Clientes)
  BY DEF WsInv, ClientesInv, ListaInv
<1>2. cursor.en # c /\ clientes' = RemoveFirst(clientes, c) /\ cl' = [cl EXCEPT ![c] = Fuera]
  BY DEF SeVa
<1>3. cl'[c] = Fuera /\ \A d \in Clientes : d # c => cl'[d] = cl[d]
  BY <1>1, <1>2
<1>4. /\ Fuera \in Registros /\ EnOrden(Fuera) /\ Fuera.est = "fuera" /\ Fuera.mensajes = <<>>
      /\ (\A n \in Nat : ~Usa(Fuera, n)) /\ \A n, l \in Nat : ~Tiene(Fuera, n, l, TRUE)
  <2>1. Ninguna \in [op : Ops, largo : Int, leido : Int]
    <3>1. "" \in Ops
      BY Zenon DEF Ops
    <3>2. 0 \in Int
      OBVIOUS
    <3> QED  BY <3>1, <3>2, Zenon DEF Ninguna
  <2>2. SinPar \in Pares /\ SinPar.hechos = {} /\ ~SinPar.mal /\ SinPar.de = 0
    BY DEF SinPar, Pares
  <2>3. <<>> \in Seq(Controles) /\ <<>> \in Seq(Mensajes) /\ "no" \in Estados /\ 0 \in Int
    BY DEF Estados
  <2>4. Cliente0 \in Registros /\ Cliente0.mensajes = <<>> /\ Cliente0.par = SinPar
    <3>1. Cliente0 \in Registros
      BY <2>1, <2>2, <2>3, Zenon DEF Cliente0, Registros
    <3>2. Cliente0.mensajes = <<>> /\ Cliente0.par = SinPar
      BY Zenon DEF Cliente0
    <3> QED  BY <3>1, <3>2
  <2>5. Fuera \in Registros
    BY <2>4 DEF Fuera, Registros, Estados
  <2>6. Fuera.mensajes = <<>> /\ Fuera.par = SinPar /\ Fuera.est = "fuera"
    BY <2>4 DEF Fuera, Registros
  <2>7. EnCola(<<>>, {}) /\ EnPar(<<>>, SinPar)
    BY <2>2 DEF EnCola, EnPar
  <2>8. EnOrden(Fuera)
    BY <2>2, <2>5, <2>6, <2>7 DEF EnOrden
  <2>9. (\A n \in Nat : ~Usa(Fuera, n)) /\ \A n, l \in Nat : ~Tiene(Fuera, n, l, TRUE)
    BY <2>2, <2>6 DEF Usa, Tiene
  <2> QED  BY <2>5, <2>6, <2>8, <2>9
<1>5. ClientesInv'
  <2>1. cl' \in [Clientes -> Registros] /\ creados' \in Nat
    BY <1>1, <1>2, <1>4 DEF ClientesInv
  <2>2. ASSUME NEW d \in Clientes
        PROVE  /\ EnOrden(cl'[d])
               /\ cl'[d].est = "no" => cl'[d].mensajes = <<>> /\ cl'[d].par = SinPar
               /\ \A n \in Nat : Usa(cl'[d], n) => n <= creados'
    BY <1>1, <1>3, <1>4 DEF ClientesInv
  <2> QED  BY <2>1, <2>2 DEF ClientesInv
<1>6. /\ clientes' \in Seq(Clientes)
      /\ \/ clientes' = clientes /\ \A j \in 1..Len(clientes) : clientes[j] # c
         \/ \E i \in 1..Len(clientes) :
              /\ clientes[i] = c /\ Len(clientes') = Len(clientes) - 1
              /\ \A j \in 1..Len(clientes') : clientes'[j] = clientes[IF j < i THEN j ELSE j + 1]
  BY <1>1, <1>2, Quitado
<1>7. PICK l \in Seq(Clientes) : l = clientes'
  BY <1>6
<1>8. PICK i \in Nat :
        /\ \A j \in 1..Len(l) : /\ (IF j < i THEN j ELSE j + 1) \in 1..Len(clientes)
                                /\ l[j] = clientes[IF j < i THEN j ELSE j + 1]
        /\ \A j \in 1..Len(clientes) : j # i => /\ (IF j < i THEN j ELSE j - 1) \in 1..Len(l)
                                               /\ l[IF j < i THEN j ELSE j - 1] = clientes[j]
        /\ i \in 1..Len(clientes) => clientes[i] = c
  <2>1. CASE l = clientes
    <3>1. \A j \in 1..Len(l) : j < Len(clientes) + 1 /\ j # Len(clientes) + 1
      BY <1>1, <2>1
    <3>2. Len(clientes) + 1 \in Nat /\ Len(clientes) + 1 \notin 1..Len(clientes)
      BY <1>1
    <3> QED  BY <2>1, <3>1, <3>2
  <2>2. ASSUME NEW i \in 1..Len(clientes), clientes[i] = c, Len(l) = Len(clientes) - 1,
               \A j \in 1..Len(l) : l[j] = clientes[IF j < i THEN j ELSE j + 1]
        PROVE  /\ \A j \in 1..Len(l) : /\ (IF j < i THEN j ELSE j + 1) \in 1..Len(clientes)
                                       /\ l[j] = clientes[IF j < i THEN j ELSE j + 1]
               /\ \A j \in 1..Len(clientes) : j # i => /\ (IF j < i THEN j ELSE j - 1) \in 1..Len(l)
                                                      /\ l[IF j < i THEN j ELSE j - 1] = clientes[j]
               /\ i \in Nat
    <3>1. Len(clientes) \in Nat
      BY <1>1
    <3>2. \A j \in 1..Len(l) : (IF j < i THEN j ELSE j + 1) \in 1..Len(clientes)
      BY <2>2, <3>1
    <3>3. ASSUME NEW j \in 1..Len(clientes), j # i
          PROVE  /\ (IF j < i THEN j ELSE j - 1) \in 1..Len(l)
                 /\ l[IF j < i THEN j ELSE j - 1] = clientes[j]
      <4>1. CASE j < i
        BY <2>2, <3>1, <4>1
      <4>2. CASE ~(j < i)
        <5>1. j - 1 \in 1..Len(l) /\ ~(j - 1 < i) /\ (j - 1) + 1 = j
          BY <2>2, <3>1, <3>3, <4>2
        <5> QED  BY <2>2, <4>2, <5>1
      <4> QED  BY <4>1, <4>2
    <3> QED  BY <2>2, <3>2, <3>3
  <2> QED  BY <1>6, <1>7, <2>1, <2>2
<1>9. ListaInv'
  <2>1. \A p, q \in 1..Len(l) : l[p] = l[q] => p = q
    <3> SUFFICES ASSUME NEW p \in 1..Len(l), NEW q \in 1..Len(l), l[p] = l[q] PROVE p = q
      OBVIOUS
    <3>1. PICK a, b \in 1..Len(clientes) :
            /\ a = IF p < i THEN p ELSE p + 1
            /\ b = IF q < i THEN q ELSE q + 1
            /\ clientes[a] = clientes[b]
      BY <1>8
    <3>2. a = b
      BY <1>1, <3>1 DEF ListaInv
    <3> QED  BY <3>1, <3>2
  <2>2. \A p \in 1..Len(l) : cl'[l[p]].est # "no"
    <3> SUFFICES ASSUME NEW p \in 1..Len(l) PROVE cl'[l[p]].est # "no"
      OBVIOUS
    <3>1. PICK a \in 1..Len(clientes) : l[p] = clientes[a]
      BY <1>8
    <3>2. l[p] \in Clientes /\ cl[l[p]].est # "no"
      BY <1>1, <3>1 DEF ListaInv
    <3> QED  BY <1>3, <1>4, <3>2
  <2>3. \A d \in Clientes : Vivo(d)' => \E p \in 1..Len(l) : l[p] = d
    <3> SUFFICES ASSUME NEW d \in Clientes, Vivo(d)' PROVE \E p \in 1..Len(l) : l[p] = d
      OBVIOUS
    <3>1. d # c
      BY <1>3, <1>4 DEF Vivo
    <3>2. Vivo(d)
      BY <1>3, <3>1 DEF Vivo
    <3>3. PICK a \in 1..Len(clientes) : clientes[a] = d
      BY <1>1, <3>2 DEF ListaInv
    <3>4. a # i
      BY <1>8, <3>1, <3>3
    <3> QED  BY <1>8, <3>3, <3>4
  <2> QED  BY <1>7, <2>1, <2>2, <2>3 DEF ListaInv
<1>10. CursorInv'
  <2>1. \A d \in Clientes : ~Usa(cl[d], cursor.n) => ~Usa(cl'[d], cursor.n)
    BY <1>1, <1>3, <1>4 DEF CursorInv, Cursores
  <2>2. cursor.en \in Clientes => \E p \in 1..Len(l) :
          l[p] = cursor.en /\ \A q \in p..Len(l) : ~Usa(cl'[l[q]], cursor.n)
    <3> SUFFICES ASSUME cursor.en \in Clientes
                 PROVE  \E p \in 1..Len(l) : l[p] = cursor.en /\ \A q \in p..Len(l) : ~Usa(cl'[l[q]], cursor.n)
      OBVIOUS
    <3>1. PICK a \in 1..Len(clientes) : clientes[a] = cursor.en /\ \A q \in a..Len(clientes) : ~Usa(cl[clientes[q]], cursor.n)
      BY <1>1 DEF CursorInv
    <3>2. a # i
      BY <1>2, <1>8, <3>1
    <3>3. PICK p \in 1..Len(l) : p = (IF a < i THEN a ELSE a - 1) /\ l[p] = cursor.en
      BY <1>8, <3>1, <3>2
    <3>4. ASSUME NEW q \in p..Len(l) PROVE ~Usa(cl'[l[q]], cursor.n)
      <4>1. q \in 1..Len(l) /\ (IF q < i THEN q ELSE q + 1) >= a
        BY <3>2, <3>3
      <4>2. PICK b \in 1..Len(clientes) : b >= a /\ l[q] = clientes[b]
        BY <1>8, <4>1
      <4>3. b \in a..Len(clientes) /\ l[q] \in Clientes
        BY <4>1, <4>2
      <4> QED  BY <2>1, <3>1, <4>2, <4>3
    <3> QED  BY <3>3, <3>4
  <2> QED  BY <1>1, <1>7, <2>1, <2>2 DEF CursorInv
<1>11. BuferesInv'
  <2>1. \A d \in Clientes, n, k \in Nat : Tiene(cl'[d], n, k, TRUE) => n \in DOMAIN bufs
    BY <1>1, <1>3, <1>4 DEF BuferesInv
  <2> QED  BY <1>1, <2>1 DEF BuferesInv
<1>12. PasoEntero
  <2>1. ~Vivo(c)'
    BY <1>3, <1>4 DEF Vivo
  <2> QED  BY <1>3, <2>1 DEF PasoEntero
<1> QED  BY <1>5, <1>9, <1>10, <1>11, <1>12 DEF WsInv

LEMMA ConectarPaso ==
  ASSUME WsInv, NEW c \in Clientes, Conectar(c)
  PROVE  WsInv' /\ PasoEntero
<1>1. ClientesInv /\ ListaInv /\ CursorInv /\ BuferesInv /\ cl \in [Clientes -> Registros] /\ clientes \in Seq(Clientes)
  BY DEF WsInv, ClientesInv, ListaInv
<1>2. cl[c].est = "no" /\ clientes' = Append(clientes, c) /\ UNCHANGED <<bufs, creados, cursor>>
      /\ cl' = [cl EXCEPT ![c] = [cl[c] EXCEPT !.est = "CONNECTED"]]
  BY DEF Conectar
<1>3. EnOrden(cl[c]) /\ cl[c] \in Registros /\ cl[c].mensajes = <<>> /\ cl[c].par = SinPar
  BY <1>1, <1>2 DEF ClientesInv
<1> DEFINE r == [cl[c] EXCEPT !.est = "CONNECTED"]
<1>4. r \in Registros /\ r.est = "CONNECTED" /\ r.mensajes = cl[c].mensajes /\ r.par = cl[c].par
  BY <1>3 DEF Registros, Estados
<1>5. cl' = [cl EXCEPT ![c] = r]
  BY <1>2
<1> HIDE DEF r
<1>6. Sigue(cl[c], r, 0, FALSE)
  BY <1>3, <1>4, MismaCola
<1>7. ClientesInv' /\ cl'[c] = r /\ \A d \in Clientes : d # c => cl'[d] = cl[d]
  <2>1. creados \in Nat /\ creados' = creados /\ 0 \in Nat /\ 0 <= creados' /\ creados <= creados'
    BY <1>1, <1>2 DEF ClientesInv
  <2> QED  BY <1>1, <1>5, <1>6, <2>1, TrasSigue
<1>8. \A n \in Nat : ~Usa(r, n)
  BY <1>3, <1>4 DEF Usa, SinPar
<1>9. PICK l \in Seq(Clientes) : /\ l = clientes' /\ Len(l) = Len(clientes) + 1 /\ l[Len(clientes) + 1] = c
                                 /\ \A j \in 1..Len(clientes) : l[j] = clientes[j]
  <2> DEFINE t == Append(clientes, c)
  <2>1. t \in Seq(Clientes) /\ Len(t) = Len(clientes) + 1 /\ t[Len(clientes) + 1] = c
    BY <1>1, AppendProperties
  <2>2. \A j \in 1..Len(clientes) : t[j] = clientes[j]
    BY <1>1, AppendProperties
  <2> QED  BY <1>2, <2>1, <2>2
<1>10. \A j \in 1..Len(l) : (j \in 1..Len(clientes) /\ l[j] = clientes[j]) \/ (j = Len(clientes) + 1 /\ l[j] = c)
  BY <1>1, <1>9
<1>11. Len(clientes) \in Nat /\ Len(clientes) + 1 \in 1..Len(l) /\ \A j \in 1..Len(clientes) : j \in 1..Len(l)
  BY <1>1, <1>9
<1>12. ListaInv'
  <2>1. \A j \in 1..Len(clientes) : clientes[j] # c
    BY <1>1, <1>2 DEF ListaInv
  <2>2. \A p, q \in 1..Len(l) : l[p] = l[q] => p = q
    BY <1>1, <1>10, <2>1 DEF ListaInv
  <2>3. \A p \in 1..Len(l) : cl'[l[p]].est # "no"
    BY <1>1, <1>4, <1>7, <1>10, <2>1 DEF ListaInv
  <2>4. \A d \in Clientes : Vivo(d)' => \E p \in 1..Len(l) : l[p] = d
    <3> SUFFICES ASSUME NEW d \in Clientes, Vivo(d)' PROVE \E p \in 1..Len(l) : l[p] = d
      OBVIOUS
    <3>1. CASE d = c
      BY <1>9, <1>11, <3>1
    <3>2. CASE d # c
      <4>1. Vivo(d)
        BY <1>7, <3>2 DEF Vivo
      <4>2. PICK p \in 1..Len(clientes) : clientes[p] = d
        BY <1>1, <4>1 DEF ListaInv
      <4> QED  BY <1>9, <1>11, <4>2
    <3> QED  BY <3>1, <3>2
  <2> QED  BY <1>9, <2>2, <2>3, <2>4 DEF ListaInv
<1>13. CursorInv'
  <2>1. \A d \in Clientes : ~Usa(cl[d], cursor.n) => ~Usa(cl'[d], cursor.n)
    BY <1>1, <1>7, <1>8 DEF CursorInv, Cursores
  <2>2. cursor.en \in Clientes => \E p \in 1..Len(l) :
          l[p] = cursor.en /\ \A q \in p..Len(l) : ~Usa(cl'[l[q]], cursor.n)
    <3> SUFFICES ASSUME cursor.en \in Clientes
                 PROVE  \E p \in 1..Len(l) : l[p] = cursor.en /\ \A q \in p..Len(l) : ~Usa(cl'[l[q]], cursor.n)
      OBVIOUS
    <3>1. PICK p \in 1..Len(clientes) : clientes[p] = cursor.en /\ \A q \in p..Len(clientes) : ~Usa(cl[clientes[q]], cursor.n)
      BY <1>1 DEF CursorInv
    <3>2. ASSUME NEW q \in p..Len(l) PROVE ~Usa(cl'[l[q]], cursor.n)
      <4>1. q \in 1..Len(l)
        OBVIOUS
      <4>2. CASE q \in 1..Len(clientes) /\ l[q] = clientes[q]
        <5>1. q \in p..Len(clientes) /\ l[q] \in Clientes
          BY <1>1, <4>2
        <5> QED  BY <2>1, <3>1, <4>2, <5>1
      <4>3. CASE l[q] = c
        BY <1>1, <1>7, <1>8, <4>3 DEF CursorInv, Cursores
      <4> QED  BY <1>10, <4>1, <4>2, <4>3
    <3>3. p \in 1..Len(l) /\ l[p] = cursor.en
      BY <1>9, <1>11, <3>1
    <3> QED  BY <3>2, <3>3
  <2> QED  BY <1>1, <1>2, <1>9, <2>1, <2>2 DEF CursorInv
<1>14. BuferesInv'
  <2>1. \A d \in Clientes, n, k \in Nat : Tiene(cl'[d], n, k, TRUE) => Tiene(cl[d], n, k, TRUE)
    BY <1>4, <1>7 DEF Tiene
  <2> QED  BY <1>1, <1>2, <2>1 DEF BuferesInv
<1>15. PasoEntero
  BY <1>1, <1>5, <1>6, EnteroTras
<1> QED  BY <1>7, <1>12, <1>13, <1>14, <1>15 DEF WsInv

-----------------------------------------------------------------------------
(* textAll().                                                              *)
LEMMA HechoNadie == Hecho \in Nat /\ Hecho # Nadie /\ Hecho \notin Clientes /\ Nadie \notin Clientes /\ N \in Nat
                    /\ Nadie = 0 /\ Clientes \subseteq Nat
BY AsyncWebSocketAssumption DEF Hecho, Nadie, Clientes

LEMMA MakeBufferPaso ==
  ASSUME WsInv, NEW l \in Largos, MakeBuffer(l)
  PROVE  WsInv' /\ PasoEntero
<1>1. ClientesInv /\ ListaInv /\ CursorInv /\ BuferesInv /\ creados \in Nat
  BY DEF WsInv, ClientesInv
<1>2. /\ cursor.n = 0 /\ creados' = creados + 1 /\ UNCHANGED <<clientes, cl>>
      /\ bufs' = [n \in DOMAIN bufs \cup {creados + 1} |-> n \in DOMAIN bufs /\ bufs[n]]
      /\ cursor' = [n |-> creados + 1, largo |-> l, en |-> Hecho]
  BY DEF MakeBuffer, Nuevo, Quieto
<1>3. PICK k \in Nat \ {0} : k = creados + 1 /\ creados < k
  BY <1>1
<1>4. cursor'.n = k /\ cursor'.en = Hecho /\ cursor' \in Cursores
  BY <1>2, <1>3, HechoNadie, AsyncWebSocketAssumption DEF Cursores
<1>5. ClientesInv'
  BY <1>1, <1>2 DEF ClientesInv
<1>6. ListaInv'
  BY <1>1, <1>2 DEF ListaInv, Vivo
<1>7. CursorInv'
  <2>1. \A c \in Clientes : ~Usa(cl[c], k)
    BY <1>1, <1>3 DEF ClientesInv
  <2> QED  BY <1>2, <1>3, <1>4, <2>1, HechoNadie DEF CursorInv
<1>8. BuferesInv'
  <2>1. DOMAIN bufs' = DOMAIN bufs \cup {k}
    BY <1>2, <1>3
  <2> QED  BY <1>1, <1>2, <1>4, <2>1 DEF BuferesInv
<1>9. PasoEntero
  BY <1>2, EnteroQuieto
<1> QED  BY <1>5, <1>6, <1>7, <1>8, <1>9 DEF WsInv

LEMMA TextAllPaso ==
  ASSUME WsInv, TextAll
  PROVE  WsInv' /\ PasoEntero
<1>1. ClientesInv /\ ListaInv /\ CursorInv /\ BuferesInv /\ clientes \in Seq(Clientes)
  BY DEF WsInv, ListaInv
<1>2. cursor.en = Hecho /\ UNCHANGED <<clientes, cl, creados>> /\ cursor \in Cursores /\ cursor.n # 0
  BY <1>1, HechoNadie DEF TextAll, CursorInv
<1>3. ClientesInv' /\ ListaInv' /\ PasoEntero
  BY <1>1, <1>2, EnteroQuieto DEF ClientesInv, ListaInv, Vivo
<1>4. CASE cursor.n \in DOMAIN bufs
  <2>1. PICK e : e = IF clientes = <<>> THEN Nadie ELSE Head(clientes)
    OBVIOUS
  <2>2. bufs' = [bufs EXCEPT ![cursor.n] = TRUE] /\ cursor' = [cursor EXCEPT !.en = e]
    BY <1>4, <2>1 DEF TextAll, Cerrado
  <2>3. e = Nadie \/ (Len(clientes) > 0 /\ e \in Clientes /\ e = clientes[1])
    BY <1>1, <2>1
  <2>4. cursor'.n = cursor.n /\ cursor'.en = e /\ cursor' \in Cursores
    BY <1>2, <2>2, <2>3, HechoNadie DEF Cursores
  <2>5. CursorInv'
    <3>1. e \in Clientes => \E p \in 1..Len(clientes) :
            clientes[p] = e /\ \A q \in p..Len(clientes) : ~Usa(cl[clientes[q]], cursor.n)
      <4> SUFFICES ASSUME e \in Clientes
                   PROVE  \E p \in 1..Len(clientes) :
                            clientes[p] = e /\ \A q \in p..Len(clientes) : ~Usa(cl[clientes[q]], cursor.n)
        OBVIOUS
      <4>1. 1 \in 1..Len(clientes) /\ clientes[1] = e
        BY <1>1, <2>3, HechoNadie
      <4>2. \A q \in 1..Len(clientes) : clientes[q] \in Clientes
        BY <1>1
      <4>3. \A q \in 1..Len(clientes) : ~Usa(cl[clientes[q]], cursor.n)
        BY <1>1, <1>2, <4>2 DEF CursorInv
      <4> QED  BY <4>1, <4>3
    <3>2. e # Hecho
      BY <2>3, HechoNadie
    <3> QED  BY <1>1, <1>2, <2>4, <3>1, <3>2 DEF CursorInv
  <2>6. BuferesInv'
    <3>1. DOMAIN bufs' = DOMAIN bufs /\ bufs'[cursor.n] = TRUE
      BY <1>4, <2>2
    <3> QED  BY <1>1, <1>2, <1>4, <2>4, <3>1 DEF BuferesInv
  <2> QED  BY <1>3, <2>5, <2>6 DEF WsInv
<1>5. CASE cursor.n \notin DOMAIN bufs
  <2>1. UNCHANGED bufs /\ cursor' = Quieto
    BY <1>5 DEF TextAll
  <2>2. cursor'.n = 0 /\ cursor'.en = Nadie /\ cursor' \in Cursores
    BY <2>1, HechoNadie DEF Quieto, Cursores
  <2>3. creados \in Nat
    BY <1>1 DEF ClientesInv
  <2>4. CursorInv'
    BY <1>2, <2>2, <2>3, HechoNadie DEF CursorInv
  <2>5. BuferesInv'
    BY <1>1, <1>2, <2>1, <2>2 DEF BuferesInv
  <2> QED  BY <1>3, <2>4, <2>5 DEF WsInv
<1> QED  BY <1>4, <1>5

LEMMA TextAllClientePaso ==
  ASSUME WsInv, TextAllCliente
  PROVE  WsInv' /\ PasoEntero
<1>1. ClientesInv /\ ListaInv /\ CursorInv /\ BuferesInv /\ clientes \in Seq(Clientes) /\ creados \in Nat
  BY DEF WsInv, ListaInv, ClientesInv
<1>2. PICK c \in Clientes : c = cursor.en
  BY DEF TextAllCliente
<1>3. UNCHANGED <<clientes, bufs, creados>> /\ cursor' = [cursor EXCEPT !.en = Siguiente]
      /\ cl' = [cl EXCEPT ![c] = QueueMessage(cl[c], Mensaje(cursor.n, cursor.largo, TRUE))]
  BY <1>2 DEF TextAllCliente
<1>4. cursor \in Cursores /\ cursor.n \in Nat \ {0} /\ cursor.largo \in Nat /\ cursor.n <= creados
  BY <1>1, <1>2, HechoNadie DEF CursorInv, Cursores
<1>5. PICK p \in 1..Len(clientes) : clientes[p] = c /\ \A q \in p..Len(clientes) : ~Usa(cl[clientes[q]], cursor.n)
  BY <1>1, <1>2 DEF CursorInv
<1>6. EnOrden(cl[c]) /\ cl[c].est # "no" /\ ~Usa(cl[c], cursor.n)
  <2>1. p \in p..Len(clientes)
    BY <1>1
  <2> QED  BY <1>1, <1>5, <2>1 DEF ClientesInv, ListaInv
<1> DEFINE r == QueueMessage(cl[c], Mensaje(cursor.n, cursor.largo, TRUE))
<1>7. Sigue(cl[c], r, cursor.n, TRUE)
  BY <1>4, <1>6, QueueMessageSigue
<1> HIDE DEF r
<1>8. cl' = [cl EXCEPT ![c] = r]
  BY <1>3 DEF r
<1>9. ClientesInv' /\ cl'[c] = r /\ \A d \in Clientes : d # c => cl'[d] = cl[d]
  <2>1. creados' \in Nat /\ creados <= creados' /\ cursor.n <= creados' /\ cursor.n \in Nat
    BY <1>1, <1>3, <1>4
  <2> QED  BY <1>1, <1>7, <1>8, <2>1, TrasSigue
<1>10. ListaInv'
  <2>1. r.est # "no" /\ cl[c].est # "no"
    BY <1>6, <1>7 DEF Sigue
  <2>2. \A d \in Clientes : cl'[d].est = "no" => cl[d].est = "no"
    BY <1>9, <2>1
  <2>3. \A d \in Clientes : Vivo(d)' => \E q \in 1..Len(clientes) : clientes[q] = d
    <3> SUFFICES ASSUME NEW d \in Clientes, Vivo(d)' PROVE \E q \in 1..Len(clientes) : clientes[q] = d
      OBVIOUS
    <3>1. CASE d = c
      BY <1>5, <3>1
    <3>2. CASE d # c
      <4>1. Vivo(d)
        BY <1>9, <3>2 DEF Vivo
      <4> QED  BY <1>1, <4>1 DEF ListaInv
    <3> QED  BY <3>1, <3>2
  <2>4. clientes' = clientes /\ \A q \in 1..Len(clientes) : cl'[clientes[q]].est # "no"
    <3>1. \A q \in 1..Len(clientes) : clientes[q] \in Clientes /\ cl[clientes[q]].est # "no"
      BY <1>1 DEF ListaInv
    <3> QED  BY <1>3, <2>2, <3>1
  <2>5. \A q, u \in 1..Len(clientes) : clientes[q] = clientes[u] => q = u
    BY <1>1 DEF ListaInv
  <2> QED  BY <1>1, <2>3, <2>4, <2>5 DEF ListaInv
<1>11. PICK e : e = Siguiente /\ (e = Nadie \/ (p + 1 \in 1..Len(clientes) /\ e = clientes[p + 1]))
  <2>1. PICK i \in 1..Len(clientes) : i = SelectInSeq(clientes, LAMBDA x : x = cursor.en) /\ clientes[i] = c
    BY <1>1, <1>2, <1>5, PrimeroIgual
  <2>2. i = p
    BY <1>1, <1>5, <2>1 DEF ListaInv
  <2>3. Siguiente = IF p = Len(clientes) THEN Nadie ELSE clientes[p + 1]
    BY <2>1, <2>2 DEF Siguiente
  <2>4. p = Len(clientes) \/ p + 1 \in 1..Len(clientes)
    BY <1>1
  <2> QED  BY <2>3, <2>4
<1>12. e \in Clientes \cup {Nadie}
  BY <1>1, <1>11
<1>13. cursor'.n = cursor.n /\ cursor'.en = e /\ cursor' \in Cursores
  BY <1>3, <1>4, <1>11, <1>12, HechoNadie DEF Cursores
<1>14. CursorInv'
  <2>1. e \in Clientes => \E q \in 1..Len(clientes) :
          clientes[q] = e /\ \A s \in q..Len(clientes) : ~Usa(cl'[clientes[s]], cursor.n)
    <3> SUFFICES ASSUME e \in Clientes
                 PROVE  \E q \in 1..Len(clientes) :
                          clientes[q] = e /\ \A s \in q..Len(clientes) : ~Usa(cl'[clientes[s]], cursor.n)
      OBVIOUS
    <3>1. p + 1 \in 1..Len(clientes) /\ e = clientes[p + 1]
      BY <1>11, HechoNadie
    <3>2. ASSUME NEW s \in p + 1..Len(clientes) PROVE ~Usa(cl'[clientes[s]], cursor.n)
      <4>1. s \in p..Len(clientes) /\ s \in 1..Len(clientes) /\ s # p
        BY <1>1
      <4>2. clientes[s] # c /\ clientes[s] \in Clientes
        BY <1>1, <1>5, <4>1 DEF ListaInv
      <4> QED  BY <1>5, <1>9, <4>1, <4>2
    <3> QED  BY <3>1, <3>2
  <2>2. e # Hecho /\ cursor.n # 0
    BY <1>4, <1>12, HechoNadie
  <2> QED  BY <1>3, <1>4, <1>13, <2>1, <2>2 DEF CursorInv
<1>15. BuferesInv'
  <2>1. cursor.n \in DOMAIN bufs /\ bufs[cursor.n] = TRUE
    BY <1>1, <1>2, <1>4, HechoNadie DEF BuferesInv
  <2>2. \A n, l \in Nat : Tiene(r, n, l, TRUE) => Tiene(cl[c], n, l, TRUE) \/ n = cursor.n
    BY <1>7 DEF Sigue
  <2>3. \A d \in Clientes, n, l \in Nat : Tiene(cl'[d], n, l, TRUE) => n \in DOMAIN bufs
    BY <1>1, <1>9, <2>1, <2>2 DEF BuferesInv
  <2> QED  BY <1>1, <1>3, <1>13, <2>1, <2>3 DEF BuferesInv
<1>16. PasoEntero
  BY <1>1, <1>7, <1>8, EnteroTras
<1> QED  BY <1>9, <1>10, <1>14, <1>15, <1>16 DEF WsInv

LEMMA TextAllFinPaso ==
  ASSUME WsInv, TextAllFin
  PROVE  WsInv' /\ PasoEntero
<1>1. ClientesInv /\ ListaInv /\ CursorInv /\ BuferesInv /\ creados \in Nat
  BY DEF WsInv, ClientesInv
<1>2. UNCHANGED <<clientes, cl, creados>> /\ cursor' = Quieto
  BY DEF TextAllFin
<1>3. ClientesInv' /\ ListaInv' /\ PasoEntero
  BY <1>1, <1>2, EnteroQuieto DEF ClientesInv, ListaInv, Vivo
<1>4. cursor'.n = 0 /\ cursor'.en = Nadie /\ cursor' \in Cursores
  BY <1>2, HechoNadie DEF Quieto, Cursores
<1>5. CursorInv'
  BY <1>1, <1>2, <1>4, HechoNadie DEF CursorInv
<1>6. BuferesInv'
  <2>1. PICK b : b = [bufs EXCEPT ![cursor.n] = FALSE] /\ bufs' \in Limpios(b, cl)
    BY DEF TextAllFin
  <2>2. DOMAIN b = DOMAIN bufs
    BY <2>1
  <2>3. DOMAIN bufs' \subseteq DOMAIN b /\ \A n \in DOMAIN b : EnUso(n, cl) => n \in DOMAIN bufs'
    BY <2>1, LimpiosGuarda
  <2>4. \A d \in Clientes, n, l \in Nat : Tiene(cl[d], n, l, TRUE) => n \in DOMAIN bufs'
    BY <1>1, <2>2, <2>3, EnUsoDe DEF BuferesInv
  <2> QED  BY <1>1, <1>2, <1>4, <2>2, <2>3, <2>4 DEF BuferesInv
<1> QED  BY <1>3, <1>5, <1>6 DEF WsInv

-----------------------------------------------------------------------------
LEMMA WsInicio == WsInit => WsInv
<1> SUFFICES ASSUME WsInit PROVE WsInv
  OBVIOUS
<1>1. clientes = <<>> /\ cl = [c \in Clientes |-> Cliente0] /\ bufs = <<>> /\ creados = 0 /\ cursor = Quieto
  BY DEF WsInit
<1>2. SinPar \in Pares /\ SinPar.hechos = {} /\ ~SinPar.mal /\ SinPar.de = 0
  BY DEF SinPar, Pares
<1>3. Cliente0 \in Registros /\ Cliente0.mensajes = <<>> /\ Cliente0.par = SinPar /\ Cliente0.est = "no"
  <2>1. "" \in Ops /\ "no" \in Estados
    BY Zenon DEF Ops, Estados
  <2>2. 0 \in Int /\ <<>> \in Seq(Controles) /\ <<>> \in Seq(Mensajes)
    OBVIOUS
  <2>3. Ninguna \in [op : Ops, largo : Int, leido : Int]
    BY <2>1, <2>2, Zenon DEF Ninguna
  <2> QED  BY <1>2, <2>1, <2>2, <2>3, Zenon DEF Cliente0, Registros
<1>4. EnOrden(Cliente0) /\ (\A n \in Nat : ~Usa(Cliente0, n)) /\ \A n, l \in Nat : ~Tiene(Cliente0, n, l, TRUE)
  <2>1. EnCola(<<>>, {}) /\ EnPar(<<>>, SinPar)
    BY <1>2 DEF EnCola, EnPar
  <2>2. EnOrden(Cliente0)
    BY <1>2, <1>3, <2>1 DEF EnOrden
  <2>3. \A n \in Nat : ~Usa(Cliente0, n)
    BY <1>2, <1>3 DEF Usa
  <2>4. \A n, l \in Nat : ~Tiene(Cliente0, n, l, TRUE)
    BY <1>2, <1>3 DEF Tiene
  <2> QED  BY <2>2, <2>3, <2>4
<1>5. ClientesInv
  BY <1>1, <1>3, <1>4 DEF ClientesInv
<1>6. ListaInv
  BY <1>1, <1>3 DEF ListaInv, Vivo
<1>7. cursor.n = 0 /\ cursor.en = Nadie /\ cursor \in Cursores
  BY <1>1, HechoNadie DEF Quieto, Cursores
<1>8. CursorInv
  BY <1>1, <1>7, HechoNadie DEF CursorInv
<1>9. BuferesInv
  <2>1. DOMAIN bufs = {}
    BY <1>1
  <2> QED  BY <1>1, <1>4, <1>7, <2>1 DEF BuferesInv
<1> QED  BY <1>5, <1>6, <1>8, <1>9 DEF WsInv

LEMMA WsPaso == WsInv /\ [WsNext]_wsvars => WsInv' /\ PasoEntero
<1> SUFFICES ASSUME WsInv, [WsNext]_wsvars PROVE WsInv' /\ PasoEntero
  OBVIOUS
<1>0. ClientesInv /\ ListaInv
  BY DEF WsInv
<1>1. ASSUME NEW c \in Clientes, Conectar(c) PROVE WsInv' /\ PasoEntero
  BY <1>1, ConectarPaso
<1>2. ASSUME NEW c \in Clientes, Acuse(c) \/ OnPoll(c) PROVE WsInv' /\ PasoEntero
  BY <1>0, <1>2, AcuseCola, OnPollCola, DeColaPaso
<1>3. ASSUME NEW c \in Clientes, OnAck(c) PROVE WsInv' /\ PasoEntero
  <2>1. CASE CierraConAck(cl[c])
    <3>1. Vivo(c) /\ SeVa(c) /\ UNCHANGED <<bufs, creados, cursor>>
      BY <1>3, <2>1 DEF OnAck
    <3> QED  BY <3>1, SeVaPaso
  <2>2. CASE ~CierraConAck(cl[c])
    BY <1>0, <1>3, <2>2, OnAckCola, DeColaPaso
  <2> QED  BY <2>1, <2>2
<1>4. ASSUME NEW c \in Clientes, Perder(c) PROVE WsInv' /\ PasoEntero
  <2>1. Vivo(c) /\ SeVa(c) /\ UNCHANGED <<bufs, creados, cursor>>
    BY <1>4 DEF Perder
  <2> QED  BY <2>1, SeVaPaso
<1>5. ASSUME NEW c \in Clientes, OnDataResto(c) PROVE WsInv' /\ PasoEntero
  BY <1>0, <1>5, OnDataRestoCola, DeColaPaso, SeVaPaso
<1>6. ASSUME NEW c \in Clientes, NEW op \in {"PING", "DISCONNECT"}, NEW n \in LargosControl, NEW parte \in 0..n,
             OnData(c, op, n, parte)
      PROVE  WsInv' /\ PasoEntero
  BY <1>0, <1>6, OnDataCola, DeColaPaso, SeVaPaso
<1>7. ASSUME NEW c \in Clientes, NEW l \in Largos, Text(c, l) PROVE WsInv' /\ PasoEntero
  BY <1>0, <1>7, TextCola, DeColaPaso
<1>8. ASSUME NEW c \in Clientes, NEW n \in LargosControl, Ping(c, n) \/ Close(c, n) PROVE WsInv' /\ PasoEntero
  <2>1. n \in Nat
    BY AsyncWebSocketAssumption
  <2> QED  BY <1>0, <1>8, <2>1, PingCloseCola, DeColaPaso
<1>9. ASSUME NEW l \in Largos, MakeBuffer(l) PROVE WsInv' /\ PasoEntero
  BY <1>9, MakeBufferPaso
<1>10. CASE TextAll
  BY <1>10, TextAllPaso
<1>11. CASE TextAllCliente
  BY <1>11, TextAllClientePaso
<1>12. CASE TextAllFin
  BY <1>12, TextAllFinPaso
<1>13. CASE CleanupClients
  BY <1>0, <1>13, CleanupCola, DeColaPaso
<1>14. CASE WsFin \/ UNCHANGED wsvars
  <2>1. UNCHANGED <<clientes, cl, bufs, creados, cursor>>
    BY <1>14 DEF WsFin, wsvars
  <2>2. ClientesInv' /\ ListaInv' /\ CursorInv' /\ BuferesInv'
    BY <2>1 DEF WsInv, ClientesInv, ListaInv, CursorInv, BuferesInv, Vivo
  <2> QED  BY <2>1, <2>2, EnteroQuieto DEF WsInv
<1> QED  BY <1>1, <1>2, <1>3, <1>4, <1>5, <1>6, <1>7, <1>8, <1>9, <1>10, <1>11, <1>12, <1>13, <1>14 DEF WsNext

-----------------------------------------------------------------------------
(* Of the two handlers, the one with a WebSocket.                          *)
LEMMA FlujosPaso == [Next]_flujos => [WsNext]_wsvars
BY DEF Next, flujos

LEMMA WsSiempre == FlujosSpec => []WsInv
<1>1. Init => WsInv
  BY WsInicio DEF Init
<1>2. WsInv /\ [Next]_flujos => WsInv'
  BY FlujosPaso, WsPaso
<1> QED  BY <1>1, <1>2, PTL DEF FlujosSpec

\* A message that makeBuffer() shares keeps its text while a client has it
\* queued, for every list of clients and every order of acks, closes and
\* calls: BufferVivo of every behaviour.
THEOREM BufferVivoCorrect == FlujosSpec => []BufferVivo
<1>1. WsInv => BufferVivo
  <2> SUFFICES ASSUME WsInv PROVE BufferVivo
    OBVIOUS
  <2>1. ASSUME NEW c \in Clientes, NEW i \in 1..Len(cl[c].mensajes), cl[c].mensajes[i].comun
        PROVE  cl[c].mensajes[i].n \in DOMAIN bufs
    <3>1. cl[c].mensajes \in Seq(Mensajes)
      BY DEF WsInv, ClientesInv, Registros
    <3>2. PICK m \in Mensajes : m = cl[c].mensajes[i]
      BY <3>1
    <3>3. m.n \in Nat /\ m.largo \in Nat /\ m.comun = TRUE
      BY <2>1, <3>2 DEF Mensajes
    <3>4. Tiene(cl[c], m.n, m.largo, TRUE)
      BY <3>2, <3>3 DEF Tiene
    <3> QED  BY <3>2, <3>3, <3>4 DEF WsInv, BuferesInv
  <2> QED  BY <2>1 DEF BufferVivo, WsInv, BuferesInv
<1> QED  BY <1>1, WsSiempre, PTL

\* Frames of two messages are never mixed on a connection, and a live client
\* loses no message before its peer has all of it (_runQueue, _onAck,
\* _queueMessage): MensajesEnteros of every behaviour.
THEOREM MensajesEnterosCorrect == FlujosSpec => MensajesEnteros
<1>1. WsInv => \A c \in Clientes : ~cl[c].par.mal
  BY DEF WsInv, ClientesInv, EnOrden, EnPar
<1>2. WsInv /\ [Next]_flujos => [\A c \in Clientes : \A i \in 1..Len(cl[c].mensajes) :
          LET n == cl[c].mensajes[i].n
          IN  Vivo(c)' => \/ cl[c].mensajes[i].largo = 0 \/ n \in cl'[c].par.hechos
                          \/ \E j \in 1..Len(cl'[c].mensajes) : cl'[c].mensajes[j].n = n]_wsvars
  BY FlujosPaso, WsPaso DEF PasoEntero
<1> QED  BY <1>1, <1>2, WsSiempre, PTL DEF FlujosSpec, MensajesEnteros
=============================================================================
