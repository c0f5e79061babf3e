--------------------------- MODULE AsyncTcpProofs ---------------------------
(***************************************************************************)
(* Proofs about the slots, the queue and the clients of AsyncTCP, for every *)
(* number of connections and every length of the queue.                      *)
(***************************************************************************)
EXTENDS AsyncTcp, FiniteSetTheorems, TLAPS

Tipos == {"ACCEPT", "RECV", "SENT", "POLL", "FIN", "ERROR", "CLEAR"}
Eventos == [tipo : Tipos, c : Clientes, n : Nat]
Pasos == {"libre", "manejar", "escrito", "leer", "api", "cerrar", "fin", "error", "descartar",
          "buscar", "barrer"}
Tareas ==
  [en : Pasos, ev : Eventos \cup {Nada}, op : {"", "write", "soltar", "close", "recved"},
   ranura : 0..Ranuras, primero : Eventos \cup {Nada}]

ClientesType ==
  /\ pcb \in [Clientes -> {"no", "abierta", "liberada"}]
  /\ objeto \in [Clientes -> {"no", "vivo", "borrado"}]
  /\ avisa \in [Clientes -> BOOLEAN] /\ puntero \in [Clientes -> BOOLEAN]
  /\ registrado \in [Clientes -> BOOLEAN] /\ reinicio \in [Clientes -> BOOLEAN]
  /\ usoLibre \in [Clientes -> BOOLEAN] /\ desprotegida \in [Clientes -> BOOLEAN]
  /\ puestos \in [Clientes -> Nat] /\ visto \in [Clientes -> Nat]
RanurasType ==
  /\ ranura \in [Clientes -> 0..Ranuras]
  /\ indice \in Nat \ {0} /\ cerradas \in [S -> 0..indice]
ColaType ==
  /\ cola \in Seq(Eventos) /\ Len(cola) <= ColaMax
  /\ espera \in Seq(Eventos) /\ Len(espera) <= 1 /\ desorden \in BOOLEAN
EnTarea(t) ==
  /\ t \in Tareas
  /\ t.en # "libre" => t.ev \in Eventos
  /\ t.en \in {"leer", "api"} => t.op # ""
TypeInv == ClientesType /\ RanurasType /\ ColaType /\ EnTarea(tarea)

-----------------------------------------------------------------------------
(* The operators of the queue and of the task.                             *)
LEMMA Solo ==
  ASSUME NEW T, NEW e \in T
  PROVE  <<e>> \in Seq(T) /\ Len(<<e>>) = 1 /\ <<e>>[1] = e
OBVIOUS

LEMMA AlFinal ==
  ASSUME NEW T, NEW q \in Seq(T), NEW e \in T
  PROVE  /\ Append(q, e) \in Seq(T) /\ Len(Append(q, e)) = Len(q) + 1
         /\ \A i \in 1..Len(q) : Append(q, e)[i] = q[i]
         /\ Append(q, e)[Len(q) + 1] = e
OBVIOUS

LEMMA AlFrente ==
  ASSUME NEW T, NEW q \in Seq(T), NEW e \in T
  PROVE  /\ <<e>> \o q \in Seq(T) /\ Len(<<e>> \o q) = Len(q) + 1
         /\ (<<e>> \o q)[1] = e
         /\ \A i \in 2..(Len(q) + 1) : (<<e>> \o q)[i] = q[i - 1]
OBVIOUS

LEMMA SinPrimero ==
  ASSUME NEW T, NEW q \in Seq(T), q # <<>>
  PROVE  /\ Head(q) \in T /\ Head(q) = q[1] /\ Len(q) >= 1
         /\ Tail(q) \in Seq(T) /\ Len(Tail(q)) = Len(q) - 1
         /\ \A i \in 1..(Len(q) - 1) : Tail(q)[i] = q[i + 1]
OBVIOUS

LEMMA Girado ==
  ASSUME NEW T, NEW q \in Seq(T), q # <<>>
  PROVE  LET g == Append(Tail(q), Head(q))
         IN  /\ g \in Seq(T) /\ Len(g) = Len(q) /\ g[Len(q)] = q[1]
             /\ \A i \in 1..(Len(q) - 1) : g[i] = q[i + 1]
BY SinPrimero, AlFinal

LEMMA PonerType ==
  ASSUME NEW q \in Seq(Eventos), NEW e \in Eventos
  PROVE  Poner(e, q) \in Seq(Eventos) /\ Len(Poner(e, q)) = Len(q) + 1
BY AlFinal, AlFrente DEF Poner

LEMMA Tamanos ==
  ASSUME ColaType, RanurasType
  PROVE  /\ Ranuras \in Nat /\ ColaMax \in Nat /\ indice \in Nat /\ indice > 0
         /\ cola \in Seq(Eventos) /\ Len(cola) \in Nat /\ Len(cola) <= ColaMax
         /\ espera \in Seq(Eventos) /\ Len(espera) \in Nat /\ Len(espera) <= 1
BY AsyncTcpAssumption DEF RanurasType, ColaType

LEMMA QuienType == EnTarea(tarea) /\ tarea.en # "libre" => Quien \in Clientes
BY DEF EnTarea, Eventos, Quien

\* The states of the task that its steps lead to.
LEMMA LibreType == EnTarea(Libre) /\ Libre.en = "libre"
BY AsyncTcpAssumption DEF Libre, EnTarea, Tareas, Pasos

LEMMA EnType ==
  ASSUME EnTarea(tarea), tarea.en # "libre", NEW p \in Pasos \ {"leer", "api"}
  PROVE  EnTarea(En(p)) /\ En(p).en = p /\ En(p).ev = tarea.ev
BY DEF EnTarea, Tareas, En

LEMMA LlamarType ==
  ASSUME EnTarea(tarea), tarea.en # "libre",
         NEW o \in {"write", "soltar", "close", "recved"}
  PROVE  /\ EnTarea(Llamar(o)) /\ Llamar(o).en = "leer" /\ Llamar(o).op = o
         /\ Llamar(o).ev = tarea.ev
BY DEF EnTarea, Tareas, Pasos, Llamar

LEMMA LeidaType ==
  ASSUME EnTarea(tarea), RanurasType, LeerRanura
  PROVE  /\ EnTarea(tarea') /\ tarea'.en = "api" /\ tarea'.op = tarea.op
         /\ tarea'.ev = tarea.ev /\ tarea'.ranura = ranura[Quien] /\ Quien \in Clientes
<1>1. ranura[Quien] \in 0..Ranuras /\ Quien \in Clientes
  BY QuienType DEF RanurasType, LeerRanura
<1> QED  BY <1>1 DEF EnTarea, Tareas, Pasos, LeerRanura

LEMMA TomadaType ==
  ASSUME NEW e \in Eventos, NEW p \in Pasos \ {"leer", "api"}
  PROVE  LET t == [Libre EXCEPT !.ev = e, !.en = p]
         IN  EnTarea(t) /\ t.en = p /\ t.ev = e
<1>1. Libre \in Tareas
  BY LibreType DEF EnTarea
<1> QED  BY <1>1 DEF EnTarea, Tareas

LEMMA BarrerType ==
  ASSUME EnTarea(tarea), tarea.en # "libre", NEW e \in Eventos
  PROVE  LET t == [En("barrer") EXCEPT !.primero = e]
         IN  EnTarea(t) /\ t.en = "barrer" /\ t.ev = tarea.ev /\ t.primero = e
BY DEF EnTarea, Tareas, En, Pasos

-----------------------------------------------------------------------------
LEMMA PublicarType ==
  ASSUME TypeInv, espera = <<>>, NEW e \in Eventos, Publicar(e)
  PROVE  ColaType' /\ puestos' \in [Clientes -> Nat]
<1> USE DEF TypeInv
<1>1. puestos' \in [Clientes -> Nat]
  BY DEF ClientesType, Publicar, Eventos
<1>2. desorden' \in BOOLEAN
  BY DEF ColaType, Publicar, Hay, EnBarrido
<1>3. CASE Hay
  <2>1. cola' = Poner(e, cola) /\ espera' = espera
    BY <1>3 DEF Publicar
  <2>2. cola' \in Seq(Eventos) /\ Len(cola') = Len(cola) + 1
    BY <2>1, PonerType, Tamanos
  <2>3. Len(cola') <= ColaMax
    BY <1>3, <2>2, Tamanos DEF Hay
  <2> QED  BY <1>1, <1>2, <2>1, <2>2, <2>3 DEF ColaType
<1>4. CASE ~Hay
  <2>1. cola' = cola /\ espera' = <<e>>
    BY <1>4 DEF Publicar
  <2> QED  BY <1>1, <1>2, <2>1, Solo DEF ColaType
<1> QED  BY <1>3, <1>4

LEMMA SoltarType ==
  ASSUME RanurasType, NEW c \in Clientes, SoltarRanura(c)
  PROVE  RanurasType'
<1>1. CASE ranura[c] = 0
  BY <1>1 DEF RanurasType, SoltarRanura, S
<1>2. CASE ranura[c] # 0
  <2>0. Ranuras \in Nat /\ indice \in Nat
    BY AsyncTcpAssumption DEF RanurasType
  <2>1. ranura' \in [Clientes -> 0..Ranuras]
    BY <1>2, <2>0 DEF RanurasType, SoltarRanura
  <2>2. indice' = indice + 1 /\ indice' \in Nat \ {0}
    BY <1>2, <2>0 DEF SoltarRanura
  <2>3. 0..indice \subseteq 0..indice' /\ indice \in 0..indice'
    BY <2>0, <2>2
  <2>4. cerradas \in [S -> 0..indice'] /\ cerradas' = [cerradas EXCEPT ![ranura[c]] = indice]
    BY <1>2, <2>3 DEF RanurasType, SoltarRanura
  <2>5. cerradas' \in [S -> 0..indice']
    BY <2>3, <2>4
  <2> QED  BY <2>1, <2>2, <2>5 DEF RanurasType, S
<1> QED  BY <1>1, <1>2

LEMMA EventoType ==
  ASSUME ClientesType, NEW c \in Clientes, NEW t \in Tipos
  PROVE  /\ Evento(t, c, puestos[c] + 1) \in Eventos
         /\ Evento(t, c, 0) \in Eventos /\ Evento(t, c, 1) \in Eventos
<1>1. puestos[c] + 1 \in Nat
  BY DEF ClientesType
<1> QED  BY <1>1 DEF Evento, Eventos

LEMMA TypeStep == TypeInv /\ [Next]_vars => TypeInv'
<1> SUFFICES ASSUME TypeInv, [Next]_vars PROVE TypeInv'
  OBVIOUS
<1> USE DEF TypeInv, lwip, datos
<1>1. ASSUME NEW c \in Clientes, _accept(c) PROVE TypeInv'
  <2>1. ColaType' /\ puestos' \in [Clientes -> Nat]
    BY <1>1, EventoType, PublicarType DEF _accept, Tipos
  <2>2. RanurasType'
    <3>1. CASE UNCHANGED <<ranura, cerradas>>
      BY <1>1, <3>1 DEF _accept, RanurasType, S
    <3>2. ASSUME NEW s \in S, ranura' = [ranura EXCEPT ![c] = s], cerradas' = [cerradas EXCEPT ![s] = 0]
          PROVE  RanurasType'
      <4>1. s \in 0..Ranuras /\ 0 \in 0..indice
        BY Tamanos DEF S
      <4> QED  BY <1>1, <3>2, <4>1 DEF _accept, RanurasType, S
    <3> QED  BY <1>1, <3>1, <3>2 DEF _accept
  <2> QED  BY <1>1, <2>1, <2>2 DEF _accept, ClientesType, EnTarea
<1>2. ASSUME NEW c \in Clientes, NEW t \in {"RECV", "SENT", "POLL"}, Avisar(c, t) PROVE TypeInv'
  <2>1. ColaType' /\ puestos' \in [Clientes -> Nat]
    BY <1>2, EventoType, PublicarType DEF Avisar, Tipos
  <2> QED  BY <1>2, <2>1 DEF Avisar, ClientesType, RanurasType, S, EnTarea
<1>3. ASSUME NEW c \in Clientes, Fin(c) PROVE TypeInv'
  <2>1. ColaType' /\ puestos' \in [Clientes -> Nat]
    BY <1>3, EventoType, PublicarType DEF Fin, Tipos
  <2>2. RanurasType'
    BY <1>3, SoltarType DEF Fin, _lwip_fin
  <2> QED  BY <1>3, <2>1, <2>2 DEF Fin, _lwip_fin, ClientesType, EnTarea
<1>4. ASSUME NEW c \in Clientes, Reiniciar(c) PROVE TypeInv'
  <2>1. ColaType' /\ puestos' \in [Clientes -> Nat]
    <3>1. CASE avisa[c]
      BY <1>4, <3>1, EventoType, PublicarType DEF Reiniciar, Tipos
    <3>2. CASE ~avisa[c]
      BY <1>4, <3>2 DEF Reiniciar, ClientesType, ColaType
    <3> QED  BY <3>1, <3>2
  <2> QED  BY <1>4, <2>1 DEF Reiniciar, ClientesType, RanurasType, S, EnTarea
<1>5. CASE Desbloquear
  <2>1. Head(espera) \in Eventos /\ Tail(espera) \in Seq(Eventos)
    BY <1>5, SinPrimero, Tamanos DEF Desbloquear
  <2>2. cola' \in Seq(Eventos) /\ Len(cola') = Len(cola) + 1 /\ Len(cola) < ColaMax
    BY <1>5, <2>1, PonerType, Tamanos DEF Desbloquear, Hay
  <2>3. Len(cola') <= ColaMax
    BY <2>2, Tamanos
  <2>4. espera' \in Seq(Eventos) /\ Len(espera') <= 1 /\ desorden' \in BOOLEAN
    BY <1>5 DEF Desbloquear, EnBarrido, ColaType
  <2> QED  BY <1>5, <2>2, <2>3, <2>4 DEF Desbloquear, ColaType, ClientesType, RanurasType, S, EnTarea
<1>6. CASE EjecutarApi
  <2>1. Quien \in Clientes /\ tarea.op \in {"write", "soltar", "close", "recved"}
    BY <1>6, QuienType DEF EjecutarApi, EnTarea, Tareas
  <2>2. EnTarea(tarea')
    <3>1. tarea' \in {En("escrito"), En("cerrar"), En("descartar"), Libre}
      BY <1>6, <2>1 DEF EjecutarApi
    <3> QED  BY <1>6, <3>1, EnType, LibreType DEF EjecutarApi, Pasos
  <2> QED  BY <1>6, <2>1, <2>2 DEF EjecutarApi, ColaType, ClientesType, RanurasType, S
<1>7. CASE Tomar
  <2>1. Head(cola) \in Eventos /\ Tail(cola) \in Seq(Eventos) /\ Len(Tail(cola)) = Len(cola) - 1
    BY <1>7, SinPrimero, Tamanos DEF Tomar
  <2>2. EnTarea(tarea')
    <3>1. CASE Head(cola).tipo = "ACCEPT"
      BY <1>7, <3>1, LibreType DEF Tomar, Tarea
    <3>2. CASE Head(cola).tipo # "ACCEPT"
      <4>1. PICK p \in {"buscar", "fin", "error", "manejar"} :
              tarea' = [Libre EXCEPT !.ev = Head(cola), !.en = p]
        BY <1>7, <3>2 DEF Tomar, Tarea
      <4>2. p \in Pasos \ {"leer", "api"}
        BY DEF Pasos
      <4>3. EnTarea([Libre EXCEPT !.ev = Head(cola), !.en = p])
        BY <2>1, <4>2, TomadaType
      <4> QED  BY <4>1, <4>3
    <3> QED  BY <3>1, <3>2
  <2>3. cola' \in Seq(Eventos) /\ Len(cola') <= ColaMax
    BY <1>7, <2>1, Tamanos DEF Tomar
  <2>4. visto' \in [Clientes -> Nat] /\ registrado' \in [Clientes -> BOOLEAN]
    BY <1>7, <2>1 DEF Tomar, ClientesType, Eventos
  <2> QED  BY <1>7, <2>2, <2>3, <2>4 DEF Tomar, Tarea, ColaType, ClientesType, RanurasType, S
<1>8. CASE Escribir \/ CerrarCliente \/ Volver
  <2>1. tarea.en # "libre"
    BY <1>8 DEF Escribir, CerrarCliente, Volver
  <2>2. tarea' \in {Llamar("write"), Llamar("soltar"), Llamar("recved"), Libre}
    BY <1>8 DEF Escribir, CerrarCliente, Volver, Tarea
  <2>3. EnTarea(tarea')
    BY <2>1, <2>2, LlamarType, LibreType
  <2> QED  BY <1>8, <2>3 DEF Escribir, CerrarCliente, Volver, Tarea, ColaType, ClientesType,
                            RanurasType, S
<1>9. CASE _close \/ _fin
  <2>1. Quien \in Clientes /\ tarea.en # "libre"
    BY <1>9, QuienType DEF _close, _fin
  <2> DEFINE e == Evento("CLEAR", Quien, 0)
  <2>2. e \in Eventos
    BY <2>1, EventoType DEF Tipos
  <2>3. cola' \in Seq(Eventos) /\ Len(cola') <= ColaMax
    <3>1. CASE cola' = cola
      BY <3>1, Tamanos
    <3>2. CASE Hay /\ cola' = <<e>> \o cola
      <4>1. <<e>> \o cola \in Seq(Eventos) /\ Len(<<e>> \o cola) = Len(cola) + 1
        BY <2>2, AlFrente, Tamanos
      <4> QED  BY <3>2, <4>1, Tamanos DEF Hay
    <3> QED  BY <1>9, <3>1, <3>2 DEF _close, _fin
  <2>4. EnTarea(tarea')
    <3>1. tarea' \in {Llamar("close"), Libre, En("descartar")}
      BY <1>9 DEF _close, _fin, Tarea
    <3> QED  BY <2>1, <3>1, LlamarType, LibreType, EnType DEF Pasos
  <2> QED  BY <1>9, <2>3, <2>4 DEF _close, _fin, Tarea, ColaType, ClientesType, RanurasType, S
<1>10. CASE _error
  <2>1. EnTarea(tarea')
    BY <1>10, EnType DEF _error, Pasos
  <2> QED  BY <1>10, <2>1 DEF _error, ColaType, ClientesType, RanurasType, S
<1>11. CASE Descartar
  <2>1. Quien \in Clientes
    BY <1>11, QuienType DEF Descartar
  <2>2. RanurasType'
    BY <1>11, <2>1, SoltarType DEF Descartar, RanurasType, S
  <2> QED  BY <1>11, <2>2, LibreType DEF Descartar, Tarea, ClientesType, ColaType
<1>12. CASE Buscar \/ Barrer
  <2>1. tarea.en # "libre"
    BY <1>12 DEF Buscar, Barrer
  <2>2. EnTarea(tarea') /\ cola' \in Seq(Eventos) /\ Len(cola') <= ColaMax
    <3>1. CASE cola = <<>>
      BY <1>12, <3>1, LibreType DEF Buscar, Barrer, Tarea, ColaType
    <3>2. CASE cola # <<>>
      <4>1. Head(cola) \in Eventos /\ Tail(cola) \in Seq(Eventos) /\ Len(Tail(cola)) = Len(cola) - 1
        BY <3>2, SinPrimero, Tamanos
      <4>2. /\ Append(Tail(cola), Head(cola)) \in Seq(Eventos)
            /\ Len(Append(Tail(cola), Head(cola))) = Len(cola)
        BY <3>2, Girado, Tamanos
      <4>3. cola' \in {cola, Tail(cola), Append(Tail(cola), Head(cola))}
        BY <1>12, <3>2 DEF Buscar, Barrer
      <4>4. tarea' \in {Libre, tarea, [En("barrer") EXCEPT !.primero = Head(cola)]}
        BY <1>12, <3>2 DEF Buscar, Barrer, Tarea
      <4>5. EnTarea(tarea')
        BY <2>1, <4>1, <4>4, LibreType, BarrerType
      <4>6. cola' \in Seq(Eventos) /\ Len(cola') <= Len(cola)
        <5>1. CASE cola' = cola
          BY <5>1, Tamanos
        <5>2. CASE cola' = Tail(cola)
          BY <4>1, <5>2, Tamanos
        <5>3. CASE cola' = Append(Tail(cola), Head(cola))
          <6>1. cola' \in Seq(Eventos) /\ Len(cola') = Len(cola)
            BY <4>2, <5>3, Zenon
          <6> QED  BY <6>1, Tamanos
        <5> QED  BY <4>3, <5>1, <5>2, <5>3
      <4> QED  BY <4>5, <4>6, Tamanos
    <3> QED  BY <3>1, <3>2
  <2> QED  BY <1>12, <2>2 DEF Buscar, Barrer, Tarea, ColaType, ClientesType, RanurasType, S
<1>13. CASE UNCHANGED vars
  BY <1>13 DEF vars, ColaType, ClientesType, RanurasType, S, EnTarea
<1>14. CASE LeerRanura
  <2>1. EnTarea(tarea')
    BY <1>14, LeidaType
  <2> QED  BY <1>14, <2>1 DEF LeerRanura, ColaType, ClientesType, RanurasType, S
<1> QED  BY <1>1, <1>2, <1>3, <1>4, <1>5, <1>6, <1>7, <1>8, <1>9, <1>10, <1>11, <1>12, <1>13, <1>14
            DEF Next, PasoDeTarea

-----------------------------------------------------------------------------
(* What an event says of its client from the moment it is posted: nothing comes *)
(* after the end of a connection, and _close() makes its client deaf first.     *)
Cerrando(c) == tarea.en \in {"leer", "api"} /\ tarea.op = "close" /\ Quien = c

Sano(e) ==
  /\ pcb[e.c] # "no"
  /\ e.tipo # "CLEAR" => e.n \in 1..puestos[e.c]
  /\ e.tipo = "ACCEPT" => e.n = 1
  /\ e.tipo \in {"FIN", "ERROR"} => ~avisa[e.c] /\ e.n = puestos[e.c]
  /\ e.tipo = "FIN" => ~puntero[e.c]
  /\ e.tipo = "ERROR" => reinicio[e.c]
  /\ e.tipo = "CLEAR" => ~avisa[e.c] /\ (~puntero[e.c] \/ Cerrando(e.c)) /\ e.n = 0
Sanos == {e \in Eventos : Sano(e)}
Esperables == {e \in Sanos : e.tipo # "CLEAR"}

ColaSana == cola \in Seq(Sanos) /\ espera \in Seq(Esperables)
TareaSana ==
  /\ tarea.en # "libre" => pcb[Quien] # "no"
  /\ tarea.en = "fin" => tarea.ev \in Sanos /\ tarea.ev.tipo = "FIN"
  /\ tarea.en = "error" => tarea.ev \in Sanos /\ tarea.ev.tipo = "ERROR"
  /\ tarea.en = "descartar" \/ (tarea.en \in {"leer", "api"} /\ tarea.op = "close") => ~avisa[Quien]
  /\ tarea.en = "descartar" => ~puntero[Quien]

\* A pcb that lwIP freed is only in the hands of a client that was reset.
PcbInv ==
  \A c \in Clientes :
    /\ pcb[c] = "no" => objeto[c] = "no" /\ puestos[c] = 0 /\ ranura[c] = 0
    /\ pcb[c] # "no" => objeto[c] # "no"
    /\ avisa[c] => puntero[c]
    /\ puntero[c] /\ pcb[c] = "liberada" => reinicio[c]
    /\ usoLibre[c] => reinicio[c] \/ desprotegida[c]

\* A slot is in use while one client has it; a client that calls with a slot still has
\* its pcb, and the slot that the call read tells whether the pcb is freed in the
\* meantime.
RanurasInv ==
  /\ \A c \in Clientes :
       /\ ranura[c] # 0 => objeto[c] = "vivo" /\ cerradas[ranura[c]] = 0
       /\ puntero[c] => ranura[c] # 0 \/ desprotegida[c]
  /\ \A c, d \in Clientes : ranura[c] = ranura[d] /\ ranura[c] # 0 => c = d
  /\ \A s \in S : cerradas[s] = 0 => \E c \in Clientes : ranura[c] = s
ApiInv ==
  /\ tarea.en = "leer" /\ ranura[Quien] # 0 => puntero[Quien]
  /\ tarea.en = "api" =>
       /\ puntero[Quien] => tarea.ranura = ranura[Quien]
       /\ pcb[Quien] = "liberada" =>
            \/ reinicio[Quien] \/ desprotegida[Quien]
            \/ tarea.ranura # 0 /\ cerradas[tarea.ranura] # 0

PcbInvs == TypeInv /\ ColaSana /\ TareaSana /\ PcbInv /\ RanurasInv /\ ApiInv

-----------------------------------------------------------------------------
(* What every step keeps of a client, and with it what its events say.      *)
Avanza(c) ==
  /\ pcb[c] # "no" => pcb'[c] # "no"
  /\ puestos[c] <= puestos'[c]
  /\ pcb[c] # "no" /\ ~avisa[c] => ~avisa'[c] /\ puestos'[c] = puestos[c]
  /\ pcb[c] # "no" /\ ~puntero[c] => ~puntero'[c]
  /\ reinicio[c] => reinicio'[c]
  /\ Cerrando(c) => Cerrando(c)' \/ ~puntero'[c]

LEMMA SanosCrecen ==
  ASSUME TypeInv, TypeInv', \A c \in Clientes : Avanza(c)
  PROVE  Sanos \subseteq Sanos' /\ Esperables \subseteq Esperables'
<1>1. ASSUME NEW e \in Eventos, Sano(e) PROVE Sano(e)'
  <2>1. e.c \in Clientes /\ e.n \in Nat /\ Avanza(e.c)
    BY DEF Eventos
  <2>2. puestos[e.c] \in Nat /\ puestos'[e.c] \in Nat
    BY <2>1 DEF TypeInv, ClientesType
  <2> QED  BY <1>1, <2>1, <2>2 DEF Sano, Avanza
<1> QED  BY <1>1 DEF Sanos, Esperables

LEMMA SeqCrece == ASSUME NEW A, NEW B, A \subseteq B, NEW q \in Seq(A) PROVE q \in Seq(B)
OBVIOUS

LEMMA ColaSanaCrece ==
  ASSUME ColaSana, TypeInv, TypeInv', \A c \in Clientes : Avanza(c)
  PROVE  cola \in Seq(Sanos') /\ espera \in Seq(Esperables')
BY SanosCrecen, SeqCrece DEF ColaSana

LEMMA PublicarSano ==
  ASSUME ColaSana, TypeInv, TypeInv', \A c \in Clientes : Avanza(c),
         espera = <<>>, NEW e \in Eventos, Publicar(e), Sano(e)', e.tipo # "CLEAR"
  PROVE  ColaSana'
<1>1. e \in Sanos' /\ e \in Esperables' /\ cola \in Seq(Sanos') /\ espera \in Seq(Esperables')
  BY ColaSanaCrece DEF Sanos, Esperables
<1>2. CASE Hay
  <2>1. cola' = Poner(e, cola) /\ espera' = espera
    BY <1>2 DEF Publicar
  <2> QED  BY <1>1, <2>1, AlFinal, AlFrente DEF Poner, ColaSana
<1>3. CASE ~Hay
  BY <1>1, <1>3, Solo DEF Publicar, ColaSana
<1> QED  BY <1>2, <1>3

LEMMA Campos ==
  ASSUME NEW c \in Clientes, NEW t \in Tipos, NEW k \in Nat
  PROVE  /\ Evento(t, c, k) \in Eventos
         /\ Evento(t, c, k).tipo = t /\ Evento(t, c, k).c = c /\ Evento(t, c, k).n = k
BY DEF Evento, Eventos

LEMMA Publicado ==
  ASSUME TypeInv, NEW c \in Clientes, NEW t \in Tipos, NEW k \in Nat, Publicar(Evento(t, c, k))
  PROVE  \A d \in Clientes : puestos'[d] = IF d = c THEN k ELSE puestos[d]
BY Campos DEF TypeInv, ClientesType, Publicar

LEMMA AvanzaStep ==
  ASSUME PcbInvs, [Next]_vars
  PROVE  \A c \in Clientes : Avanza(c)
<1> USE DEF PcbInvs, TypeInv, lwip, datos, Avanza, Cerrando
<1>0. \A c \in Clientes : puestos[c] \in Nat /\ puestos[c] + 1 \in Nat /\ puestos[c] <= puestos[c] + 1 /\ puestos[c] <= puestos[c]
  BY DEF ClientesType
<1>1. ASSUME NEW c \in Clientes, _accept(c) PROVE \A d \in Clientes : Avanza(d)
  <2>1. \A d \in Clientes : puestos'[d] = IF d = c THEN 1 ELSE puestos[d]
    BY <1>0, <1>1, Publicado DEF _accept, Tipos
  <2> QED  BY <1>0, <1>1, <2>1 DEF _accept, PcbInv, ClientesType, Quien
<1>2. ASSUME NEW c \in Clientes, NEW t \in {"RECV", "SENT", "POLL"}, Avisar(c, t)
      PROVE  \A d \in Clientes : Avanza(d)
  <2>1. \A d \in Clientes : puestos'[d] = IF d = c THEN puestos[c] + 1 ELSE puestos[d]
    BY <1>0, <1>2, Publicado DEF Avisar, Tipos
  <2> QED  BY <1>0, <1>2, <2>1 DEF Avisar, Quien
<1>3. ASSUME NEW c \in Clientes, Fin(c) PROVE \A d \in Clientes : Avanza(d)
  <2>1. \A d \in Clientes : puestos'[d] = IF d = c THEN puestos[c] + 1 ELSE puestos[d]
    BY <1>0, <1>3, Publicado DEF Fin, Tipos
  <2> QED  BY <1>0, <1>3, <2>1 DEF Fin, _lwip_fin, ClientesType, Quien
<1>4. ASSUME NEW c \in Clientes, Reiniciar(c) PROVE \A d \in Clientes : Avanza(d)
  <2>1. \A d \in Clientes : puestos'[d] = IF d = c /\ avisa[c] THEN puestos[c] + 1 ELSE puestos[d]
    BY <1>0, <1>4, Publicado DEF Reiniciar, Tipos
  <2> QED  BY <1>0, <1>4, <2>1 DEF Reiniciar, ClientesType, Quien
<1>5. CASE Desbloquear
  BY <1>0, <1>5 DEF Desbloquear, Quien
<1>6. CASE EjecutarApi
  <2>1. Quien \in Clientes
    BY <1>6, QuienType DEF EjecutarApi
  <2> QED  BY <1>0, <1>6, <2>1 DEF EjecutarApi, ClientesType
<1>7. CASE Tomar \/ _fin \/ Descartar \/ Buscar \/ Barrer \/ Escribir \/ CerrarCliente \/ Volver
  BY <1>0, <1>7 DEF Tomar, _fin, Descartar, Buscar, Barrer, Escribir, CerrarCliente, Volver, Tarea
<1>8. CASE _close
  <2>1. Quien \in Clientes
    BY <1>8, QuienType DEF _close
  <2> QED  BY <1>0, <1>8, <2>1 DEF _close, ClientesType
<1>9. CASE _error
  <2>1. Quien \in Clientes
    BY <1>9, QuienType DEF _error
  <2> QED  BY <1>0, <1>9, <2>1 DEF _error, ClientesType
<1>10. CASE UNCHANGED vars
  BY <1>0, <1>10 DEF vars, Quien
<1>11. CASE LeerRanura
  <2>1. tarea'.en = "api" /\ tarea'.op = tarea.op /\ tarea'.ev = tarea.ev
    BY <1>11, LeidaType
  <2> QED  BY <1>0, <1>11, <2>1 DEF LeerRanura, Quien
<1> QED  BY <1>1, <1>2, <1>3, <1>4, <1>5, <1>6, <1>7, <1>8, <1>9, <1>10, <1>11 DEF Next, PasoDeTarea

LEMMA ColaSanaStep ==
  ASSUME PcbInvs, [Next]_vars
  PROVE  ColaSana'
<1> USE DEF PcbInvs, lwip, datos
<1>0. TypeInv' /\ \A c \in Clientes : Avanza(c)
  BY TypeStep, AvanzaStep
<1>q. cola \in Seq(Sanos') /\ espera \in Seq(Esperables')
  BY <1>0, ColaSanaCrece
<1>r. Esperables' \subseteq Sanos'
  BY DEF Esperables
<1>1. ASSUME NEW c \in Clientes, _accept(c) PROVE ColaSana'
  <2>1. 1 \in Nat \ {0}
    BY DEF TypeInv, ClientesType
  <2>2. PICK e \in Eventos : e = Evento("ACCEPT", c, 1)
    BY <2>1, Campos DEF Tipos
  <2>3. Publicar(e) /\ espera = <<>> /\ pcb'[c] = "abierta"
    BY <1>1, <2>2 DEF _accept, TypeInv, ClientesType
  <2>4. puestos'[c] = 1
    BY <2>1, <2>2, <2>3, Publicado DEF Tipos
  <2>6. e.c = c /\ e.n = puestos'[c] /\ e.n = 1 /\ e.tipo = "ACCEPT"
    BY <2>1, <2>2, <2>4, Campos DEF Tipos
  <2>5. Sano(e)'
    BY <2>3, <2>6 DEF Sano
  <2> QED  BY <1>0, <2>2, <2>3, <2>5, <2>6, PublicarSano
<1>2. ASSUME NEW c \in Clientes, NEW t \in {"RECV", "SENT", "POLL"}, Avisar(c, t) PROVE ColaSana'
  <2>1. puestos[c] + 1 \in Nat \ {0}
    BY DEF TypeInv, ClientesType
  <2>2. PICK e \in Eventos : e = Evento(t, c, puestos[c] + 1)
    BY <2>1, Campos DEF Tipos
  <2>3. Publicar(e) /\ espera = <<>> /\ pcb'[c] = "abierta"
    BY <1>2, <2>2 DEF Avisar, TypeInv, ClientesType
  <2>4. puestos'[c] = puestos[c] + 1
    BY <2>1, <2>2, <2>3, Publicado DEF Tipos
  <2>6. e.c = c /\ e.n = puestos'[c] /\ e.n \in Nat \ {0} /\ e.tipo = t
    BY <2>1, <2>2, <2>4, Campos DEF Tipos
  <2>5. Sano(e)'
    BY <2>3, <2>6 DEF Sano
  <2> QED  BY <1>0, <2>2, <2>3, <2>5, <2>6, PublicarSano
<1>3. ASSUME NEW c \in Clientes, Fin(c) PROVE ColaSana'
  <2>1. puestos[c] + 1 \in Nat \ {0}
    BY DEF TypeInv, ClientesType
  <2>2. PICK e \in Eventos : e = Evento("FIN", c, puestos[c] + 1)
    BY <2>1, Campos DEF Tipos
  <2>3. Publicar(e) /\ espera = <<>> /\ pcb'[c] = "liberada" /\ ~avisa'[c] /\ ~puntero'[c]
    BY <1>3, <2>2 DEF Fin, _lwip_fin, TypeInv, ClientesType
  <2>4. puestos'[c] = puestos[c] + 1
    BY <2>1, <2>2, <2>3, Publicado DEF Tipos
  <2>6. e.c = c /\ e.n = puestos'[c] /\ e.n \in Nat \ {0} /\ e.tipo = "FIN"
    BY <2>1, <2>2, <2>4, Campos DEF Tipos
  <2>5. Sano(e)'
    BY <2>3, <2>6 DEF Sano
  <2> QED  BY <1>0, <2>2, <2>3, <2>5, <2>6, PublicarSano
<1>4. ASSUME NEW c \in Clientes, Reiniciar(c) PROVE ColaSana'
  <2>1. CASE avisa[c]
    <3>1. puestos[c] + 1 \in Nat \ {0}
      BY DEF TypeInv, ClientesType
    <3>2. PICK e \in Eventos : e = Evento("ERROR", c, puestos[c] + 1)
      BY <3>1, Campos DEF Tipos
    <3>3. Publicar(e) /\ espera = <<>> /\ pcb'[c] = "liberada" /\ ~avisa'[c] /\ reinicio'[c]
      BY <1>4, <3>2, <2>1 DEF Reiniciar, TypeInv, ClientesType
    <3>4. puestos'[c] = puestos[c] + 1
      BY <3>1, <3>2, <3>3, Publicado DEF Tipos
    <3>6. e.c = c /\ e.n = puestos'[c] /\ e.n \in Nat \ {0} /\ e.tipo = "ERROR"
      BY <3>1, <3>2, <3>4, Campos DEF Tipos
    <3>5. Sano(e)'
      BY <3>3, <3>6 DEF Sano
    <3> QED  BY <1>0, <3>2, <3>3, <3>5, <3>6, PublicarSano
  <2>2. CASE ~avisa[c]
    BY <1>4, <1>q, <2>2 DEF Reiniciar, ColaSana
  <2> QED  BY <2>1, <2>2
<1>5. CASE Desbloquear
  <2>1. Head(espera) \in Esperables' /\ Tail(espera) \in Seq(Esperables')
    BY <1>5, <1>q, SinPrimero DEF Desbloquear
  <2>2. Head(espera) \in Sanos'
    BY <1>r, <2>1
  <2>3. Append(cola, Head(espera)) \in Seq(Sanos') /\ <<Head(espera)>> \o cola \in Seq(Sanos')
    BY <1>q, <2>2, AlFinal, AlFrente
  <2> QED  BY <1>5, <2>3 DEF Desbloquear, Poner, ColaSana
<1>6. CASE EjecutarApi \/ Escribir \/ CerrarCliente \/ Volver \/ LeerRanura \/ _error \/ Descartar
  BY <1>6, <1>q DEF EjecutarApi, Escribir, CerrarCliente, Volver, LeerRanura, _error, Descartar, Tarea,
                    ColaSana
<1>7. CASE Tomar
  BY <1>7, <1>q, SinPrimero DEF Tomar, Tarea, ColaSana
<1>8. CASE _close \/ _fin
  <2>1. Quien \in Clientes /\ tarea.en # "libre" /\ EnTarea(tarea) /\ RanurasType
    BY <1>8, QuienType DEF _close, _fin, TypeInv
  <2>2. PICK e \in Eventos : e = Evento("CLEAR", Quien, 0) /\ e.c = Quien /\ e.n = 0 /\ e.tipo = "CLEAR"
    BY <2>1, Campos DEF Tipos
  <2>3. pcb'[Quien] # "no"
    BY <1>0, <2>1 DEF TareaSana, Avanza
  <2>4. CASE cola' = cola
    BY <1>8, <1>q, <2>4 DEF _close, _fin, Tarea, ColaSana
  <2>5. CASE _close /\ puntero[Quien]
    <3>1. tarea' = Llamar("close") /\ cola' = <<e>> \o cola /\ espera' = espera
      BY <2>2, <2>5 DEF _close
    <3>2. tarea'.en = "leer" /\ tarea'.op = "close" /\ tarea'.ev.c = Quien
      BY <2>1, <3>1, LlamarType DEF Quien
    <3>3. ~avisa'[Quien]
      BY <2>1, <2>5 DEF _close, TypeInv, ClientesType
    <3>4. Sano(e)'
      BY <2>2, <2>3, <3>2, <3>3 DEF Sano, Cerrando, Quien
    <3> QED  BY <1>q, <3>1, <3>4, AlFrente DEF ColaSana, Sanos
  <2>6. CASE _fin
    <3>1. ~avisa[Quien] /\ ~puntero[Quien]
      BY <2>6 DEF _fin, TareaSana, Sanos, Sano, Quien
    <3>2. cola' = <<e>> \o cola /\ espera' = espera /\ ~avisa'[Quien] /\ ~puntero'[Quien]
      BY <2>2, <2>6, <3>1 DEF _fin, Tarea
    <3>3. Sano(e)'
      BY <2>2, <2>3, <3>2 DEF Sano
    <3> QED  BY <1>q, <3>2, <3>3, AlFrente DEF ColaSana, Sanos
  <2> QED  BY <1>8, <2>4, <2>5, <2>6 DEF _close
<1>9. CASE Buscar \/ Barrer
  <2>1. CASE cola = <<>>
    BY <1>9, <1>q, <2>1 DEF Buscar, Barrer, Tarea, ColaSana
  <2>2. CASE cola # <<>>
    BY <1>9, <1>q, <2>2, SinPrimero, Girado DEF Buscar, Barrer, Tarea, ColaSana
  <2> QED  BY <2>1, <2>2
<1>10. CASE UNCHANGED vars
  BY <1>10, <1>q DEF vars, ColaSana
<1> QED  BY <1>1, <1>2, <1>3, <1>4, <1>5, <1>6, <1>7, <1>8, <1>9, <1>10 DEF Next, PasoDeTarea

\* The task goes on with its event, or leaves it, or takes another one.
LEMMA TareaSigue ==
  ASSUME PcbInvs, \A c \in Clientes : Avanza(c), TypeInv', UNCHANGED tarea
  PROVE  TareaSana'
<1>1. Sanos \subseteq Sanos'
  BY SanosCrecen DEF PcbInvs
<1>2. tarea.en # "libre" => Quien \in Clientes
  BY QuienType DEF PcbInvs, TypeInv
<1>3. tarea.en # "libre" => pcb'[Quien] # "no"
  BY <1>2 DEF PcbInvs, TareaSana, Avanza
<1>4. tarea.en = "descartar" \/ (tarea.en \in {"leer", "api"} /\ tarea.op = "close") => ~avisa'[Quien]
  BY <1>2 DEF PcbInvs, TareaSana, Avanza
<1>5. tarea.en = "descartar" => ~puntero'[Quien]
  BY <1>2 DEF PcbInvs, TareaSana, Avanza
<1> QED  BY <1>1, <1>3, <1>4, <1>5 DEF PcbInvs, TareaSana, Quien

LEMMA TareaSanaStep ==
  ASSUME PcbInvs, [Next]_vars
  PROVE  TareaSana'
<1> USE DEF lwip, datos
<1>0. TypeInv' /\ \A c \in Clientes : Avanza(c)
  BY TypeStep, AvanzaStep DEF PcbInvs
<1>1. CASE UNCHANGED tarea
  BY <1>0, <1>1, TareaSigue
<1>2. CASE tarea'.en = "libre"
  BY <1>2 DEF TareaSana
<1>3. ASSUME tarea.en # "libre", tarea'.ev = tarea.ev, tarea'.en \notin {"libre", "fin", "error"},
             tarea'.en = "descartar" => ~avisa'[Quien] /\ ~puntero'[Quien],
             tarea'.en \in {"leer", "api"} /\ tarea'.op = "close" => ~avisa'[Quien]
      PROVE  TareaSana'
  <2>1. Quien \in Clientes /\ pcb'[Quien] # "no"
    BY <1>0, <1>3, QuienType DEF PcbInvs, TypeInv, TareaSana, Avanza
  <2> QED  BY <1>3, <2>1 DEF TareaSana, Quien
<1>4. CASE EjecutarApi
  <2>1. tarea.op \in {"write", "soltar", "close", "recved"} /\ Quien \in Clientes
    BY <1>4, QuienType DEF EjecutarApi, PcbInvs, TypeInv, EnTarea, Tareas
  <2>5. EnTarea(tarea) /\ tarea.en # "libre"
    BY <1>4 DEF EjecutarApi, PcbInvs, TypeInv
  <2>2. CASE tarea.op \in {"write", "soltar"}
    <3>1. tarea' \in {En("escrito"), En("cerrar")}
      BY <1>4, <2>2 DEF EjecutarApi
    <3>2. tarea'.en \in {"escrito", "cerrar"} /\ tarea'.ev = tarea.ev
      BY <2>5, <3>1, EnType DEF Pasos
    <3> QED  BY <1>3, <2>5, <3>2
  <2>3. CASE tarea.op = "close"
    <3>1. tarea' = En("descartar") /\ ~avisa'[Quien] /\ ~puntero'[Quien]
      BY <1>4, <2>1, <2>3 DEF EjecutarApi, PcbInvs, TareaSana, TypeInv, ClientesType
    <3>2. tarea'.en = "descartar" /\ tarea'.ev = tarea.ev
      BY <2>5, <3>1, EnType DEF Pasos
    <3> QED  BY <1>3, <2>5, <3>1, <3>2
  <2>4. CASE tarea.op = "recved"
    BY <1>2, <1>4, <2>4, LibreType DEF EjecutarApi
  <2> QED  BY <2>1, <2>2, <2>3, <2>4
<1>5. CASE Tomar
  <2>1. Head(cola) \in Sanos /\ Head(cola) \in Eventos
    BY <1>5, SinPrimero DEF Tomar, PcbInvs, ColaSana, Sanos
  <2>2. Head(cola) \in Sanos'
    BY <1>0, <2>1, SanosCrecen DEF PcbInvs
  <2>3. Head(cola).c \in Clientes /\ pcb'[Head(cola).c] # "no"
    BY <2>2 DEF Sanos, Sano, Eventos
  <2>4. CASE Head(cola).tipo = "ACCEPT"
    BY <1>2, <1>5, <2>4, LibreType DEF Tomar, Tarea
  <2>5. CASE Head(cola).tipo # "ACCEPT"
    <3>1. PICK p \in {"buscar", "fin", "error", "manejar"} :
            /\ tarea' = [Libre EXCEPT !.ev = Head(cola), !.en = p]
            /\ p = "fin" => Head(cola).tipo = "FIN"
            /\ p = "error" => Head(cola).tipo = "ERROR"
      BY <1>5, <2>5 DEF Tomar, Tarea
    <3>2. tarea'.en = p /\ tarea'.ev = Head(cola)
      BY <2>1, <3>1, TomadaType DEF Pasos
    <3> QED  BY <2>2, <2>3, <3>1, <3>2 DEF TareaSana, Quien
  <2> QED  BY <2>4, <2>5
<1>6. CASE Escribir \/ CerrarCliente \/ Volver
  <2>1. tarea' = Libre \/ \E o \in {"write", "soltar", "recved"} : tarea' = Llamar(o)
    BY <1>6 DEF Escribir, CerrarCliente, Volver, Tarea
  <2>2. tarea.en # "libre"
    BY <1>6 DEF Escribir, CerrarCliente, Volver
  <2> QED  BY <1>2, <1>3, <2>1, <2>2, LibreType, LlamarType DEF PcbInvs, TypeInv
<1>7. CASE _close
  <2>1. CASE puntero[Quien]
    <3>1. tarea' = Llamar("close") /\ ~avisa'[Quien] /\ tarea.en # "libre"
      BY <1>7, <2>1, QuienType DEF _close, PcbInvs, TypeInv, ClientesType
    <3> QED  BY <1>3, <3>1, LlamarType DEF PcbInvs, TypeInv
  <2>2. CASE ~puntero[Quien]
    BY <1>2, <1>7, <2>2, LibreType DEF _close
  <2> QED  BY <2>1, <2>2
<1>8. CASE _fin
  <2>1. tarea' = En("descartar") /\ tarea.en # "libre"
    BY <1>8 DEF _fin, Tarea
  <2>2. ~avisa'[Quien] /\ ~puntero'[Quien]
    BY <1>8 DEF _fin, Tarea, PcbInvs, TareaSana, Sanos, Sano, Quien
  <2> QED  BY <1>3, <2>1, <2>2, EnType DEF PcbInvs, TypeInv, Pasos
<1>9. CASE _error
  <2>1. tarea' = En("descartar") /\ tarea.en # "libre" /\ Quien \in Clientes
    BY <1>9, QuienType DEF _error, PcbInvs, TypeInv
  <2>2. ~avisa'[Quien] /\ ~puntero'[Quien]
    BY <1>9, <2>1 DEF _error, PcbInvs, TypeInv, ClientesType, TareaSana, Sanos, Sano, Quien
  <2> QED  BY <1>3, <2>1, <2>2, EnType DEF PcbInvs, TypeInv, Pasos
<1>10. CASE Descartar
  BY <1>2, <1>10, LibreType DEF Descartar, Tarea
<1>11. CASE Buscar \/ Barrer
  <2>1. CASE tarea' = Libre \/ tarea' = tarea
    BY <1>1, <1>2, <2>1, LibreType
  <2>2. CASE tarea' = [En("barrer") EXCEPT !.primero = Head(cola)] /\ cola # <<>> /\ tarea.en = "buscar"
    <3>1. Head(cola) \in Eventos
      BY <2>2, SinPrimero DEF PcbInvs, TypeInv, ColaType
    <3> QED  BY <1>3, <2>2, <3>1, BarrerType DEF PcbInvs, TypeInv
  <2> QED  BY <1>11, <2>1, <2>2 DEF Buscar, Barrer, Tarea
<1>12. CASE UNCHANGED vars
  BY <1>1, <1>12 DEF vars
<1>13. ASSUME NEW c \in Clientes, _accept(c) \/ Fin(c) \/ Reiniciar(c) PROVE TareaSana'
  BY <1>1, <1>13 DEF _accept, Fin, Reiniciar
<1>14. ASSUME NEW c \in Clientes, NEW t \in {"RECV", "SENT", "POLL"}, Avisar(c, t) PROVE TareaSana'
  BY <1>1, <1>14 DEF Avisar
<1>15. CASE Desbloquear
  BY <1>1, <1>15 DEF Desbloquear
<1>16. CASE LeerRanura
  <2>1. tarea'.en = "api" /\ tarea'.op = tarea.op /\ tarea'.ev = tarea.ev /\ tarea.en = "leer"
    BY <1>16, LeidaType DEF LeerRanura, PcbInvs, TypeInv
  <2>2. tarea'.op = "close" => ~avisa'[Quien]
    BY <1>16, <2>1 DEF LeerRanura, PcbInvs, TareaSana
  <2> QED  BY <1>3, <2>1, <2>2
<1> QED  BY <1>4, <1>5, <1>6, <1>7, <1>8, <1>9, <1>10, <1>11, <1>12, <1>13, <1>14, <1>15, <1>16
            DEF Next, PasoDeTarea

LEMMA PcbStep ==
  ASSUME PcbInvs, [Next]_vars
  PROVE  PcbInv'
<1> USE DEF PcbInvs, PcbInv, TypeInv, lwip, datos
<1>1. ASSUME NEW c \in Clientes, _accept(c) PROVE PcbInv'
  <2>1. \A d \in Clientes : puestos'[d] = IF d = c THEN 1 ELSE puestos[d]
    BY <1>1, Publicado DEF _accept, Tipos
  <2>2. \A d \in Clientes : d # c => ranura'[d] = ranura[d]
    BY <1>1 DEF _accept, RanurasType
  <2>3. \A d \in Clientes : desprotegida[d] => desprotegida'[d]
    BY <1>1 DEF _accept, ClientesType
  <2> QED  BY <1>1, <2>1, <2>2, <2>3 DEF _accept, ClientesType
<1>2. ASSUME NEW c \in Clientes, NEW t \in {"RECV", "SENT", "POLL"}, Avisar(c, t) PROVE PcbInv'
  <2>1. \A d \in Clientes : d # c => puestos'[d] = puestos[d]
    BY <1>2 DEF Avisar, Publicar, Evento, ClientesType
  <2> QED  BY <1>2, <2>1 DEF Avisar
<1>3. ASSUME NEW c \in Clientes, Fin(c) PROVE PcbInv'
  <2>1. \A d \in Clientes : d # c => puestos'[d] = puestos[d] /\ ranura'[d] = ranura[d]
    BY <1>3 DEF Fin, _lwip_fin, SoltarRanura, Publicar, Evento, ClientesType, RanurasType
  <2> QED  BY <1>3, <2>1 DEF Fin, _lwip_fin, ClientesType
<1>4. ASSUME NEW c \in Clientes, Reiniciar(c) PROVE PcbInv'
  <2>1. \A d \in Clientes : d # c => puestos'[d] = puestos[d]
    BY <1>4 DEF Reiniciar, Publicar, Evento, ClientesType
  <2> QED  BY <1>4, <2>1 DEF Reiniciar, ClientesType
<1>5. CASE Desbloquear
  BY <1>5 DEF Desbloquear
<1>6. CASE EjecutarApi
  <2>1. Quien \in Clientes /\ pcb[Quien] # "no"
    BY <1>6, QuienType DEF EjecutarApi, TareaSana
  <2>2. RanuraVale(tarea.ranura) /\ pcb[Quien] = "liberada" => reinicio[Quien] \/ desprotegida[Quien]
    BY <1>6 DEF EjecutarApi, ApiInv, RanuraVale
  <2>3. tarea.op = "close" => ~avisa[Quien]
    BY <1>6 DEF EjecutarApi, TareaSana
  <2> QED  BY <1>6, <2>1, <2>2, <2>3 DEF EjecutarApi, ClientesType
<1>7. CASE Tomar \/ _fin \/ Buscar \/ Barrer \/ Escribir \/ CerrarCliente \/ Volver
  BY <1>7 DEF Tomar, _fin, Buscar, Barrer, Escribir, CerrarCliente, Volver, Tarea
<1>8. CASE _close
  <2>1. Quien \in Clientes
    BY <1>8, QuienType DEF _close
  <2> QED  BY <1>8, <2>1 DEF _close, ClientesType
<1>9. CASE _error
  <2>1. Quien \in Clientes /\ pcb[Quien] # "no" /\ reinicio[Quien] /\ ~avisa[Quien]
    BY <1>9, QuienType DEF _error, TareaSana, Sanos, Sano, Quien
  <2> QED  BY <1>9, <2>1 DEF _error, ClientesType
<1>10. CASE Descartar
  <2>1. Quien \in Clientes /\ pcb[Quien] # "no"
    BY <1>10, QuienType DEF Descartar, TareaSana
  <2> QED  BY <1>10, <2>1 DEF Descartar, Tarea, SoltarRanura, ClientesType, RanurasType
<1>11. CASE UNCHANGED vars
  BY <1>11 DEF vars
<1>12. CASE LeerRanura
  <2>1. \A d \in Clientes : desprotegida[d] => desprotegida'[d]
    BY <1>12 DEF LeerRanura, ClientesType
  <2> QED  BY <1>12, <2>1 DEF LeerRanura
<1> QED  BY <1>1, <1>2, <1>3, <1>4, <1>5, <1>6, <1>7, <1>8, <1>9, <1>10, <1>11, <1>12
            DEF Next, PasoDeTarea

\* Giving a slot back keeps the slots of the others.
LEMMA SoltarRanurasInv ==
  ASSUME PcbInvs, NEW c \in Clientes, SoltarRanura(c), ~puntero'[c],
         \A d \in Clientes : /\ d # c => objeto'[d] = objeto[d]
                             /\ puntero'[d] => puntero[d]
                             /\ desprotegida[d] => desprotegida'[d]
  PROVE  /\ RanurasInv'
         /\ \A s \in S : cerradas[s] # 0 => cerradas'[s] # 0
         /\ ranura[c] # 0 => cerradas'[ranura[c]] # 0
<1> USE DEF PcbInvs, TypeInv, RanurasType, RanurasInv
<1>0. \A d \in Clientes : ranura[d] # 0 => ranura[d] \in S
  BY AsyncTcpAssumption DEF S
<1>1. CASE ranura[c] = 0
  BY <1>1 DEF SoltarRanura, S
<1>2. CASE ranura[c] # 0
  <2>1. \A d \in Clientes : ranura'[d] = IF d = c THEN 0 ELSE ranura[d]
    BY <1>2 DEF SoltarRanura
  <2>2. \A s \in S : cerradas'[s] = IF s = ranura[c] THEN indice ELSE cerradas[s]
    BY <1>2 DEF SoltarRanura
  <2>3. S' = S
    BY DEF S
  <2> QED  BY <1>0, <1>2, <2>1, <2>2, <2>3
<1> QED  BY <1>1, <1>2

LEMMA RanurasStep ==
  ASSUME PcbInvs, [Next]_vars
  PROVE  RanurasInv'
<1> USE DEF lwip, datos
<1>s. S' = S
  BY DEF S
<1>1. ASSUME NEW c \in Clientes, _accept(c) PROVE RanurasInv'
  <2>1. \A d \in Clientes : d # c => objeto'[d] = objeto[d] /\ puntero'[d] = puntero[d]
    BY <1>1 DEF _accept, PcbInvs, TypeInv, ClientesType
  <2>2. ranura[c] = 0 /\ objeto'[c] = "vivo"
    BY <1>1 DEF _accept, PcbInvs, PcbInv, TypeInv, ClientesType
  <2>3. CASE UNCHANGED <<ranura, cerradas>> /\ desprotegida' = [desprotegida EXCEPT ![c] = TRUE]
    BY <1>s, <2>1, <2>2, <2>3 DEF PcbInvs, TypeInv, ClientesType, RanurasInv
  <2>4. ASSUME NEW s \in S, MasAntigua(s), ranura' = [ranura EXCEPT ![c] = s],
               cerradas' = [cerradas EXCEPT ![s] = 0],
               \A d \in Clientes : desprotegida[d] => desprotegida'[d]
        PROVE  RanurasInv'
    <3>1. \A d \in Clientes : ranura'[d] = IF d = c THEN s ELSE ranura[d]
      BY <2>4 DEF PcbInvs, TypeInv, RanurasType
    <3>2. \A t \in S : cerradas'[t] = IF t = s THEN 0 ELSE cerradas[t]
      BY <2>4 DEF PcbInvs, TypeInv, RanurasType
    <3>3. cerradas[s] # 0 /\ s # 0
      BY <2>4 DEF MasAntigua, S
    <3>4. \A d \in Clientes : ranura[d] # 0 => ranura[d] \in S
      BY AsyncTcpAssumption DEF S, PcbInvs, TypeInv, RanurasType
    <3>5. \A d \in Clientes : ranura[d] # s
      BY <3>3 DEF PcbInvs, RanurasInv
    <3>6. ASSUME NEW d \in Clientes
          PROVE  /\ ranura'[d] # 0 => objeto'[d] = "vivo" /\ cerradas'[ranura'[d]] = 0
                 /\ puntero'[d] => ranura'[d] # 0 \/ desprotegida'[d]
      <4>1. CASE d = c
        BY <2>2, <2>4, <3>1, <3>2, <3>3, <4>1
      <4>2. CASE d # c
        BY <2>1, <2>4, <3>1, <3>2, <3>4, <3>5, <4>2 DEF PcbInvs, RanurasInv
      <4> QED  BY <4>1, <4>2
    <3>7. ASSUME NEW d \in Clientes, NEW x \in Clientes, ranura'[d] = ranura'[x], ranura'[d] # 0
          PROVE  d = x
      BY <3>1, <3>5, <3>7 DEF PcbInvs, RanurasInv
    <3>8. ASSUME NEW t \in S, cerradas'[t] = 0 PROVE \E d \in Clientes : ranura'[d] = t
      <4>1. CASE t = s
        BY <3>1, <4>1
      <4>2. CASE t # s
        <5>1. PICK d \in Clientes : ranura[d] = t
          BY <3>2, <3>8, <4>2 DEF PcbInvs, RanurasInv
        <5>2. d # c
          BY <2>2, <5>1 DEF S
        <5> QED  BY <3>1, <5>1, <5>2
      <4> QED  BY <4>1, <4>2
    <3> QED  BY <1>s, <3>6, <3>7, <3>8 DEF RanurasInv
  <2>5. \A d \in Clientes : desprotegida[d] => desprotegida'[d]
    BY <1>1 DEF _accept, PcbInvs, TypeInv, ClientesType
  <2> QED  BY <1>1, <2>3, <2>4, <2>5 DEF _accept
<1>2. ASSUME NEW c \in Clientes, Fin(c) PROVE RanurasInv'
  <2>1. ~puntero'[c] /\ \A d \in Clientes : puntero'[d] => puntero[d]
    BY <1>2 DEF Fin, _lwip_fin, PcbInvs, TypeInv, ClientesType
  <2> QED  BY <1>2, <2>1, SoltarRanurasInv DEF Fin, _lwip_fin
<1>3. CASE EjecutarApi \/ _error
  <2>1. Quien \in Clientes
    BY <1>3, QuienType DEF EjecutarApi, _error, PcbInvs, TypeInv
  <2>2. \A d \in Clientes : puntero'[d] => puntero[d]
    BY <1>3, <2>1 DEF EjecutarApi, _error, PcbInvs, TypeInv, ClientesType
  <2> QED  BY <1>s, <1>3, <2>2 DEF EjecutarApi, _error, PcbInvs, RanurasInv
<1>4. CASE Descartar
  <2>1. Quien \in Clientes /\ ~puntero[Quien]
    BY <1>4, QuienType DEF Descartar, PcbInvs, TypeInv, TareaSana
  <2>2. CASE registrado[Quien]
    <3>1. \A d \in Clientes : d # Quien => objeto'[d] = objeto[d]
      BY <1>4, <2>2 DEF Descartar, PcbInvs, TypeInv, ClientesType
    <3> QED  BY <1>4, <2>1, <2>2, <3>1, SoltarRanurasInv DEF Descartar, Tarea
  <2>3. CASE ~registrado[Quien]
    BY <1>s, <1>4, <2>3 DEF Descartar, Tarea, PcbInvs, RanurasInv
  <2> QED  BY <2>2, <2>3
<1>5. CASE UNCHANGED <<ranura, objeto, cerradas, puntero, desprotegida>>
  BY <1>s, <1>5 DEF PcbInvs, RanurasInv
<1>6. ASSUME NEW c \in Clientes, NEW t \in {"RECV", "SENT", "POLL"}, Avisar(c, t) PROVE RanurasInv'
  BY <1>5, <1>6 DEF Avisar
<1>7. ASSUME NEW c \in Clientes, Reiniciar(c) PROVE RanurasInv'
  BY <1>5, <1>7 DEF Reiniciar
<1>8. CASE Desbloquear \/ UNCHANGED vars
  BY <1>5, <1>8 DEF Desbloquear, vars
<1>9. CASE \/ Tomar \/ _fin \/ Buscar \/ Barrer \/ Escribir \/ CerrarCliente \/ Volver \/ _close
  BY <1>5, <1>9 DEF Tomar, _fin, Buscar, Barrer, Escribir, CerrarCliente, Volver, _close, Tarea
<1>10. CASE LeerRanura
  <2>1. \A d \in Clientes : desprotegida[d] => desprotegida'[d]
    BY <1>10 DEF LeerRanura, PcbInvs, TypeInv, ClientesType
  <2> QED  BY <1>s, <1>10, <2>1 DEF LeerRanura, PcbInvs, RanurasInv
<1> QED  BY <1>1, <1>2, <1>3, <1>4, <1>6, <1>7, <1>8, <1>9, <1>10 DEF Next, PasoDeTarea

LEMMA ApiStep ==
  ASSUME PcbInvs, [Next]_vars
  PROVE  ApiInv'
<1> USE DEF lwip, datos
<1>1. CASE tarea'.en \notin {"leer", "api"}
  BY <1>1 DEF ApiInv
<1>2. ASSUME tarea.en # "libre", NEW o \in {"write", "soltar", "close", "recved"}, tarea' = Llamar(o),
             puntero[Quien], UNCHANGED puntero
      PROVE  ApiInv'
  <2>1. tarea'.ev = tarea.ev /\ tarea'.en = "leer"
    BY <1>2, LlamarType DEF PcbInvs, TypeInv
  <2> QED  BY <1>2, <2>1 DEF ApiInv, Quien
<1>3. CASE UNCHANGED <<tarea, pcb, puntero, ranura, reinicio, cerradas, desprotegida>>
  BY <1>3 DEF PcbInvs, ApiInv, Quien
<1>4. ASSUME tarea.en \in {"leer", "api"}, UNCHANGED tarea, NEW c \in Clientes, _accept(c) PROVE ApiInv'
  <2>1. Quien \in Clientes /\ pcb[Quien] # "no" /\ pcb[c] = "no" /\ Quien' = Quien
    BY <1>4, QuienType DEF PcbInvs, TypeInv, TareaSana, Quien, _accept
  <2>2. pcb'[Quien] = pcb[Quien] /\ puntero'[Quien] = puntero[Quien] /\ reinicio'[Quien] = reinicio[Quien]
    BY <1>4, <2>1 DEF _accept, PcbInvs, TypeInv, ClientesType
  <2>3. ranura'[Quien] = ranura[Quien] /\ (desprotegida[Quien] => desprotegida'[Quien])
    BY <1>4, <2>1 DEF _accept, PcbInvs, TypeInv, ClientesType, RanurasType
  <2>4. tarea.en = "api" /\ tarea.ranura # 0 /\ cerradas[tarea.ranura] # 0 =>
          cerradas'[tarea.ranura] # 0 \/ desprotegida'[Quien]
    <3>1. tarea.ranura \in 0..Ranuras
      BY DEF PcbInvs, TypeInv, EnTarea, Tareas
    <3>2. tarea.ranura # 0 => tarea.ranura \in S
      BY <3>1, AsyncTcpAssumption DEF S
    <3>3. CASE UNCHANGED cerradas
      BY <3>3
    <3>4. ASSUME NEW s \in S, cerradas' = [cerradas EXCEPT ![s] = 0],
                 desprotegida' = [x \in Clientes |->
                   desprotegida[x] \/ (tarea.en = "api" /\ x = Quien /\ tarea.ranura = s)]
          PROVE  tarea.en = "api" /\ tarea.ranura # 0 /\ cerradas[tarea.ranura] # 0 =>
                   cerradas'[tarea.ranura] # 0 \/ desprotegida'[Quien]
      BY <1>4, <2>1, <3>2, <3>4 DEF PcbInvs, TypeInv, RanurasType
    <3> QED  BY <1>4, <3>3, <3>4 DEF _accept
  <2> QED  BY <1>4, <2>1, <2>2, <2>3, <2>4 DEF PcbInvs, ApiInv
<1>5. ASSUME tarea.en \in {"leer", "api"}, UNCHANGED tarea, NEW c \in Clientes, Fin(c) PROVE ApiInv'
  <2>1. Quien \in Clientes /\ Quien' = Quien /\ tarea.ranura \in 0..Ranuras
    BY <1>5, QuienType DEF PcbInvs, TypeInv, EnTarea, Tareas, Quien
  <2>2. ~puntero'[c] /\ \A d \in Clientes : puntero'[d] => puntero[d]
    BY <1>5 DEF Fin, _lwip_fin, PcbInvs, TypeInv, ClientesType
  <2>3. /\ \A s \in S : cerradas[s] # 0 => cerradas'[s] # 0
        /\ ranura[c] # 0 => cerradas'[ranura[c]] # 0
    BY <1>5, <2>2, SoltarRanurasInv DEF Fin, _lwip_fin
  <2>4. tarea.ranura # 0 => tarea.ranura \in S
    BY <2>1, AsyncTcpAssumption DEF S
  <2>5. CASE c # Quien
    <3>1. pcb'[Quien] = pcb[Quien] /\ puntero'[Quien] = puntero[Quien] /\ ranura'[Quien] = ranura[Quien]
      BY <1>5, <2>1, <2>5 DEF Fin, _lwip_fin, SoltarRanura, PcbInvs, TypeInv, ClientesType, RanurasType
    <3> QED  BY <1>5, <2>1, <2>3, <2>4, <3>1 DEF Fin, PcbInvs, ApiInv
  <2>7. CASE c = Quien /\ tarea.en = "leer"
    <3>1. ranura'[Quien] = 0
      BY <1>5, <2>1, <2>7 DEF Fin, _lwip_fin, SoltarRanura, PcbInvs, TypeInv, RanurasType
    <3> QED  BY <1>5, <2>1, <2>7, <3>1 DEF ApiInv
  <2>6. CASE c = Quien /\ tarea.en = "api"
    <3>1. puntero[Quien]
      BY <1>5, <2>6 DEF Fin, PcbInvs, PcbInv
    <3>2. tarea.ranura = ranura[Quien] /\ (ranura[Quien] # 0 \/ desprotegida[Quien])
      BY <1>5, <2>1, <2>6, <3>1 DEF PcbInvs, ApiInv, RanurasInv
    <3> QED  BY <1>5, <2>1, <2>2, <2>3, <2>6, <3>2 DEF Fin, ApiInv
  <2> QED  BY <1>5, <2>5, <2>6, <2>7
<1>6. ASSUME tarea.en \in {"leer", "api"}, NEW c \in Clientes, Reiniciar(c) PROVE ApiInv'
  <2>1. Quien \in Clientes /\ Quien' = Quien
    BY <1>6, QuienType DEF PcbInvs, TypeInv, Quien, Reiniciar
  <2>2. pcb'[Quien] = "liberada" => pcb[Quien] = "liberada" \/ reinicio'[Quien]
    BY <1>6, <2>1 DEF Reiniciar, PcbInvs, TypeInv, ClientesType
  <2>3. reinicio[Quien] => reinicio'[Quien]
    BY <1>6, <2>1 DEF Reiniciar, PcbInvs, TypeInv, ClientesType
  <2> QED  BY <1>6, <2>1, <2>2, <2>3 DEF Reiniciar, PcbInvs, ApiInv
<1>7. ASSUME NEW c \in Clientes, _accept(c) \/ Fin(c) \/ Reiniciar(c) PROVE ApiInv'
  BY <1>1, <1>4, <1>5, <1>6, <1>7 DEF _accept, Fin, Reiniciar
<1>8. ASSUME NEW c \in Clientes, NEW t \in {"RECV", "SENT", "POLL"}, Avisar(c, t) PROVE ApiInv'
  BY <1>3, <1>8 DEF Avisar
<1>9. CASE Desbloquear \/ UNCHANGED vars
  BY <1>3, <1>9 DEF Desbloquear, vars
<1>10. CASE EjecutarApi
  <2>1. tarea.op \in {"write", "soltar", "close", "recved"} /\ EnTarea(tarea) /\ tarea.en # "libre"
    BY <1>10 DEF EjecutarApi, PcbInvs, TypeInv, EnTarea, Tareas
  <2>2. tarea' \in {En("escrito"), En("cerrar"), En("descartar"), Libre}
    BY <1>10, <2>1 DEF EjecutarApi
  <2> QED  BY <1>1, <2>1, <2>2, EnType, LibreType DEF Pasos
<1>11. CASE Tomar
  <2>1. Head(cola) \in Eventos
    BY <1>11, SinPrimero DEF Tomar, PcbInvs, TypeInv, ColaType
  <2>2. \/ tarea' = Libre
        \/ \E p \in {"buscar", "fin", "error", "manejar"} :
             tarea' = [Libre EXCEPT !.ev = Head(cola), !.en = p]
    BY <1>11 DEF Tomar, Tarea
  <2> QED  BY <1>1, <2>1, <2>2, LibreType, TomadaType DEF Pasos
<1>12. CASE Escribir \/ CerrarCliente \/ Volver \/ _close
  <2>1. tarea' = Libre \/ (puntero[Quien] /\ \E o \in {"write", "soltar", "close", "recved"} : tarea' = Llamar(o))
    BY <1>12 DEF Escribir, CerrarCliente, Volver, _close, Tarea
  <2>2. tarea.en # "libre" /\ UNCHANGED puntero
    BY <1>12 DEF Escribir, CerrarCliente, Volver, _close, Tarea
  <2> QED  BY <1>1, <1>2, <2>1, <2>2, LibreType
<1>13. CASE _fin \/ _error \/ Descartar
  <2>1. tarea' = En("descartar") \/ tarea' = Libre
    BY <1>13 DEF _fin, _error, Descartar, Tarea
  <2>2. tarea.en # "libre" /\ EnTarea(tarea)
    BY <1>13 DEF _fin, _error, Descartar, PcbInvs, TypeInv
  <2> QED  BY <1>1, <2>1, <2>2, EnType, LibreType DEF Pasos
<1>14. CASE Buscar \/ Barrer
  <2>1. CASE tarea' = Libre \/ tarea' = tarea
    BY <1>1, <1>14, <2>1, LibreType DEF Buscar, Barrer
  <2>2. CASE tarea' = [En("barrer") EXCEPT !.primero = Head(cola)] /\ cola # <<>> /\ tarea.en = "buscar"
    <3>1. Head(cola) \in Eventos
      BY <2>2, SinPrimero DEF PcbInvs, TypeInv, ColaType
    <3> QED  BY <1>1, <2>2, <3>1, BarrerType DEF PcbInvs, TypeInv
  <2> QED  BY <1>14, <2>1, <2>2 DEF Buscar, Barrer, Tarea
<1>15. CASE LeerRanura
  <2>1. /\ tarea'.ev = tarea.ev /\ tarea'.en = "api" /\ tarea'.ranura = ranura[Quien]
        /\ Quien \in Clientes /\ tarea.en = "leer"
    BY <1>15, LeidaType DEF LeerRanura, PcbInvs, TypeInv
  <2>2. ranura[Quien] = 0 => desprotegida'[Quien]
    BY <1>15, <2>1 DEF LeerRanura, PcbInvs, TypeInv, ClientesType
  <2>3. ranura[Quien] # 0 /\ pcb[Quien] = "liberada" => reinicio[Quien]
    BY <2>1 DEF PcbInvs, PcbInv, ApiInv
  <2> QED  BY <1>15, <2>1, <2>2, <2>3 DEF LeerRanura, ApiInv, Quien
<1> QED  BY <1>7, <1>8, <1>9, <1>10, <1>11, <1>12, <1>13, <1>14, <1>15 DEF Next, PasoDeTarea

LEMMA PcbInvsStep == PcbInvs /\ [Next]_vars => PcbInvs'
BY TypeStep, ColaSanaStep, TareaSanaStep, PcbStep, RanurasStep, ApiStep DEF PcbInvs

LEMMA PcbInvsInit == Init => PcbInvs
<1> SUFFICES ASSUME Init PROVE PcbInvs
  OBVIOUS
<1>1. TypeInv
  <2>1. ClientesType
    BY DEF Init, ClientesType
  <2>2. RanurasType
    BY AsyncTcpAssumption DEF Init, RanurasType
  <2>3. ColaType
    <3>1. <<>> \in Seq(Eventos) /\ Len(<<>>) <= ColaMax /\ Len(<<>>) <= 1
      BY AsyncTcpAssumption
    <3>2. cola = <<>> /\ espera = <<>> /\ desorden = FALSE
      BY DEF Init
    <3> QED  BY <3>1, <3>2, Zenon DEF ColaType
  <2> QED  BY <2>1, <2>2, <2>3, LibreType DEF Init, TypeInv
<1>2. tarea.en = "libre"
  BY LibreType DEF Init
<1>3. \A s \in S : cerradas[s] = 1
  BY DEF Init
<1> QED  BY <1>1, <1>2, <1>3 DEF Init, PcbInvs, ColaSana, TareaSana, PcbInv, RanurasInv, ApiInv

LEMMA PcbInvsSiempre == Spec => []PcbInvs
BY PcbInvsInit, PcbInvsStep, PTL DEF Spec

\* lwIP is not called with the pcb of a connection that the peer ended, and the
\* table of slots is the table of the clients that hold them.
THEOREM PcbVivoCorrect == Spec => []PcbVivo
<1>1. ASSUME PcbInvs PROVE PcbVivo
  <2>1. \A c \in Clientes : usoLibre[c] => reinicio[c] \/ desprotegida[c]
    BY <1>1 DEF PcbInvs, PcbInv
  <2>2. ASSUME NEW s \in S
        PROVE  LET duenos == {c \in Clientes : objeto[c] = "vivo" /\ ranura[c] = s}
               IN  Cardinality(duenos) = (IF cerradas[s] = 0 THEN 1 ELSE 0)
    <3> DEFINE duenos == {c \in Clientes : objeto[c] = "vivo" /\ ranura[c] = s}
    <3>1. s # 0
      BY DEF S
    <3>2. CASE cerradas[s] = 0
      <4>1. PICK c \in Clientes : ranura[c] = s
        BY <1>1, <3>2 DEF PcbInvs, RanurasInv
      <4>2. duenos = {c}
        BY <1>1, <3>1, <4>1 DEF PcbInvs, RanurasInv
      <4> QED  BY <3>2, <4>2, FS_Singleton
    <3>3. CASE cerradas[s] # 0
      <4>1. duenos = {}
        BY <1>1, <3>1, <3>3 DEF PcbInvs, RanurasInv
      <4> QED  BY <3>3, <4>1, FS_EmptySet
    <3> QED  BY <3>2, <3>3
  <2> QED  BY <2>1, <2>2 DEF PcbVivo, RanurasCuadran
<1> QED  BY <1>1, PcbInvsSiempre, PTL

-----------------------------------------------------------------------------
(* The queue while nothing is posted in the middle of a sweep.  From k on are  *)
(* the events that the sweep has sent to the back, before k those that it has  *)
(* still to look at, which come after them.                                    *)
Corte(k) == IF EnBarrido THEN k \in 1..Len(cola) /\ cola[k] = tarea.primero ELSE k = 1
Antes(k, i, j) == (i >= k /\ j < k) \/ (i < j /\ (i < k => j < k))

Simple(e) == e.tipo \notin {"ACCEPT", "CLEAR"}

\* No event is there twice.
Distintas == \A i, j \in 1..Len(cola) : cola[i] = cola[j] => i = j

\* The events of a client are in the order in which they were posted, and newer
\* than what was handled.
Crecientes(k) ==
  \A i, j \in 1..Len(cola) :
    cola[i].c = cola[j].c /\ cola[i].tipo # "CLEAR" /\ cola[j].tipo # "CLEAR" /\ Antes(k, i, j)
      => cola[i].n < cola[j].n
Pendientes ==
  /\ \A c \in Clientes : visto[c] <= puestos[c]
  /\ \A i \in 1..Len(cola) : cola[i].tipo # "CLEAR" => cola[i].n > visto[cola[i].c]
  /\ \A l \in 1..Len(espera) :
       /\ espera[l].n > visto[espera[l].c]
       /\ \A i \in 1..Len(cola) :
            cola[i].c = espera[l].c /\ cola[i].tipo # "CLEAR" => cola[i].n < espera[l].n

\* The end of a connection is the last event of its client, which _close() has not
\* swept then.
Finales ==
  /\ tarea.en \in {"fin", "error"} => visto[Quien] = puestos[Quien]
  /\ \A j \in 1..Len(cola) : cola[j].tipo = "CLEAR" =>
       /\ \A i \in 1..Len(cola) : cola[i].tipo = "FIN" => cola[i].c # cola[j].c
       /\ \A l \in 1..Len(espera) : espera[l].tipo = "FIN" => espera[l].c # cola[j].c
       /\ tarea.en = "fin" => cola[j].c # Quien

\* The client is deleted or about to be, and takes no more events; what the queue
\* still holds of it is going to be swept before it is handled.
SeVa(c) == objeto[c] = "borrado" \/ (tarea.en = "descartar" /\ Quien = c)
Sordos ==
  \A c \in Clientes : SeVa(c) =>
    ~avisa[c] /\ \A l \in 1..Len(espera) : espera[l].c = c => ~Simple(espera[l])
Barrida(k, c, i) ==
  \/ \E j \in 1..Len(cola) : cola[j].tipo = "CLEAR" /\ cola[j].c = c /\ Antes(k, j, i)
  \/ tarea.en = "buscar" /\ Quien = c
  \/ EnBarrido /\ Quien = c /\ i < k
Barridas(k) ==
  \A i \in 1..Len(cola) :
    Simple(cola[i]) /\ (SeVa(cola[i].c) \/ Cerrando(cola[i].c)) => Barrida(k, cola[i].c, i)

CierreBarre ==
  \A c \in Clientes : Cerrando(c) => \E j \in 1..Len(cola) : cola[j].tipo = "CLEAR" /\ cola[j].c = c

EnOrden(k) ==
  Corte(k) /\ CierreBarre /\ Distintas /\ Crecientes(k) /\ Pendientes /\ Finales /\ Sordos /\ Barridas(k)
ColaInv == ~desorden => \E k \in Nat : EnOrden(k)

ColaInvs == PcbInvs /\ ColaInv

LEMMA DeLaCola ==
  ASSUME PcbInvs, NEW i \in 1..Len(cola)
  PROVE  /\ cola[i] \in Eventos /\ cola[i].c \in Clientes /\ cola[i].n \in Nat /\ Sano(cola[i])
         /\ puestos[cola[i].c] \in Nat /\ visto[cola[i].c] \in Nat
<1>1. cola[i] \in Sanos /\ cola[i] \in Eventos
  BY DEF PcbInvs, ColaSana, TypeInv, ColaType
<1> QED  BY <1>1 DEF Sanos, Eventos, PcbInvs, TypeInv, ClientesType

LEMMA DeLaEspera ==
  ASSUME PcbInvs, NEW l \in 1..Len(espera)
  PROVE  /\ espera[l] \in Eventos /\ espera[l].c \in Clientes /\ espera[l].n \in Nat
         /\ Sano(espera[l]) /\ espera[l].tipo # "CLEAR"
         /\ puestos[espera[l].c] \in Nat /\ visto[espera[l].c] \in Nat
<1>1. espera[l] \in Esperables /\ espera[l] \in Eventos
  BY DEF PcbInvs, ColaSana, TypeInv, ColaType
<1> QED  BY <1>1 DEF Sanos, Esperables, Eventos, PcbInvs, TypeInv, ClientesType

LEMMA Tamano == PcbInvs => Len(cola) \in Nat /\ Len(espera) \in Nat /\ cola \in Seq(Eventos)
BY DEF PcbInvs, TypeInv, ColaType

LEMMA Visto ==
  ASSUME PcbInvs, \A c \in Clientes : Avanza(c), UNCHANGED visto, TypeInv', Pendientes
  PROVE  \A c \in Clientes : visto'[c] <= puestos'[c]
BY DEF PcbInvs, TypeInv, ClientesType, Avanza, Pendientes

\* A client that is gone, or is being closed, stays deaf.
LEMMA SeVaSorda ==
  ASSUME PcbInvs, Sordos, NEW c \in Clientes, SeVa(c) \/ Cerrando(c)
  PROVE  ~avisa[c]
BY DEF PcbInvs, TareaSana, Sordos, Cerrando

\* A step of the task that leaves the queue alone.
LEMMA OrdenQuieto ==
  ASSUME PcbInvs, PcbInvs', ~EnBarrido, ~EnBarrido', tarea.en # "buscar", NEW k \in Nat, EnOrden(k),
         UNCHANGED <<cola, espera, visto, puestos>>, tarea'.en \notin {"fin", "error"},
         \A c \in Clientes : ~Cerrando(c)',
         \A c \in Clientes : SeVa(c)' =>
           ~avisa'[c] /\ \A l \in 1..Len(espera) : espera[l].c = c => ~Simple(espera[l]),
         \A i \in 1..Len(cola) : Simple(cola[i]) /\ SeVa(cola[i].c)'
           => SeVa(cola[i].c) \/ Cerrando(cola[i].c)
  PROVE  EnOrden(k)'
<1>1. Corte(k)' /\ k = 1 /\ CierreBarre'
  BY DEF EnOrden, Corte, CierreBarre
<1>2. Distintas' /\ Crecientes(k)'
  BY DEF EnOrden, Distintas, Crecientes
<1>3. Pendientes'
  BY DEF EnOrden, Pendientes
<1>4. Finales'
  BY DEF EnOrden, Finales
<1>5. Sordos'
  BY DEF Sordos
<1>6. Barridas(k)'
  <2> SUFFICES ASSUME NEW i \in 1..Len(cola), Simple(cola[i]), SeVa(cola[i].c)'
               PROVE  Barrida(k, cola[i].c, i)'
    BY DeLaCola DEF Barridas
  <2>1. Barrida(k, cola[i].c, i)
    BY DEF EnOrden, Barridas
  <2> QED  BY <2>1 DEF Barrida
<1> QED  BY <1>1, <1>2, <1>3, <1>4, <1>5, <1>6 DEF EnOrden

\* An event that goes to the back, the newest of its client.
LEMMA OrdenAlFinal ==
  ASSUME PcbInvs, PcbInvs', NEW k \in Nat, EnOrden(k), ~EnBarrido, \A c \in Clientes : Avanza(c),
         NEW e \in Eventos, cola' = Append(cola, e), Simple(e), espera' = <<>>, ~SeVa(e.c),
         e.n > visto[e.c],
         \A i \in 1..Len(cola) : cola[i].c = e.c /\ cola[i].tipo # "CLEAR" => cola[i].n < e.n,
         e.tipo = "FIN" => /\ tarea.en # "fin" \/ Quien # e.c
                           /\ \A j \in 1..Len(cola) : cola[j].tipo = "CLEAR" => cola[j].c # e.c,
         UNCHANGED <<tarea, visto, objeto>>
  PROVE  EnOrden(k)'
<1>0. /\ cola \in Seq(Eventos) /\ Len(cola) \in Nat /\ Len(cola') = Len(cola) + 1
      /\ \A i \in 1..Len(cola) : cola'[i] = cola[i]
      /\ cola'[Len(cola) + 1] = e /\ Len(espera') = 0
  BY Tamano, AlFinal
<1>1. Corte(k)' /\ k = 1
  BY DEF EnOrden, Corte, EnBarrido
<1>2. CierreBarre'
  BY <1>0 DEF EnOrden, CierreBarre, Cerrando, Quien
<1>3. Distintas'
  <2>1. \A i \in 1..Len(cola) : cola[i] # e
    BY DeLaCola DEF Simple
  <2> QED  BY <1>0, <2>1 DEF EnOrden, Distintas
<1>4. Crecientes(k)'
  BY <1>0, <1>1 DEF EnOrden, Crecientes, Antes
<1>5. Pendientes'
  <2>1. \A c \in Clientes : visto'[c] <= puestos'[c]
    BY Visto DEF EnOrden, PcbInvs
  <2>2. ASSUME NEW i \in 1..Len(cola'), cola'[i].tipo # "CLEAR" PROVE cola'[i].n > visto[cola'[i].c]
    <3>1. CASE i \in 1..Len(cola)
      BY <1>0, <2>2, <3>1 DEF EnOrden, Pendientes
    <3>2. CASE i = Len(cola) + 1
      BY <1>0, <3>2
    <3> QED  BY <1>0, <3>1, <3>2
  <2> QED  BY <1>0, <2>1, <2>2 DEF Pendientes
<1>6. Finales'
  <2>1. tarea.en \in {"fin", "error"} => puestos'[Quien] = puestos[Quien]
    BY QuienType DEF PcbInvs, TypeInv, TareaSana, Sanos, Sano, Quien, Avanza
  <2> QED  BY <1>0, <2>1 DEF EnOrden, Finales, Quien, Simple
<1>7. Sordos'
  <2> SUFFICES ASSUME NEW c \in Clientes, SeVa(c)'
               PROVE  ~avisa'[c] /\ \A l \in 1..Len(espera') : espera'[l].c = c => ~Simple(espera'[l])
    BY DEF Sordos
  <2>1. SeVa(c)
    BY DEF SeVa, Quien
  <2>2. ~avisa[c] /\ pcb[c] # "no"
    BY <2>1 DEF EnOrden, Sordos, SeVa, PcbInvs, PcbInv, TareaSana
  <2>3. ~avisa'[c]
    BY <2>2 DEF Avanza
  <2> QED  BY <1>0, <2>1, <2>3
<1>8. Barridas(k)'
  <2>1. ASSUME NEW i \in 1..Len(cola), Simple(cola[i]), SeVa(cola[i].c)' \/ Cerrando(cola[i].c)',
               cola'[i] = cola[i]
        PROVE  Barrida(k, cola[i].c, i)'
    <3>1. SeVa(cola[i].c) \/ Cerrando(cola[i].c)
      BY <2>1, DeLaCola DEF SeVa, Cerrando, Quien
    <3>2. Barrida(k, cola[i].c, i)
      BY <2>1, <3>1 DEF EnOrden, Barridas
    <3>3. CASE \E j \in 1..Len(cola) : cola[j].tipo = "CLEAR" /\ cola[j].c = cola[i].c /\ Antes(k, j, i)
      BY <1>0, <2>1, <3>3 DEF Barrida
    <3>4. CASE tarea.en = "buscar" /\ Quien = cola[i].c
      BY <2>1, <3>4 DEF Barrida, Quien
    <3> QED  BY <3>2, <3>3, <3>4 DEF Barrida
  <2>2. ASSUME NEW n \in Nat, n = Len(cola) + 1, SeVa(e.c)' \/ Cerrando(e.c)'
        PROVE  Barrida(k, e.c, n)'
    <3>2. Cerrando(e.c)
      BY <2>2 DEF SeVa, Cerrando, Quien
    <3>1. PICK j \in 1..Len(cola) : cola[j].tipo = "CLEAR" /\ cola[j].c = e.c
      BY <3>2 DEF EnOrden, CierreBarre, Eventos
    <3> QED  BY <1>0, <1>1, <2>2, <3>1 DEF Barrida, Antes
  <2>3. ASSUME NEW i \in 1..Len(cola'), (Simple(cola[i]) /\ (SeVa(cola[i].c) \/ Cerrando(cola[i].c)))'
        PROVE  Barrida(k, cola[i].c, i)'
    <3>1. CASE i \in 1..Len(cola)
      <4>1. cola'[i] = cola[i]
        BY <1>0, <3>1
      <4>2. Simple(cola[i]) /\ (SeVa(cola[i].c)' \/ Cerrando(cola[i].c)')
        BY <2>3, <4>1
      <4> QED  BY <2>1, <3>1, <4>1, <4>2
    <3>2. CASE i = Len(cola) + 1
      <4>1. cola'[i] = e
        BY <1>0, <3>2
      <4>2. SeVa(e.c)' \/ Cerrando(e.c)'
        BY <2>3, <4>1 DEF SeVa, Cerrando
      <4> QED  BY <2>2, <3>2, <4>1, <4>2 DEF Barrida
    <3> QED  BY <1>0, <3>1, <3>2
  <2> QED  BY <2>3 DEF Barridas
<1> QED  BY <1>1, <1>2, <1>3, <1>4, <1>5, <1>6, <1>7, <1>8 DEF EnOrden

\* An event that waits for room.
LEMMA OrdenEspera ==
  ASSUME PcbInvs, PcbInvs', NEW k \in Nat, EnOrden(k), \A c \in Clientes : Avanza(c),
         NEW e \in Eventos, UNCHANGED cola, espera' = <<e>>, e.tipo # "CLEAR",
         Simple(e) => ~SeVa(e.c), e.n > visto[e.c],
         \A i \in 1..Len(cola) : cola[i].c = e.c /\ cola[i].tipo # "CLEAR" => cola[i].n < e.n,
         e.tipo = "FIN" => \A j \in 1..Len(cola) : cola[j].tipo = "CLEAR" => cola[j].c # e.c,
         UNCHANGED <<tarea, visto>>, \A c \in Clientes : objeto'[c] = "borrado" => objeto[c] = "borrado"
  PROVE  EnOrden(k)'
<1>0. Len(espera') = 1 /\ espera'[1] = e
  BY Solo
<1>1. Corte(k)' /\ CierreBarre' /\ Distintas' /\ Crecientes(k)'
  BY DEF EnOrden, Corte, EnBarrido, CierreBarre, Cerrando, Quien, Distintas, Crecientes
<1>5. Pendientes'
  <2>1. \A c \in Clientes : visto'[c] <= puestos'[c]
    BY Visto DEF EnOrden, PcbInvs
  <2>2. ASSUME NEW i \in 1..Len(cola'), cola'[i].tipo # "CLEAR" PROVE cola'[i].n > visto[cola'[i].c]
    <3>1. CASE i \in 1..Len(cola)
      BY <1>0, <2>2, <3>1 DEF EnOrden, Pendientes
    <3>2. CASE i = Len(cola) + 1
      BY <1>0, <3>2
    <3> QED  BY <1>0, <3>1, <3>2
  <2> QED  BY <1>0, <2>1, <2>2 DEF Pendientes
<1>6. Finales'
  <2>1. tarea.en \in {"fin", "error"} => puestos'[Quien] = puestos[Quien]
    BY QuienType DEF PcbInvs, TypeInv, TareaSana, Sanos, Sano, Quien, Avanza
  <2> QED  BY <1>0, <2>1 DEF EnOrden, Finales, Quien
<1>7. Sordos'
  <2> SUFFICES ASSUME NEW c \in Clientes, SeVa(c)'
               PROVE  ~avisa'[c] /\ \A l \in 1..Len(espera') : espera'[l].c = c => ~Simple(espera'[l])
    BY DEF Sordos
  <2>1. SeVa(c)
    BY DEF SeVa, Quien
  <2>2. ~avisa[c] /\ pcb[c] # "no"
    BY <2>1 DEF EnOrden, Sordos, SeVa, PcbInvs, PcbInv, TareaSana
  <2>3. ~avisa'[c]
    BY <2>2 DEF Avanza
  <2> QED  BY <1>0, <2>1, <2>3
<1>8. Barridas(k)'
  <2> SUFFICES ASSUME NEW i \in 1..Len(cola), Simple(cola[i]), SeVa(cola[i].c)' \/ Cerrando(cola[i].c)'
               PROVE  Barrida(k, cola[i].c, i)'
    BY DEF Barridas
  <2>1. SeVa(cola[i].c) \/ Cerrando(cola[i].c)
    BY DeLaCola DEF SeVa, Cerrando, Quien
  <2> QED  BY <2>1 DEF EnOrden, Barridas, Barrida, EnBarrido, Quien
<1> QED  BY <1>1, <1>5, <1>6, <1>7, <1>8 DEF EnOrden

\* An event that goes to the front: the first of a client, or the order to forget one.
LEMMA OrdenAlFrente ==
  ASSUME PcbInvs, PcbInvs', NEW k \in Nat, EnOrden(k), ~EnBarrido, ~EnBarrido',
         \A c \in Clientes : Avanza(c),
         NEW e \in Eventos, cola' = <<e>> \o cola, e.tipo \in {"ACCEPT", "CLEAR"},
         \A i \in 1..Len(cola) : cola[i] # e,
         e.tipo = "ACCEPT" =>
           /\ espera' = <<>> /\ e.n > visto[e.c] /\ UNCHANGED tarea
           /\ \A i \in 1..Len(cola) : cola[i].tipo # "CLEAR" => cola[i].c # e.c,
         e.tipo = "CLEAR" =>
           /\ espera' = espera /\ tarea.en # "buscar" /\ tarea'.en \notin {"fin", "error"}
           /\ UNCHANGED puestos
           /\ \A i \in 1..Len(cola) : cola[i].tipo = "FIN" => cola[i].c # e.c
           /\ \A l \in 1..Len(espera) : espera[l].tipo = "FIN" => espera[l].c # e.c,
         UNCHANGED visto,
         \A c \in Clientes : Cerrando(c)' => Cerrando(c) \/ (e.tipo = "CLEAR" /\ e.c = c),
         \A c \in Clientes : SeVa(c)' =>
           \/ SeVa(c)
           \/ /\ ~avisa'[c] /\ \A l \in 1..Len(espera) : espera[l].c = c => ~Simple(espera[l])
              /\ \A i \in 1..Len(cola) : cola[i].c = c => ~Simple(cola[i])
  PROVE  EnOrden(k)'
<1>0. /\ cola \in Seq(Eventos) /\ Len(cola) \in Nat /\ Len(cola') = Len(cola) + 1 /\ cola'[1] = e
      /\ \A i \in 2..Len(cola') : i - 1 \in 1..Len(cola) /\ cola'[i] = cola[i - 1]
      /\ \A i \in 1..Len(cola) : i + 1 \in 2..Len(cola') /\ cola'[i + 1] = cola[i]
  <2>1. cola \in Seq(Eventos) /\ Len(cola) \in Nat
    BY Tamano
  <2>2. /\ Len(cola') = Len(cola) + 1 /\ cola'[1] = e
        /\ \A i \in 2..(Len(cola) + 1) : cola'[i] = cola[i - 1]
    BY <2>1, AlFrente
  <2> QED  BY <2>1, <2>2
<1>1. Corte(k)' /\ k = 1
  BY DEF EnOrden, Corte
<1>2. CierreBarre'
  <2> SUFFICES ASSUME NEW c \in Clientes, Cerrando(c)'
               PROVE  \E j \in 1..Len(cola') : cola'[j].tipo = "CLEAR" /\ cola'[j].c = c
    BY DEF CierreBarre
  <2>1. CASE Cerrando(c)
    <3>1. PICK j \in 1..Len(cola) : cola[j].tipo = "CLEAR" /\ cola[j].c = c
      BY <2>1 DEF EnOrden, CierreBarre
    <3> QED  BY <1>0, <3>1
  <2>2. CASE e.tipo = "CLEAR" /\ e.c = c
    BY <1>0, <2>2
  <2> QED  BY <2>1, <2>2
<1>3. Distintas'
  <2> SUFFICES ASSUME NEW i \in 1..Len(cola'), NEW j \in 1..Len(cola'), cola'[i] = cola'[j] PROVE i = j
    BY DEF Distintas
  <2> QED  BY <1>0 DEF EnOrden, Distintas
<1>4. Crecientes(k)'
  <2> SUFFICES ASSUME NEW i \in 1..Len(cola'), NEW j \in 1..Len(cola'), cola'[i].c = cola'[j].c,
                      cola'[i].tipo # "CLEAR", cola'[j].tipo # "CLEAR", Antes(k, i, j)
               PROVE  cola'[i].n < cola'[j].n
    BY DEF Crecientes
  <2>1. i < j
    BY <1>1 DEF Antes
  <2>2. CASE i = 1
    <3>1. cola'[i] = e /\ e.tipo = "ACCEPT"
      BY <1>0, <2>2
    <3>2. j - 1 \in 1..Len(cola) /\ cola'[j] = cola[j - 1]
      BY <1>0, <2>1, <2>2
    <3> QED  BY <3>1, <3>2
  <2>3. CASE i > 1
    <3>1. PICK a \in 1..Len(cola), b \in 1..Len(cola) :
             a = i - 1 /\ b = j - 1 /\ cola'[i] = cola[a] /\ cola'[j] = cola[b]
      <4>1. i \in 2..Len(cola') /\ j \in 2..Len(cola')
        BY <1>0, <2>1, <2>3
      <4> QED  BY <1>0, <4>1
    <3>2. Antes(k, a, b)
      BY <1>1, <2>1, <2>3, <3>1 DEF Antes
    <3>3. Crecientes(k)
      BY DEF EnOrden
    <3> QED  BY <3>1, <3>2, <3>3, SMTT(60) DEF Crecientes
  <2> QED  BY <2>2, <2>3
<1>5. Pendientes'
  <2>1. \A c \in Clientes : visto'[c] <= puestos'[c]
    BY Visto DEF EnOrden, PcbInvs
  <2>2. \A i \in 1..Len(cola') : cola'[i].tipo # "CLEAR" => cola'[i].n > visto[cola'[i].c]
    <3>1. \A i \in 1..Len(cola) : cola[i].tipo # "CLEAR" => cola[i].n > visto[cola[i].c]
      BY DEF EnOrden, Pendientes
    <3>2. ASSUME NEW i \in 1..Len(cola') PROVE cola'[i] = e \/ \E a \in 1..Len(cola) : cola'[i] = cola[a]
      BY <1>0
    <3>3. e.tipo # "CLEAR" => e.n > visto[e.c]
      OBVIOUS
    <3> QED  BY <3>1, <3>2, <3>3
  <2>3. ASSUME NEW l \in 1..Len(espera')
        PROVE  /\ espera'[l].n > visto[espera'[l].c]
               /\ \A i \in 1..Len(cola') :
                    cola'[i].c = espera'[l].c /\ cola'[i].tipo # "CLEAR" => cola'[i].n < espera'[l].n
    <3>1. e.tipo = "CLEAR" /\ espera' = espera
      BY <2>3
    <3>2. /\ espera[l].n > visto[espera[l].c]
          /\ \A i \in 1..Len(cola) :
               cola[i].c = espera[l].c /\ cola[i].tipo # "CLEAR" => cola[i].n < espera[l].n
      BY <2>3, <3>1 DEF EnOrden, Pendientes
    <3>3. ASSUME NEW i \in 1..Len(cola') PROVE cola'[i] = e \/ \E a \in 1..Len(cola) : cola'[i] = cola[a]
      BY <1>0
    <3> QED  BY <3>1, <3>2, <3>3
  <2> QED  BY <2>1, <2>2, <2>3 DEF Pendientes
<1>6. Finales'
  <2>1. tarea'.en \in {"fin", "error"} => visto'[Quien'] = puestos'[Quien']
    <3>1. tarea.en \in {"fin", "error"} => puestos'[Quien] = puestos[Quien]
      BY QuienType DEF PcbInvs, TypeInv, TareaSana, Sanos, Sano, Quien, Avanza
    <3> QED  BY <3>1 DEF EnOrden, Finales, Quien
  <2>2. ASSUME NEW j \in 1..Len(cola'), cola'[j].tipo = "CLEAR"
        PROVE  /\ \A i \in 1..Len(cola') : cola'[i].tipo = "FIN" => cola'[i].c # cola'[j].c
               /\ \A l \in 1..Len(espera') : espera'[l].tipo = "FIN" => espera'[l].c # cola'[j].c
               /\ tarea'.en = "fin" => cola'[j].c # Quien'
    <3>1. CASE j = 1
      <4>1. cola'[j] = e /\ e.tipo = "CLEAR"
        BY <1>0, <2>2, <3>1
      <4>2. ASSUME NEW i \in 1..Len(cola'), cola'[i].tipo = "FIN" PROVE cola'[i].c # e.c
        <5>1. i # 1
          BY <1>0, <4>1, <4>2
        <5>2. i - 1 \in 1..Len(cola) /\ cola'[i] = cola[i - 1]
          BY <1>0, <5>1
        <5> QED  BY <4>1, <4>2, <5>2
      <4> QED  BY <4>1, <4>2
    <3>2. CASE j # 1
      <4>1. PICK h \in 1..Len(cola) : cola'[j] = cola[h]
        BY <1>0, <3>2, SMTT(60)
      <4>2. cola[h].tipo = "CLEAR"
        BY <2>2, <4>1
      <4>3. ASSUME NEW i \in 1..Len(cola'), cola'[i].tipo = "FIN" PROVE cola'[i].c # cola[h].c
        <5>1. i # 1
          BY <1>0, <4>3
        <5>2. i - 1 \in 1..Len(cola) /\ cola'[i] = cola[i - 1]
          BY <1>0, <5>1
        <5> QED  BY <4>2, <4>3, <5>2, SMTT(60) DEF EnOrden, Finales
      <4>4. espera' = <<>> \/ espera' = espera
        OBVIOUS
      <4>5. \A l \in 1..Len(espera') : espera'[l].tipo = "FIN" => espera'[l].c # cola[h].c
        BY <4>2, <4>4 DEF EnOrden, Finales
      <4>6. tarea'.en = "fin" => cola[h].c # Quien'
        <5>1. tarea'.en = "fin" => UNCHANGED tarea
          OBVIOUS
        <5> QED  BY <4>2, <5>1 DEF EnOrden, Finales, Quien
      <4> QED  BY <4>1, <4>3, <4>5, <4>6
    <3> QED  BY <3>1, <3>2
  <2> QED  BY <2>1, <2>2 DEF Finales
<1>7. Sordos'
  <2> SUFFICES ASSUME NEW c \in Clientes, SeVa(c)'
               PROVE  ~avisa'[c] /\ \A l \in 1..Len(espera') : espera'[l].c = c => ~Simple(espera'[l])
    BY DEF Sordos
  <2>1. CASE SeVa(c)
    <3>1. ~avisa[c] /\ pcb[c] # "no"
      BY <2>1 DEF EnOrden, Sordos, SeVa, PcbInvs, PcbInv, TareaSana
    <3>2. ~avisa'[c]
      BY <3>1 DEF Avanza
    <3>3. espera' = <<>> \/ espera' = espera
      OBVIOUS
    <3> QED  BY <2>1, <3>2, <3>3 DEF EnOrden, Sordos
  <2>2. CASE ~SeVa(c)
    <3>1. espera' = <<>> \/ espera' = espera
      OBVIOUS
    <3> QED  BY <2>2, <3>1
  <2> QED  BY <2>1, <2>2
<1>8. Barridas(k)'
  <2> SUFFICES ASSUME NEW i \in 1..Len(cola'), (Simple(cola[i]) /\ (SeVa(cola[i].c) \/ Cerrando(cola[i].c)))'
               PROVE  Barrida(k, cola[i].c, i)'
    BY DEF Barridas
  <2>1. i \in 2..Len(cola')
    BY <1>0 DEF Simple
  <2>2. PICK h \in 1..Len(cola) : h = i - 1 /\ cola'[i] = cola[h]
    BY <1>0, <2>1
  <2>3. PICK c \in Clientes : c = cola[h].c
    BY <2>2, DeLaCola
  <2>4. Simple(cola[h]) /\ (SeVa(c)' \/ Cerrando(c)') /\ cola'[i].c = c
    BY <2>2, <2>3 DEF SeVa, Cerrando
  <2>5. CASE SeVa(c) \/ Cerrando(c)
    <3>1. Barrida(k, c, h)
      BY <2>3, <2>4, <2>5 DEF EnOrden, Barridas
    <3>2. CASE \E j \in 1..Len(cola) : cola[j].tipo = "CLEAR" /\ cola[j].c = c /\ Antes(k, j, h)
      <4>1. PICK j \in 1..Len(cola) : cola[j].tipo = "CLEAR" /\ cola[j].c = c /\ Antes(k, j, h)
        BY <3>2
      <4>2. j + 1 \in 1..Len(cola') /\ cola'[j + 1] = cola[j] /\ Antes(k, j + 1, i)
        BY <1>0, <1>1, <2>2, <4>1 DEF Antes
      <4> QED  BY <2>4, <4>1, <4>2 DEF Barrida
    <3>3. CASE tarea.en = "buscar" /\ Quien = c
      BY <2>4, <3>3 DEF Barrida, Quien
    <3> QED  BY <3>1, <3>2, <3>3 DEF Barrida
  <2>6. CASE e.tipo = "CLEAR" /\ e.c = c
    BY <1>0, <1>1, <2>1, <2>4, <2>6 DEF Barrida, Antes
  <2> QED  BY <2>3, <2>4, <2>5, <2>6
<1> QED  BY <1>1, <1>2, <1>3, <1>4, <1>5, <1>6, <1>7, <1>8 DEF EnOrden

\* The first event leaves the queue: the task takes it, or the sweep drops it.
LEMMA OrdenQuitar ==
  ASSUME PcbInvs, PcbInvs', NEW k \in Nat, EnOrden(k), NEW m \in Nat, m = IF k = 1 THEN 1 ELSE k - 1,
         Corte(m)', NEW h \in Eventos, cola # <<>>, h = cola[1], cola' = Tail(cola),
         UNCHANGED <<espera, puestos, avisa, objeto>>, tarea'.en \notin {"leer", "api", "descartar"},
         \/ /\ tarea.en = "libre"
            /\ visto' = IF h.tipo = "CLEAR" THEN visto ELSE [visto EXCEPT ![h.c] = h.n]
            /\ h.tipo = "CLEAR" => tarea'.en = "buscar" /\ Quien' = h.c
            /\ tarea'.en \in {"fin", "error"} => tarea'.ev = h /\ h.tipo \in {"FIN", "ERROR"}
            /\ tarea'.en = "fin" => h.tipo = "FIN"
         \/ tarea.en \in {"buscar", "barrer"} /\ h.c = Quien /\ UNCHANGED <<tarea, visto>>
  PROVE  EnOrden(m)'
<1>0. /\ cola \in Seq(Eventos) /\ Len(cola) \in Nat /\ Len(cola) >= 1 /\ Len(cola') = Len(cola) - 1
      /\ \A i \in 1..Len(cola') : i + 1 \in 2..Len(cola) /\ cola'[i] = cola[i + 1]
      /\ \A i \in 2..Len(cola) : i - 1 \in 1..Len(cola') /\ cola[i] = cola'[i - 1]
  <2>1. cola \in Seq(Eventos) /\ Len(cola) \in Nat
    BY Tamano
  <2>2. /\ Len(cola) >= 1 /\ Len(cola') = Len(cola) - 1
        /\ \A i \in 1..(Len(cola) - 1) : cola'[i] = cola[i + 1]
    BY <2>1, SinPrimero
  <2> QED  BY <2>1, <2>2
<1>1. k >= 1 /\ 1 \in 1..Len(cola)
  BY <1>0 DEF EnOrden, Corte
<1>2. tarea.en = "libre" => k = 1 /\ m = 1
  BY DEF EnOrden, Corte, EnBarrido
<1>3. ASSUME NEW i \in 1..Len(cola'), NEW j \in 1..Len(cola')
      PROVE  Antes(m, i, j) <=> Antes(k, i + 1, j + 1)
  BY <1>0, <1>1 DEF Antes
<1>4. CierreBarre'
  BY DEF CierreBarre, Cerrando
<1>5. Distintas'
  <2> SUFFICES ASSUME NEW i \in 1..Len(cola'), NEW j \in 1..Len(cola'), cola'[i] = cola'[j] PROVE i = j
    BY DEF Distintas
  <2> QED  BY <1>0 DEF EnOrden, Distintas
<1>6. Crecientes(m)'
  <2> SUFFICES ASSUME NEW i \in 1..Len(cola'), NEW j \in 1..Len(cola'), cola'[i].c = cola'[j].c,
                      cola'[i].tipo # "CLEAR", cola'[j].tipo # "CLEAR", Antes(m, i, j)
               PROVE  cola'[i].n < cola'[j].n
    BY DEF Crecientes
  <2>1. PICK a \in 1..Len(cola), b \in 1..Len(cola) :
           a = i + 1 /\ b = j + 1 /\ cola'[i] = cola[a] /\ cola'[j] = cola[b]
    <3>1. i + 1 \in 1..Len(cola) /\ j + 1 \in 1..Len(cola)
      BY <1>0
    <3> QED  BY <1>0, <3>1
  <2>2. Antes(k, a, b)
    BY <1>3, <2>1
  <2>3. Crecientes(k)
    BY DEF EnOrden
  <2> QED  BY <2>1, <2>2, <2>3 DEF Crecientes
<1>7. h.c \in Clientes /\ h.n \in Nat /\ Sano(h)
  BY <1>1, DeLaCola
<1>8. ASSUME tarea.en = "libre", h.tipo # "CLEAR", NEW i \in 2..Len(cola), cola[i].c = h.c, cola[i].tipo # "CLEAR"
      PROVE  h.n < cola[i].n
  <2>1. Antes(k, 1, i)
    BY <1>0, <1>2, <1>8 DEF Antes
  <2> QED  BY <1>1, <1>8, <2>1 DEF EnOrden, Crecientes
<1>9. \A c \in Clientes : visto'[c] = visto[c] \/ (tarea.en = "libre" /\ h.tipo # "CLEAR" /\ c = h.c /\ visto'[c] = h.n)
  BY DEF PcbInvs, TypeInv, ClientesType
<1>10. Pendientes'
  <2>1. ASSUME NEW c \in Clientes PROVE visto'[c] <= puestos'[c]
    <3>1. CASE visto'[c] = visto[c]
      BY <3>1 DEF EnOrden, Pendientes
    <3>2. CASE tarea.en = "libre" /\ h.tipo # "CLEAR" /\ c = h.c /\ visto'[c] = h.n
      BY <1>7, <3>2 DEF Sano, PcbInvs, TypeInv, ClientesType
    <3> QED  BY <1>9, <3>1, <3>2
  <2>2. ASSUME NEW i \in 1..Len(cola'), cola'[i].tipo # "CLEAR" PROVE cola'[i].n > visto'[cola'[i].c]
    <3>1. PICK g \in 2..Len(cola) : cola'[i] = cola[g]
      BY <1>0
    <3>2. cola[g].c \in Clientes /\ cola[g].n \in Nat
      BY <1>0, DeLaCola
    <3>3. CASE visto'[cola[g].c] = visto[cola[g].c]
      BY <2>2, <3>1, <3>3 DEF EnOrden, Pendientes
    <3>4. CASE tarea.en = "libre" /\ h.tipo # "CLEAR" /\ cola[g].c = h.c /\ visto'[cola[g].c] = h.n
      BY <1>7, <1>8, <2>2, <3>1, <3>2, <3>4
    <3> QED  BY <1>9, <3>2, <3>3, <3>4
  <2>3. ASSUME NEW l \in 1..Len(espera) PROVE espera[l].n > visto'[espera[l].c]
    <3>1. espera[l].c \in Clientes /\ espera[l].n \in Nat
      BY DeLaEspera
    <3>2. CASE visto'[espera[l].c] = visto[espera[l].c]
      BY <3>2 DEF EnOrden, Pendientes
    <3>3. CASE tarea.en = "libre" /\ h.tipo # "CLEAR" /\ espera[l].c = h.c /\ visto'[espera[l].c] = h.n
      BY <1>1, <1>7, <3>1, <3>3 DEF EnOrden, Pendientes
    <3> QED  BY <1>9, <3>1, <3>2, <3>3
  <2>4. ASSUME NEW l \in 1..Len(espera), NEW i \in 1..Len(cola'),
               cola'[i].c = espera[l].c, cola'[i].tipo # "CLEAR"
        PROVE  cola'[i].n < espera[l].n
    BY <1>0, <2>4 DEF EnOrden, Pendientes
  <2> QED  BY <2>1, <2>2, <2>3, <2>4 DEF Pendientes
<1>11. Finales'
  <2>1. tarea'.en \in {"fin", "error"} => tarea.en = "libre" /\ tarea'.ev = h /\ h.tipo \in {"FIN", "ERROR"}
    OBVIOUS
  <2>2. tarea'.en \in {"fin", "error"} => visto'[Quien'] = puestos'[Quien']
    <3>1. h.tipo \in {"FIN", "ERROR"} => h.n = puestos[h.c]
      BY <1>7 DEF Sano
    <3>2. tarea.en = "libre" /\ h.tipo # "CLEAR" => visto'[h.c] = h.n
      BY <1>7 DEF PcbInvs, TypeInv, ClientesType
    <3> QED  BY <2>1, <3>1, <3>2 DEF Quien
  <2>3. ASSUME NEW j \in 1..Len(cola'), cola'[j].tipo = "CLEAR"
        PROVE  /\ \A i \in 1..Len(cola') : cola'[i].tipo = "FIN" => cola'[i].c # cola'[j].c
               /\ \A l \in 1..Len(espera') : espera'[l].tipo = "FIN" => espera'[l].c # cola'[j].c
               /\ tarea'.en = "fin" => cola'[j].c # Quien'
    <3>1. PICK g \in 1..Len(cola) : cola'[j] = cola[g]
      BY <1>0
    <3>2. /\ \A i \in 1..Len(cola) : cola[i].tipo = "FIN" => cola[i].c # cola[g].c
          /\ \A l \in 1..Len(espera) : espera[l].tipo = "FIN" => espera[l].c # cola[g].c
      BY <2>3, <3>1 DEF EnOrden, Finales
    <3>3. \A i \in 1..Len(cola') : cola'[i].tipo = "FIN" => cola'[i].c # cola[g].c
      BY <1>0, <3>2
    <3>4. tarea'.en = "fin" => cola[g].c # Quien'
      BY <1>1, <2>1, <3>2 DEF Quien
    <3> QED  BY <3>1, <3>2, <3>3, <3>4
  <2> QED  BY <2>2, <2>3 DEF Finales
<1>12. Sordos'
  BY DEF EnOrden, Sordos, SeVa
<1>13. Barridas(m)'
  <2> SUFFICES ASSUME NEW i \in 1..Len(cola'), (Simple(cola[i]) /\ (SeVa(cola[i].c) \/ Cerrando(cola[i].c)))'
               PROVE  Barrida(m, cola[i].c, i)'
    BY DEF Barridas
  <2>1. PICK g \in 2..Len(cola) : g = i + 1 /\ cola'[i] = cola[g]
    BY <1>0
  <2>2. PICK c \in Clientes : c = cola[g].c
    BY DeLaCola, <1>0
  <2>3. Simple(cola[g]) /\ SeVa(c) /\ cola'[i].c = c
    BY <2>1, <2>2 DEF SeVa, Cerrando
  <2>4. Barrida(k, c, g)
    BY <1>0, <2>2, <2>3 DEF EnOrden, Barridas
  <2>5. ASSUME NEW j \in 2..Len(cola), cola[j].tipo = "CLEAR", cola[j].c = c, Antes(k, j, g)
        PROVE  Barrida(m, cola[i].c, i)'
    <3>1. j - 1 \in 1..Len(cola') /\ cola'[j - 1] = cola[j]
      BY <1>0
    <3>2. Antes(m, j - 1, i)
      BY <1>0, <1>3, <2>1, <2>5, <3>1
    <3> QED  BY <2>3, <2>5, <3>1, <3>2 DEF Barrida
  <2>6. CASE h.tipo = "CLEAR" /\ h.c = c /\ Antes(k, 1, g)
    <3>1. CASE tarea.en = "libre"
      BY <2>3, <2>6, <3>1 DEF Barrida
    <3>2. CASE tarea.en = "buscar"
      BY <2>3, <2>6, <3>2 DEF Barrida, Quien
    <3>3. CASE tarea.en = "barrer"
      <4>1. k > 1 => i < m
        BY <1>0, <2>1, <2>6 DEF Antes
      <4>2. k # 1
        <5>1. UNCHANGED tarea /\ Corte(m)' /\ Corte(k) /\ Distintas
          BY <3>3 DEF EnOrden
        <5> QED  BY <1>0, <1>1, <3>3, <5>1 DEF Corte, EnBarrido, Distintas
      <4> QED  BY <1>1, <2>3, <2>6, <3>3, <4>1, <4>2 DEF Barrida, Quien, EnBarrido
    <3> QED  BY <3>1, <3>2, <3>3
  <2>7. CASE tarea.en = "buscar" /\ Quien = c
    BY <2>3, <2>7 DEF Barrida, Quien
  <2>8. CASE EnBarrido /\ Quien = c /\ g < k
    BY <2>1, <2>3, <2>8 DEF Barrida, Quien, EnBarrido
  <2>9. \A j \in 1..Len(cola) : j = 1 \/ j \in 2..Len(cola)
    BY <1>0
  <2> QED  BY <2>4, <2>5, <2>6, <2>7, <2>8, <2>9 DEF Barrida
<1> QED  BY <1>4, <1>5, <1>6, <1>10, <1>11, <1>12, <1>13 DEF EnOrden

\* Where the event at i of a turned queue of n events was, and where that at i goes.
De_donde(n, i) == IF i = n THEN 1 ELSE i + 1
A_donde(n, i) == IF i = 1 THEN n ELSE i - 1

LEMMA Vuelta ==
  ASSUME NEW n \in Nat, NEW i \in 1..n
  PROVE  /\ De_donde(n, i) \in 1..n /\ A_donde(n, De_donde(n, i)) = i
         /\ A_donde(n, i) \in 1..n /\ De_donde(n, A_donde(n, i)) = i
BY DEF De_donde, A_donde

LEMMA AntesGira ==
  ASSUME NEW n \in Nat, NEW k \in 1..n, NEW m \in Nat,
         (k = 1 /\ m = n) \/ (k > 1 /\ m = k - 1),
         NEW i \in 1..n, NEW j \in 1..n, i # j
  PROVE  Antes(m, i, j) <=> Antes(k, De_donde(n, i), De_donde(n, j))
<1>1. CASE k = 1
  BY <1>1 DEF Antes, De_donde
<1>2. CASE k > 1
  BY <1>2 DEF Antes, De_donde
<1> QED  BY <1>1, <1>2

\* The first event of another client goes to the back of the queue.
LEMMA OrdenGirar ==
  ASSUME PcbInvs, PcbInvs', NEW k \in Nat, EnOrden(k), NEW n \in Nat, n = Len(cola), n >= 1,
         ~De(cola[1]), Len(cola') = n, \A i \in 1..n : cola'[i] = cola[De_donde(n, i)],
         tarea'.en = "barrer", tarea'.ev = tarea.ev,
         UNCHANGED <<espera, visto, puestos, avisa, objeto>>,
         NEW m \in Nat, Corte(m)',
         \/ tarea.en = "buscar" /\ k = 1 /\ m = n
         \/ tarea.en = "barrer" /\ k \in 2..n /\ m = k - 1
  PROVE  EnOrden(m)'
<1>1. \A i \in 1..n : De_donde(n, i) \in 1..n /\ cola'[i] = cola[De_donde(n, i)]
  BY Vuelta
<1>2. ASSUME NEW i \in 1..n, NEW j \in 1..n, i # j
      PROVE  Antes(m, i, j) <=> Antes(k, De_donde(n, i), De_donde(n, j))
  <2>1. k \in 1..n /\ ((k = 1 /\ m = n) \/ (k > 1 /\ m = k - 1))
    OBVIOUS
  <2> QED  BY <1>2, <2>1, AntesGira
<1>4. CierreBarre'
  BY DEF CierreBarre, Cerrando
<1>5. Distintas'
  <2> SUFFICES ASSUME NEW i \in 1..n, NEW j \in 1..n, cola'[i] = cola'[j] PROVE i = j
    BY DEF Distintas
  <2>1. De_donde(n, i) = De_donde(n, j)
    BY <1>1 DEF EnOrden, Distintas
  <2> QED  BY <2>1, Vuelta
<1>6. Crecientes(m)'
  <2> SUFFICES ASSUME NEW i \in 1..n, NEW j \in 1..n, cola'[i].c = cola'[j].c,
                      cola'[i].tipo # "CLEAR", cola'[j].tipo # "CLEAR", Antes(m, i, j)
               PROVE  cola'[i].n < cola'[j].n
    BY DEF Crecientes
  <2>1. i # j
    BY DEF Antes
  <2>2. PICK a \in 1..n, b \in 1..n : Antes(k, a, b) /\ cola'[i] = cola[a] /\ cola'[j] = cola[b]
    BY <1>1, <1>2, <2>1
  <2> QED  BY <2>2 DEF EnOrden, Crecientes
<1>7. Pendientes'
  <2>1. \A i \in 1..n : \E a \in 1..n : cola'[i] = cola[a]
    BY <1>1
  <2>2. ASSUME NEW i \in 1..n, cola'[i].tipo # "CLEAR"
        PROVE  /\ cola'[i].n > visto[cola'[i].c]
               /\ \A l \in 1..Len(espera) : cola'[i].c = espera[l].c => cola'[i].n < espera[l].n
    <3>1. PICK a \in 1..n : cola'[i] = cola[a]
      BY <2>1
    <3> QED  BY <2>2, <3>1 DEF EnOrden, Pendientes
  <2> QED  BY <2>2 DEF EnOrden, Pendientes
<1>8. Finales'
  <2> SUFFICES ASSUME NEW j \in 1..n, cola'[j].tipo = "CLEAR"
               PROVE  /\ \A i \in 1..n : cola'[i].tipo = "FIN" => cola'[i].c # cola'[j].c
                      /\ \A l \in 1..Len(espera) : espera[l].tipo = "FIN" => espera[l].c # cola'[j].c
    BY DEF Finales
  <2> QED  BY <1>1, SMTT(60) DEF EnOrden, Finales
<1>9. Sordos'
  BY DEF EnOrden, Sordos, SeVa
<1>10. Barridas(m)'
  <2> SUFFICES ASSUME NEW i \in 1..n, (Simple(cola[i]) /\ (SeVa(cola[i].c) \/ Cerrando(cola[i].c)))'
               PROVE  Barrida(m, cola[i].c, i)'
    BY DEF Barridas
  <2>1. PICK h \in 1..n : h = De_donde(n, i) /\ cola'[i] = cola[h]
    BY <1>1
  <2>2. PICK c \in Clientes : c = cola[h].c
    BY DeLaCola
  <2>3. Simple(cola[h]) /\ SeVa(c) /\ cola'[i].c = c
    BY <2>1, <2>2 DEF SeVa, Cerrando
  <2>4. Barrida(k, c, h)
    BY <2>2, <2>3 DEF EnOrden, Barridas
  <2>5. ASSUME NEW j \in 1..n, cola[j].tipo = "CLEAR", cola[j].c = c, Antes(k, j, h)
        PROVE  Barrida(m, cola[i].c, i)'
    <3>1. PICK q \in 1..n : De_donde(n, q) = j /\ cola'[q] = cola[j]
      <4>1. A_donde(n, j) \in 1..n /\ De_donde(n, A_donde(n, j)) = j
        BY Vuelta
      <4> QED  BY <1>1, <4>1
    <3>2. q # i
      BY <2>1, <2>3, <2>5, <3>1 DEF Simple
    <3>3. Antes(m, q, i)
      BY <1>2, <2>1, <2>5, <3>1, <3>2
    <3> QED  BY <2>3, <2>5, <3>1, <3>3 DEF Barrida
  <2>6. CASE tarea.en \in {"buscar", "barrer"} /\ Quien = c /\ (tarea.en = "barrer" => h < k)
    <3>1. h # 1
      BY <2>2, <2>3, <2>6 DEF De, Simple
    <3>2. i < m
      BY <2>1, <2>6, <3>1 DEF De_donde
    <3> QED  BY <2>3, <2>6, <3>2 DEF Barrida, Quien, EnBarrido
  <2> QED  BY <2>4, <2>5, <2>6 DEF Barrida, EnBarrido
<1> QED  BY <1>4, <1>5, <1>6, <1>7, <1>8, <1>9, <1>10 DEF EnOrden

\* The sweep ends where it began.
LEMMA OrdenFinBarrido ==
  ASSUME PcbInvs, PcbInvs', NEW k \in Nat, EnOrden(k), tarea.en \in {"buscar", "barrer"},
         cola = <<>> \/ (tarea.en = "barrer" /\ Head(cola) = tarea.primero), tarea' = Libre,
         UNCHANGED <<cola, espera, visto, puestos, avisa, objeto>>
  PROVE  EnOrden(1)'
<1>0. tarea'.en = "libre"
  BY LibreType
<1>1. Corte(1)' /\ CierreBarre'
  BY <1>0 DEF Corte, EnBarrido, CierreBarre, Cerrando
<1>2. k = 1
  <2>1. CASE tarea.en = "buscar"
    BY <2>1 DEF EnOrden, Corte, EnBarrido
  <2>2. CASE tarea.en = "barrer"
    <3>1. k \in 1..Len(cola) /\ cola[k] = tarea.primero
      BY <2>2 DEF EnOrden, Corte, EnBarrido
    <3>2. cola # <<>>
      BY <3>1
    <3>3. cola[1] = tarea.primero /\ 1 \in 1..Len(cola)
      BY <3>2, SinPrimero, Tamano
    <3> QED  BY <3>1, <3>3 DEF EnOrden, Distintas
  <2> QED  BY <2>1, <2>2
<1>3. Distintas' /\ Crecientes(1)' /\ Pendientes'
  BY <1>2 DEF EnOrden, Distintas, Crecientes, Pendientes
<1>4. Finales'
  BY <1>0 DEF EnOrden, Finales
<1>5. Sordos'
  BY <1>0 DEF EnOrden, Sordos, SeVa
<1>6. Barridas(1)'
  <2> SUFFICES ASSUME NEW i \in 1..Len(cola), Simple(cola[i]), SeVa(cola[i].c)
               PROVE  \E j \in 1..Len(cola) : cola[j].tipo = "CLEAR" /\ cola[j].c = cola[i].c /\ Antes(1, j, i)
    BY <1>0 DEF Barridas, Barrida, SeVa, Cerrando
  <2>1. cola # <<>>
    OBVIOUS
  <2>2. tarea.en = "barrer"
    BY <2>1
  <2> QED  BY <1>2, <2>2 DEF EnOrden, Barridas, Barrida
<1> QED  BY <1>1, <1>3, <1>4, <1>5, <1>6 DEF EnOrden

\* lwIP posts an event of a client that hears it.
LEMMA OrdenPublicar ==
  ASSUME PcbInvs, PcbInvs', ~desorden', NEW k \in Nat, EnOrden(k), \A c \in Clientes : Avanza(c),
         NEW c \in Clientes, NEW t \in {"RECV", "SENT", "POLL", "FIN", "ERROR"},
         espera = <<>>, avisa[c], Publicar(Evento(t, c, puestos[c] + 1)), UNCHANGED <<tarea, visto, objeto>>
  PROVE  EnOrden(k)'
<1>0. puestos[c] + 1 \in Nat /\ puestos[c] \in Nat /\ visto[c] \in Nat
  BY DEF PcbInvs, TypeInv, ClientesType
<1>1. PICK e \in Eventos : e = Evento(t, c, puestos[c] + 1)
  BY <1>0, Campos DEF Tipos
<1>2. e.c = c /\ e.n = puestos[c] + 1 /\ e.tipo = t /\ Publicar(e)
  BY <1>0, <1>1, Campos DEF Tipos
<1>3. \A i \in 1..Len(cola) : cola[i].c = e.c /\ cola[i].tipo # "CLEAR" => cola[i].n < e.n
  BY <1>0, <1>2, DeLaCola DEF Sano
<1>4. e.n > visto[e.c]
  BY <1>0, <1>2 DEF EnOrden, Pendientes
<1>5. \A j \in 1..Len(cola) : cola[j].tipo = "CLEAR" => cola[j].c # e.c
  BY <1>2, DeLaCola DEF Sano
<1>6. ~SeVa(e.c)
  BY <1>2 DEF EnOrden, Sordos
<1>7. tarea.en # "fin" \/ Quien # e.c
  BY <1>2 DEF PcbInvs, TareaSana, Sanos, Sano, Quien
<1>8. CASE Hay
  <2>1. cola' = Append(cola, e) /\ espera' = <<>> /\ ~EnBarrido
    BY <1>2, <1>8 DEF Publicar, Poner
  <2> QED  BY <1>2, <1>3, <1>4, <1>5, <1>6, <1>7, <2>1, OrdenAlFinal DEF Simple
<1>9. CASE ~Hay
  <2>1. UNCHANGED cola /\ espera' = <<e>>
    BY <1>2, <1>9 DEF Publicar
  <2> QED  BY <1>2, <1>3, <1>4, <1>5, <1>6, <2>1, OrdenEspera DEF Simple
<1> QED  BY <1>8, <1>9

LEMMA OrdenAccept ==
  ASSUME PcbInvs, PcbInvs', ~desorden', NEW k \in Nat, EnOrden(k), \A c \in Clientes : Avanza(c),
         NEW c \in Clientes, _accept(c)
  PROVE  EnOrden(k)'
<1>0. puestos[c] = 0 /\ objeto[c] = "no"
  BY DEF PcbInvs, PcbInv, _accept
<1>1. PICK e \in Eventos : e = Evento("ACCEPT", c, 1)
  BY Campos DEF Tipos
<1>2. e.c = c /\ e.n = 1 /\ e.tipo = "ACCEPT" /\ Publicar(e)
  BY <1>1, Campos DEF Tipos, _accept
<1>3. \A i \in 1..Len(cola) : cola[i].c # c
  BY DeLaCola DEF Sano, _accept
<1>4. e.n > visto[e.c]
  BY <1>0, <1>2 DEF EnOrden, Pendientes, PcbInvs, TypeInv, ClientesType
<1>5. \A d \in Clientes : SeVa(d)' => SeVa(d)
  BY DEF SeVa, _accept, Quien, PcbInvs, TypeInv, ClientesType
<1>6. CASE Hay
  <2>1. cola' = <<e>> \o cola /\ espera' = <<>> /\ ~EnBarrido /\ ~EnBarrido'
    BY <1>2, <1>6 DEF Publicar, Poner, _accept, EnBarrido
  <2>2. UNCHANGED <<tarea, visto>> /\ \A d \in Clientes : Cerrando(d)' => Cerrando(d)
    BY DEF _accept, Cerrando, Quien
  <2> QED  BY <1>2, <1>3, <1>4, <1>5, <2>1, <2>2, OrdenAlFrente
<1>7. CASE ~Hay
  <2>1. UNCHANGED cola /\ espera' = <<e>>
    BY <1>2, <1>7 DEF Publicar
  <2>2. UNCHANGED <<tarea, visto>> /\ \A d \in Clientes : objeto'[d] = "borrado" => objeto[d] = "borrado"
    BY DEF _accept, PcbInvs, TypeInv, ClientesType
  <2> QED  BY <1>2, <1>3, <1>4, <2>1, <2>2, OrdenEspera DEF Simple
<1> QED  BY <1>6, <1>7

LEMMA OrdenDesbloquear ==
  ASSUME PcbInvs, PcbInvs', ~desorden', NEW k \in Nat, EnOrden(k), \A c \in Clientes : Avanza(c),
         Desbloquear
  PROVE  EnOrden(k)'
<1>1. Len(espera) = 1 /\ Head(espera) = espera[1] /\ 1 \in 1..Len(espera)
  <2>1. espera \in Seq(Eventos) /\ Len(espera) <= 1 /\ espera # <<>>
    BY DEF Desbloquear, PcbInvs, TypeInv, ColaType
  <2>2. Head(espera) = espera[1] /\ Len(espera) >= 1 /\ Len(espera) \in Nat
    BY <2>1, SinPrimero
  <2>3. \A m \in Nat : m <= 1 /\ m >= 1 => m = 1 /\ 1 \in 1..m
    OBVIOUS
  <2>4. Len(espera) = 1 /\ 1 \in 1..Len(espera)
    BY <2>1, <2>2, <2>3, Zenon
  <2> QED  BY <2>2, <2>4, Zenon
<1>2. PICK e \in Eventos : e = espera[1]
  BY <1>1, DeLaEspera
<1>3. /\ Sano(e) /\ e.tipo # "CLEAR" /\ e.n > visto[e.c] /\ e.c \in Clientes
      /\ \A i \in 1..Len(cola) : cola[i].c = e.c /\ cola[i].tipo # "CLEAR" => cola[i].n < e.n
  BY <1>1, <1>2, DeLaEspera DEF EnOrden, Pendientes
<1>4. ~EnBarrido /\ ~EnBarrido' /\ espera' = <<>> /\ UNCHANGED <<tarea, visto, objeto>>
  BY DEF Desbloquear, EnBarrido, datos
<1>5. CASE e.tipo = "ACCEPT"
  <2>1. cola' = <<e>> \o cola
    BY <1>1, <1>2, <1>5 DEF Desbloquear, Poner
  <2>2. e.n = 1
    BY <1>3, <1>5 DEF Sano
  <2>3. \A i \in 1..Len(cola) : cola[i].tipo # "CLEAR" => cola[i].c # e.c
    BY <1>3, <2>2, DeLaCola DEF Sano
  <2>4. \A i \in 1..Len(cola) : cola[i] # e
    BY <1>5, <2>3
  <2>5. \A d \in Clientes : (Cerrando(d)' => Cerrando(d)) /\ (SeVa(d)' => SeVa(d))
    BY <1>4 DEF Cerrando, SeVa, Quien
  <2> QED  BY <1>3, <1>4, <1>5, <2>1, <2>3, <2>4, <2>5, OrdenAlFrente
<1>6. CASE e.tipo # "ACCEPT"
  <2>1. cola' = Append(cola, e) /\ Simple(e)
    BY <1>1, <1>2, <1>3, <1>6 DEF Desbloquear, Poner, Simple
  <2>2. ~SeVa(e.c)
    BY <1>1, <1>2, <1>3, <2>1 DEF EnOrden, Sordos
  <2>3. e.tipo = "FIN" => /\ tarea.en # "fin" \/ Quien # e.c
                          /\ \A j \in 1..Len(cola) : cola[j].tipo = "CLEAR" => cola[j].c # e.c
    <3>1. \A j \in 1..Len(cola) : e.tipo = "FIN" /\ cola[j].tipo = "CLEAR" => cola[j].c # e.c
      BY <1>1, <1>2 DEF EnOrden, Finales
    <3>2. tarea.en = "fin" => visto[Quien] = puestos[Quien]
      BY DEF EnOrden, Finales
    <3>3. e.n \in 1..puestos[e.c] /\ puestos[e.c] \in Nat
      BY <1>3 DEF Sano, PcbInvs, TypeInv, ClientesType
    <3> QED  BY <1>3, <3>1, <3>2, <3>3
  <2> QED  BY <1>3, <1>4, <2>1, <2>2, <2>3, OrdenAlFinal
<1> QED  BY <1>5, <1>6

\* A client whose last event was handled has nothing in the queue.
LEMMA SinNada ==
  ASSUME PcbInvs, NEW k \in Nat, EnOrden(k), NEW c \in Clientes, visto[c] = puestos[c]
  PROVE  /\ \A i \in 1..Len(cola) : cola[i].c = c => cola[i].tipo = "CLEAR"
         /\ \A l \in 1..Len(espera) : espera[l].c # c
<1>1. \A i \in 1..Len(cola) : cola[i].c = c => cola[i].tipo = "CLEAR"
  BY DeLaCola DEF EnOrden, Pendientes, Sano
<1>2. \A l \in 1..Len(espera) : espera[l].c # c
  BY DeLaEspera DEF EnOrden, Pendientes, Sano
<1> QED  BY <1>1, <1>2

LEMMA OrdenClear ==
  ASSUME PcbInvs, PcbInvs', NEW k \in Nat, EnOrden(k), \A c \in Clientes : Avanza(c),
         (_close /\ puntero[Quien]) \/ _fin
  PROVE  EnOrden(k)'
<1>1. Quien \in Clientes /\ tarea.en \in {"cerrar", "fin"} /\ EnTarea(tarea) /\ RanurasType
  BY QuienType DEF _close, _fin, PcbInvs, TypeInv
<1>2. PICK e \in Eventos : e = Evento("CLEAR", Quien, 0) /\ e.c = Quien /\ e.n = 0 /\ e.tipo = "CLEAR"
  BY <1>1, Campos DEF Tipos
<1>3. /\ cola' = <<e>> \o cola /\ UNCHANGED <<espera, visto, objeto, puestos>>
      /\ ~EnBarrido /\ tarea.en # "buscar"
  BY <1>1, <1>2 DEF _close, _fin, Tarea, datos, lwip, EnBarrido
<1>4. CASE _close /\ puntero[Quien]
  <2>1. /\ tarea'.en = "leer" /\ tarea'.ev = tarea.ev
    BY <1>1, <1>4, LlamarType DEF _close
  <2>2. \A i \in 1..Len(cola) : cola[i] # e /\ (cola[i].tipo = "FIN" => cola[i].c # e.c)
    BY <1>1, <1>2, <1>4, DeLaCola DEF Sano, Cerrando
  <2>3. \A l \in 1..Len(espera) : espera[l].tipo = "FIN" => espera[l].c # e.c
    BY <1>2, <1>4, DeLaEspera DEF Sano
  <2>4. \A c \in Clientes : (Cerrando(c)' => c = Quien) /\ (SeVa(c)' => SeVa(c))
    BY <1>3, <2>1 DEF Cerrando, SeVa, Quien
  <2> QED  BY <1>2, <1>3, <2>1, <2>2, <2>3, <2>4, OrdenAlFrente DEF EnBarrido
<1>5. CASE _fin
  <2>1. /\ tarea'.en = "descartar" /\ tarea'.ev = tarea.ev /\ UNCHANGED avisa
    BY <1>1, <1>5, EnType DEF _fin, Tarea, lwip, Pasos
  <2>2. visto[Quien] = puestos[Quien] /\ \A j \in 1..Len(cola) : cola[j].tipo = "CLEAR" => cola[j].c # Quien
    BY <1>5 DEF EnOrden, Finales, _fin
  <2>3. /\ \A i \in 1..Len(cola) : cola[i].c # Quien
        /\ \A l \in 1..Len(espera) : espera[l].c # Quien
    BY <1>1, <2>2, SinNada
  <2>4. ~avisa[Quien]
    BY <1>5 DEF _fin, PcbInvs, TareaSana, Sanos, Sano, Quien
  <2>5. \A c \in Clientes : ~Cerrando(c)' /\ (SeVa(c)' => SeVa(c) \/ c = Quien)
    BY <1>3, <2>1 DEF Cerrando, SeVa, Quien
  <2> QED  BY <1>2, <1>3, <2>1, <2>3, <2>4, <2>5, OrdenAlFrente DEF EnBarrido
<1> QED  BY <1>4, <1>5

LEMMA ColaInvStep ==
  ASSUME ColaInvs, PcbInvs', [Next]_vars
  PROVE  ColaInv'
<1> USE DEF ColaInvs, lwip, datos
<1>0. \A c \in Clientes : Avanza(c)
  BY AvanzaStep
<1>a. SUFFICES ASSUME ~desorden' PROVE \E k \in Nat : EnOrden(k)'
  BY DEF ColaInv
<1>b. ~desorden
  BY <1>a DEF Next, _accept, Publicar, Avisar, Fin, Reiniciar, Desbloquear, EjecutarApi, PasoDeTarea,
              Tomar, Escribir, CerrarCliente, Volver, LeerRanura, _close, _fin, _error, Descartar,
              Buscar, Barrer, Tarea, vars
<1>k. PICK k \in Nat : EnOrden(k)
  BY <1>b DEF ColaInv
<1>1. ASSUME NEW c \in Clientes, _accept(c) PROVE EnOrden(k)'
  BY <1>0, <1>a, <1>k, <1>1, OrdenAccept
<1>2. ASSUME NEW c \in Clientes, NEW t \in {"RECV", "SENT", "POLL"}, Avisar(c, t) PROVE EnOrden(k)'
  BY <1>0, <1>a, <1>k, <1>2, OrdenPublicar DEF Avisar
<1>3. ASSUME NEW c \in Clientes, Fin(c) PROVE EnOrden(k)'
  BY <1>0, <1>a, <1>k, <1>3, OrdenPublicar DEF Fin, _lwip_fin
<1>4. ASSUME NEW c \in Clientes, Reiniciar(c) PROVE EnOrden(k)'
  <2>1. CASE avisa[c]
    BY <1>0, <1>a, <1>k, <1>4, <2>1, OrdenPublicar DEF Reiniciar
  <2>2. CASE ~avisa[c]
    <3>1. UNCHANGED <<cola, espera, tarea, visto, puestos, objeto>> /\ \A d \in Clientes : avisa'[d] => avisa[d]
      BY <1>4, <2>2 DEF Reiniciar, PcbInvs, TypeInv, ClientesType
    <3>2. Corte(k)' /\ CierreBarre' /\ Distintas' /\ Crecientes(k)' /\ Pendientes' /\ Finales'
      BY <1>k, <3>1 DEF EnOrden, Corte, EnBarrido, CierreBarre, Cerrando, Quien, Distintas, Crecientes,
                        Pendientes, Finales
    <3>3. Sordos' /\ Barridas(k)'
      BY <1>k, <3>1 DEF EnOrden, Sordos, SeVa, Cerrando, Quien, Barridas, Barrida, EnBarrido
    <3> QED  BY <3>2, <3>3 DEF EnOrden
  <2> QED  BY <2>1, <2>2
<1>5. CASE Desbloquear
  BY <1>0, <1>a, <1>k, <1>5, OrdenDesbloquear
<1>6. CASE (_close /\ puntero[Quien]) \/ _fin
  BY <1>0, <1>k, <1>6, OrdenClear
<1>7. ASSUME tarea.en \notin {"libre", "buscar", "barrer"}, tarea'.en \in {"libre", "leer", "escrito", "cerrar"},
             tarea'.en = "leer" => tarea'.op # "close",
             UNCHANGED <<cola, espera, visto, puestos, avisa>>,
             \A c \in Clientes : objeto'[c] = "borrado" => SeVa(c)
      PROVE  EnOrden(k)'
  <2>1. ~EnBarrido /\ ~EnBarrido' /\ \A c \in Clientes : ~Cerrando(c)' /\ (SeVa(c)' => SeVa(c))
    BY <1>7 DEF EnBarrido, Cerrando, SeVa
  <2>2. \A c \in Clientes : SeVa(c)' =>
          ~avisa'[c] /\ \A l \in 1..Len(espera) : espera[l].c = c => ~Simple(espera[l])
    BY <1>k, <1>7, <2>1 DEF EnOrden, Sordos
  <2>3. \A i \in 1..Len(cola) : Simple(cola[i]) /\ SeVa(cola[i].c)' => SeVa(cola[i].c)
    <3>1. ASSUME NEW i \in 1..Len(cola), SeVa(cola[i].c)' PROVE SeVa(cola[i].c)
      <4>1. PICK c \in Clientes : c = cola[i].c
        BY DeLaCola
      <4>2. SeVa(c)'
        BY <1>7, <3>1, <4>1 DEF SeVa
      <4> QED  BY <2>1, <4>1, <4>2
    <3> QED  BY <1>7, <3>1
  <2> QED  BY <1>k, <1>7, <2>1, <2>2, <2>3, OrdenQuieto
<1>8. CASE EjecutarApi
  <2>1. tarea.op \in {"write", "soltar", "close", "recved"} /\ EnTarea(tarea) /\ tarea.en = "api" /\ Quien \in Clientes
    BY <1>8, QuienType DEF EjecutarApi, PcbInvs, TypeInv, EnTarea, Tareas
  <2>2. CASE tarea.op # "close"
    <3>1. tarea' \in {En("escrito"), En("cerrar"), Libre}
      BY <1>8, <2>1, <2>2 DEF EjecutarApi
    <3>2. tarea'.en \in {"escrito", "cerrar", "libre"}
      BY <2>1, <3>1, EnType, LibreType DEF Pasos
    <3>3. UNCHANGED <<cola, espera, visto, puestos, avisa, objeto>>
      BY <1>8 DEF EjecutarApi
    <3> QED  BY <1>7, <2>1, <3>2, <3>3 DEF SeVa
  <2>3. CASE tarea.op = "close"
    <3>1. tarea'.en = "descartar" /\ tarea'.ev = tarea.ev
      BY <1>8, <2>1, <2>3, EnType DEF EjecutarApi, Pasos
    <3>2. UNCHANGED <<cola, espera, visto, puestos, avisa, objeto>> /\ Len(espera) = 0
      BY <1>8 DEF EjecutarApi
    <3>3. Cerrando(Quien) /\ ~avisa[Quien] /\ ~EnBarrido /\ ~EnBarrido'
      BY <2>1, <2>3, <3>1 DEF Cerrando, PcbInvs, TareaSana, EnBarrido
    <3>4. \A c \in Clientes : ~Cerrando(c)' /\ (SeVa(c)' => SeVa(c) \/ c = Quien)
      BY <3>1, <3>2 DEF Cerrando, SeVa, Quien
    <3>5. \A c \in Clientes : SeVa(c)' =>
            ~avisa'[c] /\ \A l \in 1..Len(espera) : espera[l].c = c => ~Simple(espera[l])
      BY <1>k, <3>2, <3>3, <3>4 DEF EnOrden, Sordos
    <3>6. \A i \in 1..Len(cola) : Simple(cola[i]) /\ SeVa(cola[i].c)' => SeVa(cola[i].c) \/ Cerrando(cola[i].c)
      BY <3>1, <3>2, <3>3 DEF SeVa, Quien
    <3> QED  BY <1>k, <2>1, <3>1, <3>2, <3>3, <3>4, <3>5, <3>6, OrdenQuieto
  <2> QED  BY <2>2, <2>3
<1>9. CASE _error
  <2>1. Quien \in Clientes /\ EnTarea(tarea) /\ tarea.en = "error"
    BY <1>9, QuienType DEF _error, PcbInvs, TypeInv
  <2>2. tarea'.en = "descartar" /\ tarea'.ev = tarea.ev
    BY <1>9, <2>1, EnType DEF _error, Pasos
  <2>3. UNCHANGED <<cola, espera, visto, puestos, avisa, objeto>>
    BY <1>9 DEF _error
  <2>4. ~avisa[Quien] /\ ~EnBarrido /\ ~EnBarrido'
    BY <2>1, <2>2 DEF PcbInvs, TareaSana, Sanos, Sano, Quien, EnBarrido
  <2>5. visto[Quien] = puestos[Quien]
    BY <1>k, <2>1 DEF EnOrden, Finales
  <2>6. /\ \A i \in 1..Len(cola) : cola[i].c = Quien => cola[i].tipo = "CLEAR"
        /\ \A l \in 1..Len(espera) : espera[l].c # Quien
    BY <1>k, <2>1, <2>5, SinNada
  <2>7. \A c \in Clientes : ~Cerrando(c)' /\ (SeVa(c)' => SeVa(c) \/ c = Quien)
    BY <2>2, <2>3 DEF Cerrando, SeVa, Quien
  <2>8. \A c \in Clientes : SeVa(c)' =>
          ~avisa'[c] /\ \A l \in 1..Len(espera) : espera[l].c = c => ~Simple(espera[l])
    BY <1>k, <2>3, <2>4, <2>6, <2>7 DEF EnOrden, Sordos
  <2>9. \A i \in 1..Len(cola) : Simple(cola[i]) /\ SeVa(cola[i].c)' => SeVa(cola[i].c)
    BY <2>2, <2>3, <2>6 DEF SeVa, Quien, Simple
  <2> QED  BY <1>k, <2>1, <2>2, <2>3, <2>4, <2>7, <2>8, <2>9, OrdenQuieto
<1>10. CASE Escribir \/ CerrarCliente \/ Volver \/ (_close /\ ~puntero[Quien])
  <2>1. tarea' = Libre \/ \E o \in {"write", "soltar", "recved"} : tarea' = Llamar(o)
    BY <1>10 DEF Escribir, CerrarCliente, Volver, _close, Tarea
  <2>2. tarea.en \in {"manejar", "escrito", "cerrar"} /\ EnTarea(tarea) /\ RanurasType
    BY <1>10 DEF Escribir, CerrarCliente, Volver, _close, PcbInvs, TypeInv
  <2>3. UNCHANGED <<cola, espera, visto, puestos, avisa, objeto>>
    BY <1>10 DEF Escribir, CerrarCliente, Volver, _close, Tarea
  <2>4. tarea'.en \in {"libre", "leer"} /\ (tarea'.en = "leer" => tarea'.op # "close")
    BY <2>1, <2>2, LibreType, LlamarType
  <2> QED  BY <1>7, <2>2, <2>3, <2>4 DEF SeVa
<1>11. CASE Descartar
  <2>1. tarea.en = "descartar" /\ tarea'.en = "libre" /\ UNCHANGED <<cola, espera, visto, puestos, avisa>>
    BY <1>11, LibreType DEF Descartar, Tarea
  <2>2. \A c \in Clientes : objeto'[c] = "borrado" => SeVa(c)
    BY <1>11 DEF Descartar, SeVa, PcbInvs, TypeInv, ClientesType
  <2> QED  BY <1>7, <2>1, <2>2
<1>12. CASE Tomar
  <2>1. PICK h \in Eventos : h = Head(cola) /\ h = cola[1]
    BY <1>12, SinPrimero, Tamano DEF Tomar
  <2>2. /\ cola # <<>> /\ cola' = Tail(cola) /\ tarea.en = "libre"
        /\ UNCHANGED <<espera, puestos, avisa, objeto>>
        /\ visto' = IF h.tipo = "CLEAR" THEN visto ELSE [visto EXCEPT ![h.c] = h.n]
    BY <1>12, <2>1 DEF Tomar, Tarea
  <2>3. /\ tarea'.en \notin {"leer", "api", "descartar", "barrer"}
        /\ h.tipo = "CLEAR" => tarea'.en = "buscar" /\ Quien' = h.c
        /\ tarea'.en \in {"fin", "error"} => tarea'.ev = h /\ h.tipo \in {"FIN", "ERROR"}
        /\ tarea'.en = "fin" => h.tipo = "FIN"
    <3>1. CASE h.tipo = "ACCEPT"
      BY <1>12, <2>1, <3>1, LibreType DEF Tomar, Tarea
    <3>2. CASE h.tipo # "ACCEPT"
      <4>1. PICK p \in {"buscar", "fin", "error", "manejar"} :
              /\ tarea' = [Libre EXCEPT !.ev = h, !.en = p]
              /\ p = "fin" => h.tipo = "FIN"
              /\ p = "error" => h.tipo = "ERROR"
              /\ h.tipo = "CLEAR" => p = "buscar"
        BY <1>12, <2>1, <3>2 DEF Tomar, Tarea
      <4>2. tarea'.en = p /\ tarea'.ev = h
        BY <4>1, TomadaType DEF Pasos
      <4> QED  BY <4>1, <4>2 DEF Quien
    <3> QED  BY <3>1, <3>2
  <2>4. k = 1 /\ Corte(1)'
    BY <1>k, <2>2, <2>3 DEF EnOrden, Corte, EnBarrido
  <2> QED  BY <1>k, <2>1, <2>2, <2>3, <2>4, OrdenQuitar
<1>13. CASE Buscar \/ Barrer
  <2>0. UNCHANGED <<espera, visto, puestos, avisa, objeto>> /\ tarea.en \in {"buscar", "barrer"}
    BY <1>13 DEF Buscar, Barrer, Tarea
  <2>1. CASE cola = <<>> \/ (tarea.en = "barrer" /\ Head(cola) = tarea.primero)
    <3>1. UNCHANGED cola /\ tarea' = Libre
      BY <1>13, <2>1 DEF Buscar, Barrer, Tarea
    <3> QED  BY <1>k, <2>0, <2>1, <3>1, OrdenFinBarrido
  <2>2. CASE cola # <<>> /\ (tarea.en = "barrer" => Head(cola) # tarea.primero)
    <3>1. PICK h \in Eventos : h = Head(cola) /\ h = cola[1]
      BY <2>2, SinPrimero, Tamano
    <3>2. Len(cola) \in Nat /\ Len(cola) >= 1
      BY <2>2, SinPrimero, Tamano
    <3>3. tarea.en = "buscar" => k = 1
      BY <1>k DEF EnOrden, Corte, EnBarrido
    <3>4. tarea.en = "barrer" => k \in 2..Len(cola) /\ cola[k] = tarea.primero
      BY <1>k, <2>2, <3>1, <3>2 DEF EnOrden, Corte, EnBarrido
    <3>5. CASE De(h)
      <4>1. cola' = Tail(cola) /\ UNCHANGED tarea /\ h.c = Quien
        BY <1>13, <2>2, <3>1, <3>5 DEF Buscar, Barrer, Tarea, De
      <4>2. PICK m \in Nat : m = IF k = 1 THEN 1 ELSE k - 1
        BY <2>0, <3>3, <3>4
      <4>3. Corte(m)'
        <5>1. CASE tarea.en = "buscar"
          BY <3>3, <4>1, <4>2, <5>1 DEF Corte, EnBarrido
        <5>2. CASE tarea.en = "barrer"
          <6>1. Len(cola') = Len(cola) - 1 /\ \A i \in 1..(Len(cola) - 1) : cola'[i] = cola[i + 1]
            BY <2>2, <4>1, SinPrimero, Tamano
          <6> QED  BY <3>2, <3>4, <4>1, <4>2, <5>2, <6>1 DEF Corte, EnBarrido
        <5> QED  BY <2>0, <5>1, <5>2
      <4> QED  BY <1>k, <2>0, <2>2, <3>1, <4>1, <4>2, <4>3, OrdenQuitar
    <3>6. CASE ~De(h)
      <4>1. cola' = Append(Tail(cola), Head(cola))
        BY <1>13, <2>2, <3>1, <3>6 DEF Buscar, Barrer
      <4>2. PICK n \in Nat : n = Len(cola) /\ n >= 1
        BY <3>2
      <4>3. Len(cola') = n /\ cola'[n] = cola[1] /\ \A i \in 1..(n - 1) : cola'[i] = cola[i + 1]
        BY <2>2, <4>1, <4>2, Girado, Tamano
      <4>4. \A i \in 1..n : cola'[i] = cola[De_donde(n, i)]
        BY <4>2, <4>3 DEF De_donde
      <4>5. CASE tarea.en = "buscar"
        <5>1. tarea' = [En("barrer") EXCEPT !.primero = h] /\ EnTarea(tarea)
          BY <1>13, <2>2, <3>1, <3>6, <4>5 DEF Buscar, Barrer, Tarea, PcbInvs, TypeInv
        <5>2. tarea'.en = "barrer" /\ tarea'.ev = tarea.ev /\ tarea'.primero = h
          BY <4>5, <5>1, BarrerType
        <5>3. Corte(n)'
          BY <3>1, <4>2, <4>3, <5>2 DEF Corte, EnBarrido
        <5> QED  BY <1>k, <2>0, <3>1, <3>3, <3>6, <4>2, <4>3, <4>4, <4>5, <5>2, <5>3, OrdenGirar
      <4>6. CASE tarea.en = "barrer"
        <5>1. UNCHANGED tarea
          BY <1>13, <2>2, <4>6 DEF Buscar, Barrer, Tarea
        <5>2. PICK m \in Nat : m = k - 1
          BY <3>4, <4>6
        <5>3. Corte(m)'
          BY <3>4, <4>2, <4>3, <4>6, <5>1, <5>2 DEF Corte, EnBarrido
        <5> QED  BY <1>k, <2>0, <3>1, <3>4, <3>6, <4>2, <4>3, <4>4, <4>6, <5>1, <5>2, <5>3, OrdenGirar
      <4> QED  BY <2>0, <4>5, <4>6
    <3> QED  BY <3>5, <3>6
  <2> QED  BY <2>1, <2>2
<1>14. CASE UNCHANGED vars
  <2>1. Corte(k)' /\ CierreBarre' /\ Distintas' /\ Crecientes(k)' /\ Pendientes' /\ Finales'
    BY <1>k, <1>14 DEF vars, EnOrden, Corte, EnBarrido, CierreBarre, Cerrando, Quien, Distintas, Crecientes,
                       Pendientes, Finales
  <2>2. Sordos' /\ Barridas(k)'
    BY <1>k, <1>14 DEF vars, EnOrden, Sordos, SeVa, Cerrando, Quien, Barridas, Barrida, EnBarrido
  <2> QED  BY <2>1, <2>2 DEF EnOrden
<1>15. CASE LeerRanura
  <2>1. /\ tarea'.ev = tarea.ev /\ tarea'.en = "api" /\ tarea'.op = tarea.op /\ tarea.en = "leer"
        /\ UNCHANGED <<cola, espera, visto, puestos, objeto, avisa>>
    BY <1>15, LeidaType DEF LeerRanura, PcbInvs, TypeInv
  <2>2. Corte(k)' /\ CierreBarre' /\ Distintas' /\ Crecientes(k)' /\ Pendientes' /\ Finales'
    BY <1>k, <2>1 DEF EnOrden, Corte, EnBarrido, CierreBarre, Cerrando, Quien, Distintas, Crecientes,
                      Pendientes, Finales
  <2>3. Sordos' /\ Barridas(k)'
    BY <1>k, <2>1 DEF EnOrden, Sordos, SeVa, Cerrando, Quien, Barridas, Barrida, EnBarrido
  <2> QED  BY <2>2, <2>3 DEF EnOrden
<1> QED  BY <1>1, <1>2, <1>3, <1>4, <1>5, <1>6, <1>8, <1>9, <1>10, <1>11, <1>12, <1>13, <1>14, <1>15
            DEF Next, PasoDeTarea

LEMMA ColaInvInit == Init => ColaInv
<1> SUFFICES ASSUME Init PROVE ColaInv
  OBVIOUS
<1>1. Len(cola) = 0 /\ Len(espera) = 0 /\ tarea = Libre /\ tarea.en = "libre"
  BY LibreType DEF Init
<1>2. Corte(1) /\ CierreBarre /\ Distintas /\ Crecientes(1) /\ Finales
  BY <1>1 DEF Corte, EnBarrido, CierreBarre, Cerrando, Distintas, Crecientes, Finales
<1>3. Pendientes /\ Sordos /\ Barridas(1)
  BY <1>1 DEF Init, Pendientes, Sordos, SeVa, Barridas
<1> QED  BY <1>2, <1>3 DEF ColaInv, EnOrden

LEMMA ColaInvsSiempre == Spec => []ColaInvs
<1>1. Init => ColaInvs
  BY PcbInvsInit, ColaInvInit DEF ColaInvs
<1>2. ColaInvs /\ [Next]_vars => ColaInvs'
  BY PcbInvsStep, ColaInvStep DEF ColaInvs
<1> QED  BY <1>1, <1>2, PTL DEF Spec

\* Only the event that is taken off the queue sets the task to handle one.
LEMMA SoloTomar ==
  ASSUME PcbInvs, [Next]_vars, ~Tomar, tarea'.en \in {"manejar", "fin", "error"}
  PROVE  /\ UNCHANGED <<tarea, visto>> /\ (desorden => desorden')
         /\ \A c \in Clientes : objeto[c] = "vivo" => objeto'[c] = "vivo"
<1> USE DEF lwip, datos, Tarea
<1>1. CASE \E c \in Clientes : _accept(c) \/ Fin(c) \/ Reiniciar(c)
                               \/ \E t \in {"RECV", "SENT", "POLL"} : Avisar(c, t)
  BY <1>1 DEF _accept, Fin, _lwip_fin, Reiniciar, Avisar, Publicar, PcbInvs, TypeInv, ClientesType
<1>2. CASE Desbloquear
  BY <1>2 DEF Desbloquear
<1>3. EnTarea(tarea) /\ RanurasType
  BY DEF PcbInvs, TypeInv
<1>4. CASE EjecutarApi
  <2>1. tarea.op \in {"write", "soltar", "close", "recved"}
    BY <1>3, <1>4 DEF EjecutarApi, EnTarea, Tareas
  <2>2. tarea' \in {En("escrito"), En("cerrar"), En("descartar"), Libre}
    BY <1>4, <2>1 DEF EjecutarApi
  <2>3. tarea.en # "libre"
    BY <1>4 DEF EjecutarApi
  <2>4. En("escrito").en = "escrito" /\ En("cerrar").en = "cerrar" /\ En("descartar").en = "descartar"
    BY <1>3, <2>3, EnType DEF Pasos
  <2> QED  BY <2>2, <2>4, LibreType
<1>5. CASE Escribir \/ CerrarCliente \/ Volver \/ _close
  <2>1. tarea' = Libre \/ \E o \in {"write", "soltar", "recved", "close"} : tarea' = Llamar(o)
    BY <1>5 DEF Escribir, CerrarCliente, Volver, _close
  <2>2. tarea.en # "libre"
    BY <1>5 DEF Escribir, CerrarCliente, Volver, _close
  <2> QED  BY <1>3, <2>1, <2>2, LibreType, LlamarType
<1>6. CASE _fin \/ _error
  <2>1. tarea' = En("descartar") /\ tarea.en # "libre"
    BY <1>6 DEF _fin, _error
  <2> QED  BY <1>3, <2>1, EnType DEF Pasos
<1>7. CASE Descartar
  BY <1>7, LibreType DEF Descartar
<1>8. CASE Buscar \/ Barrer
  <2>1. CASE cola = <<>>
    BY <1>8, <2>1, LibreType DEF Buscar, Barrer
  <2>2. CASE cola # <<>>
    <3>1. Head(cola) \in Eventos /\ tarea.en \in {"buscar", "barrer"}
      BY <1>8, <2>2, SinPrimero, Tamano DEF Buscar, Barrer
    <3>2. tarea' \in {Libre, tarea, [En("barrer") EXCEPT !.primero = Head(cola)]}
      BY <1>8, <2>2 DEF Buscar, Barrer
    <3> QED  BY <1>3, <3>1, <3>2, LibreType, BarrerType
  <2> QED  BY <2>1, <2>2
<1>9. CASE UNCHANGED vars
  BY <1>9 DEF vars
<1>10. CASE LeerRanura
  BY <1>3, <1>10, LeidaType
<1> QED  BY <1>1, <1>2, <1>4, <1>5, <1>6, <1>7, <1>8, <1>9, <1>10 DEF Next, PasoDeTarea

\* An event that is taken is not of a client that was deleted: the sweep would have
\* dropped it.
LEMMA TomaDeVivo ==
  ASSUME ColaInvs, ~desorden, Tomar, NEW e \in Eventos, e = Head(cola), Simple(e)
  PROVE  objeto[e.c] = "vivo"
<1>1. PICK k \in Nat : EnOrden(k)
  BY DEF ColaInvs, ColaInv
<1>2. e = cola[1] /\ 1 \in 1..Len(cola) /\ tarea.en = "libre"
  <2>1. cola # <<>> /\ cola \in Seq(Eventos) /\ Len(cola) \in Nat
    BY Tamano DEF Tomar, ColaInvs
  <2>2. Head(cola) = cola[1] /\ Len(cola) >= 1
    BY <2>1, SinPrimero
  <2> QED  BY <2>1, <2>2 DEF Tomar
<1>3. k = 1
  BY <1>1, <1>2 DEF EnOrden, Corte, EnBarrido
<1>4. e.c \in Clientes /\ pcb[e.c] # "no"
  BY <1>2, DeLaCola DEF ColaInvs, Sano
<1>5. ~Barrida(1, e.c, 1)
  BY <1>2 DEF Barrida, Antes, EnBarrido
<1>6. objeto[e.c] # "borrado"
  BY <1>1, <1>2, <1>3, <1>5 DEF EnOrden, Barridas, SeVa
<1> QED  BY <1>4, <1>6 DEF ColaInvs, PcbInvs, PcbInv, TypeInv, ClientesType

\* The task handles no event of a client that it deleted, and deletes none twice.
THEOREM SinEventoTrasBorrarCorrect == Spec => []SinEventoTrasBorrar
<1>1. Init => SinEventoTrasBorrar
  BY LibreType DEF Init, SinEventoTrasBorrar
<1>2. ColaInvs /\ SinEventoTrasBorrar /\ [Next]_vars => SinEventoTrasBorrar'
  <2> SUFFICES ASSUME ColaInvs, SinEventoTrasBorrar, [Next]_vars,
                      ~desorden', tarea'.en \in {"manejar", "fin", "error"}
               PROVE  objeto'[Quien'] = "vivo"
    BY DEF SinEventoTrasBorrar
  <2>1. CASE ~Tomar
    <3>1. UNCHANGED tarea /\ ~desorden /\ \A c \in Clientes : objeto[c] = "vivo" => objeto'[c] = "vivo"
      BY <2>1, SoloTomar DEF ColaInvs
    <3>2. Quien \in Clientes
      BY <3>1, QuienType DEF ColaInvs, PcbInvs, TypeInv
    <3> QED  BY <3>1, <3>2 DEF SinEventoTrasBorrar, Quien
  <2>2. CASE Tomar
    <3>1. PICK e \in Eventos : e = Head(cola)
      BY <2>2, SinPrimero, Tamano DEF Tomar, ColaInvs
    <3>2. UNCHANGED <<objeto, desorden>>
      BY <2>2 DEF Tomar, Tarea
    <3>3. e.tipo # "ACCEPT"
      BY <2>2, <3>1, LibreType DEF Tomar, Tarea
    <3>4. PICK p \in {"buscar", "fin", "error", "manejar"} :
            /\ tarea' = [Libre EXCEPT !.ev = e, !.en = p]
            /\ e.tipo = "CLEAR" => p = "buscar"
      BY <2>2, <3>1, <3>3 DEF Tomar, Tarea
    <3>5. tarea'.en = p /\ tarea'.ev = e
      BY <3>4, TomadaType DEF Pasos
    <3>6. objeto[e.c] = "vivo"
      BY <2>2, <3>1, <3>2, <3>3, <3>4, <3>5, TomaDeVivo DEF Simple
    <3> QED  BY <3>2, <3>5, <3>6 DEF Quien
  <2> QED  BY <2>1, <2>2
<1> QED  BY <1>1, <1>2, ColaInvsSiempre, PTL DEF Spec

\* The events of a client are handled in the order in which they were posted.
THEOREM OrdenDeEventosCorrect == Spec => OrdenDeEventos
<1>1. ColaInvs /\ [Next]_vars => [~desorden => \A c \in Clientes : visto'[c] >= visto[c]]_vars
  <2> SUFFICES ASSUME ColaInvs, Next, ~desorden, NEW c \in Clientes
               PROVE  visto'[c] >= visto[c]
    BY DEF vars
  <2>0. visto[c] \in Nat
    BY DEF ColaInvs, PcbInvs, TypeInv, ClientesType
  <2>1. CASE ~Tomar
    <3>1. UNCHANGED visto
      BY <2>1 DEF Next, _accept, Avisar, Fin, Reiniciar, Desbloquear, EjecutarApi, PasoDeTarea, Escribir,
                  CerrarCliente, Volver, LeerRanura, _close, _fin, _error, Descartar, Buscar, Barrer
    <3> QED  BY <2>0, <3>1
  <2>2. CASE Tomar
    <3>1. PICK k \in Nat : EnOrden(k)
      BY DEF ColaInvs, ColaInv
    <3>2. cola # <<>> /\ cola \in Seq(Eventos) /\ Len(cola) \in Nat
      BY <2>2, Tamano DEF Tomar, ColaInvs
    <3>3. Head(cola) = cola[1] /\ 1 \in 1..Len(cola)
      BY <3>2, SinPrimero
    <3>4. PICK e \in Eventos : e = Head(cola) /\ e = cola[1]
      BY <3>2, <3>3, SinPrimero
    <3>5. e.c \in Clientes /\ e.n \in Nat /\ (e.tipo # "CLEAR" => e.n > visto[e.c])
      BY <3>1, <3>3, <3>4 DEF EnOrden, Pendientes, Eventos
    <3>6. visto' = IF e.tipo = "CLEAR" THEN visto ELSE [visto EXCEPT ![e.c] = e.n]
      BY <2>2, <3>4 DEF Tomar
    <3>7. visto \in [Clientes -> Nat]
      BY DEF ColaInvs, PcbInvs, TypeInv, ClientesType
    <3> QED  BY <2>0, <3>5, <3>6, <3>7
  <2> QED  BY <2>1, <2>2
<1> QED  BY <1>1, ColaInvsSiempre, PTL DEF Spec, OrdenDeEventos

\* The types of the clients, the slots, the queue and the task.
THEOREM TypeCorrect == Spec => []TypeOK
<1>1. PcbInvs => TypeOK
  <2> SUFFICES ASSUME PcbInvs PROVE TypeOK
    OBVIOUS
  <2>1. ClientesType /\ RanurasType /\ ColaType /\ EnTarea(tarea)
    BY DEF PcbInvs, TypeInv
  <2>2. \A c \in Clientes : pcb[c] \in {"no", "abierta", "liberada"} /\ ranura[c] \in 0..Ranuras
    BY <2>1 DEF ClientesType, RanurasType
  <2>3. \A s \in S : cerradas[s] \in 0..indice
    BY <2>1 DEF RanurasType
  <2>4. tarea.en \in Pasos
    BY <2>1 DEF EnTarea, Tareas
  <2> QED  BY <2>1, <2>2, <2>3, <2>4 DEF TypeOK, ColaType, Pasos
<1> QED  BY <1>1, PcbInvsSiempre, PTL
=============================================================================
