------------------------------ MODULE AsyncTcp ------------------------------
(***************************************************************************)
(* AsyncTCP.cpp: the lwIP thread posts what happens to its connections to a  *)
(* queue, and the async_tcp task calls the clients back and calls lwIP.  The *)
(* task dies of a pcb that lwIP freed under it, which closed slots are to    *)
(* prevent, and of an event for a client that it deleted, which clearing the *)
(* queue is to prevent.                                                      *)
(* A call reads the pcb and the slot one after the other, and lwIP may come   *)
(* in between.  Otherwise a callback of lwIP runs whole between two steps of  *)
(* the task (priority 18 over 3), and so do the plain statements of the task. *)
(***************************************************************************)
EXTENDS Integers, Sequences, FiniteSets, SequencesExt

CONSTANTS
  Clientes,    \* the AsyncClient objects, each of one connection
  Ranuras,     \* _number_of_closed_slots (CONFIG_LWIP_MAX_ACTIVE_TCP), slots 1..Ranuras
  MaxAbiertas, \* connections that are open at a time
  ColaMax,     \* length of _async_queue (32)
  EventosMax   \* events posted for a client before its last one (a bound)

ASSUME AsyncTcpAssumption ==
  Ranuras \in Nat \ {0} /\ MaxAbiertas \in Nat \ {0} /\ ColaMax \in Nat \ {0} /\ EventosMax \in Nat

VARIABLES
  pcb,        \* of a client: "no", "abierta", "liberada" (closed or freed by lwIP)
  avisa,      \* its pcb still has the client as argument, and its callbacks
  puntero,    \* _pcb # NULL
  ranura,     \* _closed_slot, 0 for -1
  objeto,     \* "no", "vivo", "borrado"
  registrado, \* its callbacks are set, by onClient()
  cerradas,   \* _closed_slots
  indice,     \* _closed_index
  cola,       \* _async_queue
  espera,     \* what the lwIP thread waits to post, at most one event
  tarea,      \* what the async task is doing
  puestos,    \* events posted for a client
  visto,      \* number of the last of its events that was handled
  reinicio,   \* its connection was reset by the peer
  usoLibre,   \* lwIP was called with its pcb after it was freed
  desprotegida, \* no slot guards a call of it: it got none, or FIN gave it back just before
                \* the call read it, or another client took the one that the call read
  desorden    \* something was posted in the middle of a sweep of the queue

lwip  == <<pcb, avisa, puestos, reinicio>>
datos == <<puntero, ranura, objeto, registrado, cerradas, indice>>
vars  == <<lwip, datos, cola, espera, tarea, visto, usoLibre, desprotegida, desorden>>

S == 1..Ranuras
Nada == [tipo |-> "NADA", c |-> "nadie", n |-> 0]
Libre == [en |-> "libre", ev |-> Nada, op |-> "", ranura |-> 0, primero |-> Nada]
Evento(t, x, k) == [tipo |-> t, c |-> x, n |-> k]
En(paso) == [tarea EXCEPT !.en = paso]
Quien == tarea.ev.c

Init ==
  /\ pcb = [c \in Clientes |-> "no"] /\ objeto = [c \in Clientes |-> "no"]
  /\ avisa = [c \in Clientes |-> FALSE] /\ puntero = avisa /\ registrado = avisa
  /\ reinicio = avisa /\ usoLibre = avisa /\ desprotegida = avisa
  /\ ranura = [c \in Clientes |-> 0] /\ puestos = ranura /\ visto = ranura
  /\ cerradas = [s \in S |-> 1] /\ indice = 1
  /\ cola = <<>> /\ espera = <<>> /\ tarea = Libre /\ desorden = FALSE

-----------------------------------------------------------------------------
(* The lwIP thread.  It stops in xQueueSend() while the queue is full.     *)
Hay == Len(cola) < ColaMax
EnBarrido == tarea.en = "barrer"

Poner(e, q) == IF e.tipo = "ACCEPT" THEN <<e>> \o q ELSE Append(q, e)
\* The mutant gives up an event for which there is no room.
Publicar_SinEsperar(e) ==
  /\ cola' = (IF Hay THEN Poner(e, cola) ELSE cola) /\ UNCHANGED espera
  /\ desorden' = (desorden \/ (Hay /\ EnBarrido))
  /\ puestos' = [puestos EXCEPT ![e.c] = e.n]
Publicar(e) ==
  /\ IF Hay THEN cola' = Poner(e, cola) /\ UNCHANGED espera
            ELSE espera' = <<e>> /\ UNCHANGED cola
  /\ desorden' = (desorden \/ (Hay /\ EnBarrido))
  /\ puestos' = [puestos EXCEPT ![e.c] = e.n]

Desbloquear ==
  /\ espera # <<>> /\ Hay
  /\ cola' = Poner(Head(espera), cola) /\ espera' = <<>>
  /\ desorden' = (desorden \/ EnBarrido)
  /\ UNCHANGED <<lwip, datos, tarea, visto, usoLibre, desprotegida>>

\* _allocate_closed_slot(): of the slots that are not in use the one that was
\* closed first, and of several with one index the last.  The index of the first
\* slot ever closed is the one of those never used, so that it may be the next.
MasAntigua(s) ==
  /\ cerradas[s] # 0
  /\ \A t \in S : cerradas[t] # 0 => cerradas[s] < cerradas[t] \/ (cerradas[s] = cerradas[t] /\ s >= t)

Abiertas == {c \in Clientes : pcb[c] = "abierta"}
_accept(c) ==
  /\ espera = <<>> /\ pcb[c] = "no" /\ Cardinality(Abiertas) < MaxAbiertas
  /\ pcb' = [pcb EXCEPT ![c] = "abierta"] /\ avisa' = [avisa EXCEPT ![c] = TRUE]
  /\ objeto' = [objeto EXCEPT ![c] = "vivo"] /\ puntero' = [puntero EXCEPT ![c] = TRUE]
  /\ \/ /\ \A s \in S : cerradas[s] = 0
        /\ desprotegida' = [desprotegida EXCEPT ![c] = TRUE]
        /\ UNCHANGED <<ranura, cerradas>>
     \/ \E s \in S :
          /\ MasAntigua(s)
          /\ ranura' = [ranura EXCEPT ![c] = s] /\ cerradas' = [cerradas EXCEPT ![s] = 0]
          /\ desprotegida' = [x \in Clientes |->
               desprotegida[x] \/ (tarea.en = "api" /\ x = Quien /\ tarea.ranura = s)]
  /\ Publicar(Evento("ACCEPT", c, 1))
  /\ UNCHANGED <<registrado, indice, tarea, visto, reinicio, usoLibre>>

\* _tcp_recv(), _tcp_sent(), _tcp_poll()
Avisar(c, tipo) ==
  /\ espera = <<>> /\ avisa[c] /\ pcb[c] = "abierta" /\ puestos[c] <= EventosMax
  /\ Publicar(Evento(tipo, c, puestos[c] + 1))
  /\ UNCHANGED <<pcb, avisa, reinicio, datos, tarea, visto, usoLibre, desprotegida>>

\* _free_closed_slot()
SoltarRanura(c) ==
  IF ranura[c] = 0 THEN UNCHANGED <<ranura, cerradas, indice>>
  ELSE /\ cerradas' = [cerradas EXCEPT ![ranura[c]] = indice]
       /\ ranura' = [ranura EXCEPT ![c] = 0]
       /\ indice' = indice + 1

\* _tcp_recv() without data: _lwip_fin() closes the pcb before the event is posted.
_lwip_fin(c) ==
  /\ pcb' = [pcb EXCEPT ![c] = "liberada"] /\ avisa' = [avisa EXCEPT ![c] = FALSE]
  /\ puntero' = [puntero EXCEPT ![c] = FALSE]
  /\ SoltarRanura(c)
  /\ UNCHANGED <<objeto, registrado>>
Fin(c) ==
  /\ espera = <<>> /\ avisa[c] /\ pcb[c] = "abierta"
  /\ _lwip_fin(c)
  /\ Publicar(Evento("FIN", c, puestos[c] + 1))
  /\ UNCHANGED <<tarea, visto, reinicio, usoLibre, desprotegida>>

\* lwIP frees the pcb of a reset connection; _tcp_error() only posts the event.
Reiniciar(c) ==
  /\ espera = <<>> /\ pcb[c] = "abierta"
  /\ pcb' = [pcb EXCEPT ![c] = "liberada"] /\ reinicio' = [reinicio EXCEPT ![c] = TRUE]
  /\ avisa' = [avisa EXCEPT ![c] = FALSE]
  /\ IF avisa[c] THEN Publicar(Evento("ERROR", c, puestos[c] + 1))
                 ELSE UNCHANGED <<cola, espera, puestos, desorden>>
  /\ UNCHANGED <<datos, tarea, visto, usoLibre, desprotegida>>

\* _tcp_write_api(), _tcp_recved_api(), _tcp_close_api(): a call of the task, in the
\* lwIP thread, with the slot that the task read.  What closes goes on to discard.
\* The mutant does not look at the slot.
RanuraVale_Siempre(s) == TRUE
RanuraVale(s) == s = 0 \/ cerradas[s] = 0
EjecutarApi ==
  LET c == Quien
      llama == RanuraVale(tarea.ranura)
  IN  /\ espera = <<>> /\ tarea.en = "api"
      /\ usoLibre' = [usoLibre EXCEPT ![c] = @ \/ (llama /\ pcb[c] = "liberada")]
      /\ pcb' = [pcb EXCEPT ![c] = IF llama /\ tarea.op = "close" THEN "liberada" ELSE @]
      /\ puntero' = [puntero EXCEPT ![c] = @ /\ tarea.op # "close"]
      /\ tarea' = CASE tarea.op = "write"  -> En("escrito")
                    [] tarea.op = "soltar" -> En("cerrar")
                    [] tarea.op = "close"  -> En("descartar")
                    [] tarea.op = "recved" -> Libre
      /\ UNCHANGED <<avisa, puestos, reinicio, ranura, objeto, registrado, cerradas, indice,
                     cola, espera, visto, desprotegida, desorden>>

-----------------------------------------------------------------------------
(* The async task.                                                         *)
Tarea(nueva) == tarea' = nueva /\ UNCHANGED <<lwip, espera, usoLibre, desprotegida, desorden>>
Llamar(op) == [tarea EXCEPT !.en = "leer", !.op = op]

\* The arguments of a call are _pcb and _closed_slot.  The task has read the first
\* when it calls, and reads the second here: between _free_closed_slot() and the
\* assignment of _pcb in _lwip_fin(), on the other core, it gets a pcb and -1 too.
LeerRanura ==
  /\ tarea.en = "leer"
  /\ tarea' = [tarea EXCEPT !.en = "api", !.ranura = ranura[Quien]]
  /\ desprotegida' = [desprotegida EXCEPT ![Quien] = @ \/ ranura[Quien] = 0]
  /\ UNCHANGED <<lwip, datos, cola, espera, visto, usoLibre, desorden>>

\* _get_async_event(), _handle_async_event()
Tomar ==
  LET e == Head(cola)
  IN  /\ tarea.en = "libre" /\ cola # <<>>
      /\ cola' = Tail(cola)
      /\ visto' = IF e.tipo = "CLEAR" THEN visto ELSE [visto EXCEPT ![e.c] = e.n]
      /\ registrado' = IF e.tipo = "ACCEPT" THEN [registrado EXCEPT ![e.c] = TRUE] ELSE registrado
      /\ Tarea(IF e.tipo = "ACCEPT" THEN Libre
               ELSE [Libre EXCEPT !.ev = e,
                       !.en = CASE e.tipo = "CLEAR" -> "buscar"
                                [] e.tipo = "FIN"   -> "fin"
                                [] e.tipo = "ERROR" -> "error"
                                [] OTHER            -> "manejar"])
      /\ UNCHANGED <<puntero, ranura, objeto, cerradas, indice>>

\* What a handler may do: write once, close, and return; _recv() then tells lwIP
\* what it has taken.  (It reads the client for that, deleted or not.)
Escribir ==
  /\ tarea.en = "manejar" /\ registrado[Quien] /\ puntero[Quien]
  /\ Tarea(Llamar("write")) /\ UNCHANGED <<datos, cola, visto>>
CerrarCliente ==
  /\ tarea.en \in {"manejar", "escrito"} /\ registrado[Quien] /\ puntero[Quien]
  /\ Tarea(Llamar("soltar")) /\ UNCHANGED <<datos, cola, visto>>
Volver ==
  /\ tarea.en \in {"manejar", "escrito"}
  /\ Tarea(IF tarea.ev.tipo = "RECV" /\ puntero[Quien] THEN Llamar("recved") ELSE Libre)
  /\ UNCHANGED <<datos, cola, visto>>

\* _close(): the pcb forgets the client, its events are to be cleared before any
\* other, and the pcb is closed.  FIN may have closed it in the meantime.
\* The mutant does not clear.
_close_SinLimpiar ==
  /\ tarea.en = "cerrar"
  /\ IF puntero[Quien]
     THEN /\ avisa' = [avisa EXCEPT ![Quien] = FALSE]
          /\ tarea' = Llamar("close")
     ELSE tarea' = Libre /\ UNCHANGED avisa
  /\ UNCHANGED <<pcb, puestos, reinicio, datos, espera, visto, usoLibre, desprotegida, desorden, cola>>
_close ==
  /\ tarea.en = "cerrar"
  /\ IF puntero[Quien]
     THEN /\ Hay
          /\ avisa' = [avisa EXCEPT ![Quien] = FALSE]
          /\ cola' = <<Evento("CLEAR", Quien, 0)>> \o cola
          /\ tarea' = Llamar("close")
     ELSE tarea' = Libre /\ UNCHANGED <<avisa, cola>>
  /\ UNCHANGED <<pcb, puestos, reinicio, datos, espera, visto, usoLibre, desprotegida, desorden>>

\* _fin()
_fin ==
  /\ tarea.en = "fin" /\ Hay
  /\ cola' = <<Evento("CLEAR", Quien, 0)>> \o cola
  /\ Tarea(En("descartar")) /\ UNCHANGED <<datos, visto>>

\* _error() touches the pcb that lwIP has freed.
_error ==
  /\ tarea.en = "error"
  /\ usoLibre' = [usoLibre EXCEPT ![Quien] = @ \/ puntero[Quien]]
  /\ puntero' = [puntero EXCEPT ![Quien] = FALSE]
  /\ tarea' = En("descartar")
  /\ UNCHANGED <<lwip, ranura, objeto, registrado, cerradas, indice, cola, espera, visto, desprotegida,
                 desorden>>

\* The discard callback of a client deletes it and its request.  The mutant
\* forgets the destructor's slot.
Descartar_SinRanura ==
  /\ tarea.en = "descartar"
  /\ IF registrado[Quien]
     THEN objeto' = [objeto EXCEPT ![Quien] = "borrado"] /\ UNCHANGED <<ranura, cerradas, indice>>
     ELSE UNCHANGED <<objeto, ranura, cerradas, indice>>
  /\ Tarea(Libre) /\ UNCHANGED <<puntero, registrado, cola, visto>>
Descartar ==
  /\ tarea.en = "descartar"
  /\ IF registrado[Quien]
     THEN objeto' = [objeto EXCEPT ![Quien] = "borrado"] /\ SoltarRanura(Quien)
     ELSE UNCHANGED <<objeto, ranura, cerradas, indice>>
  /\ Tarea(Libre) /\ UNCHANGED <<puntero, registrado, cola, visto>>

\* _remove_events_with_arg(): events of the client are dropped up to the first of
\* another one, which goes to the back and ends the sweep when it is met again.
\* The mutant sends it to the back once more.
De(e) == e.c = Quien /\ e.tipo # "ACCEPT"
Buscar ==
  /\ tarea.en = "buscar"
  /\ IF cola = <<>> THEN Tarea(Libre) /\ UNCHANGED cola
     ELSE IF De(Head(cola)) THEN cola' = Tail(cola) /\ Tarea(tarea)
     ELSE /\ cola' = Append(Tail(cola), Head(cola))
          /\ Tarea([En("barrer") EXCEPT !.primero = Head(cola)])
  /\ UNCHANGED <<datos, visto>>
Barrer_UnoDeMas ==
  /\ tarea.en = "barrer"
  /\ IF cola = <<>> THEN Tarea(Libre) /\ UNCHANGED cola
     ELSE /\ cola' = IF De(Head(cola)) THEN Tail(cola) ELSE Append(Tail(cola), Head(cola))
          /\ Tarea(IF Head(cola) = tarea.primero THEN Libre ELSE tarea)
  /\ UNCHANGED <<datos, visto>>
Barrer ==
  /\ tarea.en = "barrer"
  /\ IF cola = <<>> \/ Head(cola) = tarea.primero THEN Tarea(Libre) /\ UNCHANGED cola
     ELSE /\ cola' = IF De(Head(cola)) THEN Tail(cola) ELSE Append(Tail(cola), Head(cola))
          /\ Tarea(tarea)
  /\ UNCHANGED <<datos, visto>>

-----------------------------------------------------------------------------
PasoDeTarea ==
  \/ Tomar \/ Escribir \/ CerrarCliente \/ Volver \/ LeerRanura
  \/ _close \/ _fin \/ _error \/ Descartar \/ Buscar \/ Barrer

Next ==
  \/ \E c \in Clientes : \/ _accept(c) \/ Fin(c) \/ Reiniciar(c)
                         \/ \E t \in {"RECV", "SENT", "POLL"} : Avisar(c, t)
  \/ Desbloquear
  \/ EjecutarApi
  \/ PasoDeTarea

\* Both threads run; nothing makes a peer send, end or reset.
Spec == Init /\ [][Next]_vars /\ WF_vars(PasoDeTarea) /\ WF_vars(EjecutarApi) /\ WF_vars(Desbloquear)

-----------------------------------------------------------------------------
TypeOK ==
  /\ \A c \in Clientes : pcb[c] \in {"no", "abierta", "liberada"} /\ ranura[c] \in 0..Ranuras
  /\ \A s \in S : cerradas[s] \in 0..indice
  /\ Len(cola) <= ColaMax /\ Len(espera) <= 1
  /\ tarea.en \in {"libre", "manejar", "escrito", "leer", "api", "cerrar", "fin", "error", "descartar",
                   "buscar", "barrer"}

\* A slot is marked in use exactly while one client that is not deleted holds it
\* (AsyncTCP.cpp:820-840, in the hands of both threads): part of PcbVivo.
RanurasCuadran ==
  \A s \in S : LET duenos == {c \in Clientes : objeto[c] = "vivo" /\ ranura[c] = s}
               IN  Cardinality(duenos) = (IF cerradas[s] = 0 THEN 1 ELSE 0)

\* lwIP is never called with a pcb that it closed for the peer's FIN, as long as the
\* call has a slot and keeps it: the slot that the task read tells.  The client that
\* got none, the slot that FIN gave back between the two reads of a call, and the one
\* that another client took before the call ran are the three exceptions.
\* A reset does not free the slot, so that the calls made before its event is
\* handled do use the freed pcb.
PcbVivo ==
  /\ \A c \in Clientes : usoLibre[c] => reinicio[c] \/ desprotegida[c]
  /\ RanurasCuadran

\* No event is handled for a client that was deleted, and so none is discarded
\* twice, as long as nothing is posted in the middle of a sweep.
SinEventoTrasBorrar ==
  ~desorden /\ tarea.en \in {"manejar", "fin", "error"} => objeto[Quien] = "vivo"

\* The two threads wait for each other: the lwIP thread for room in the queue, the
\* task for the lwIP thread, or the task for room that only itself can make.
Atasco ==
  /\ ~Hay
  /\ tarea.en \in {"cerrar", "fin"} \/ (tarea.en = "api" /\ espera # <<>>)

\* A connection that its peer ended, or that was closed here, leaves no client
\* behind, unless the threads block each other or a sweep was overtaken.
CierreLibera ==
  \A c \in Clientes : pcb[c] = "liberada" ~> (objeto[c] = "borrado" \/ Atasco \/ desorden)

\* The sweep keeps the order of the queue ("so we can keep the order",
\* AsyncTCP.cpp:125): the events of a client are handled in the order in which they
\* were posted, as long as nothing is posted in the middle of a sweep.
OrdenDeEventos == [][~desorden => \A c \in Clientes : visto'[c] >= visto[c]]_vars
=============================================================================
