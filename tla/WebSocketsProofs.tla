-------------------------- MODULE WebSocketsProofs --------------------------
(***************************************************************************)
(* Proofs about the two ends of the WebSockets library, for every number of *)
(* slots and of connections, and every setting of the heartbeat.            *)
(***************************************************************************)
EXTENDS WebSocketsLib, SequenceTheorems, WellFoundedInduction, TLAPS

HiloType ==
  /\ corriendo \in BOOLEAN /\ ranura \in Ranuras /\ latido \in BOOLEAN
  /\ fase \in {"nuevos", "datos", "ping", "plazo", "fuera", "difundir", "cerrar", "cerrado"}
PulsoType ==
  /\ pongRecibido \in [Ranuras -> BOOLEAN]
  /\ edad \in [Ranuras -> 0..(PingIntervalo + 1)]
  /\ timeouts \in [Ranuras -> 0..(ModCuenta - 1)]
ParesType ==
  /\ red \in [Conexiones -> {"libre", "viva", "cortada"}] /\ cola \subseteq Conexiones
  /\ pedidos \in [Conexiones -> SUBSET Campos]
  /\ enviado \in [Conexiones -> {"nada", "tramas", "mal"}]
ClienteType ==
  /\ tcp \in [Ranuras -> Conexiones \cup {Nulo}]
  /\ status \in [Ranuras -> {"no", "cabecera", "conectado"}]
  /\ cab \in [Ranuras -> SUBSET Campos]
  /\ vista \in [Ranuras -> {"libre", "abierta", "mal"}]

\* What a slot or a connection starts with when they are put together.
Limpias ==
  /\ \A i \in Ranuras : tcp[i] = Nulo => cab[i] \subseteq Quedan
  /\ \A c \in Conexiones : (\A i \in Ranuras : tcp[i] # c) => pedidos[c] = {} /\ enviado[c] = "nada"
  /\ \A i \in Ranuras : status[i] = "conectado" => enviado[tcp[i]] = "tramas"

RanurasInv ==
  ParesType /\ ClienteType /\ UnaRanuraPorConexion /\ SesionesEnOrden /\ Limpias
ServidorInv == HiloType /\ PulsoType /\ RanurasInv

-----------------------------------------------------------------------------
LEMMA MinEsta == ASSUME NEW T, T \subseteq Nat, T # {} PROVE Min(T) \in T
<1>1. PICK x \in T : \A y \in T : <<y, x>> \notin OpToRel(<, Nat)
  BY NatLessThanWellFounded, WFMin
<1>2. \A y \in T : ~(y < x)
  BY <1>1 DEF OpToRel
<1>3. \A y \in T : x <= y
  BY <1>2
<1> QED  BY <1>3 DEF Min

LEMMA RanurasNat == NumRanuras \in Nat \ {0} /\ Ranuras \subseteq Nat /\ 0 \in Ranuras
BY RanurasAssumption DEF Ranuras

\* A step that leaves the connections and the slots as they are.
LEMMA Quieta ==
  ASSUME RanurasInv, UNCHANGED <<cliente, red, cola, pedidos, enviado>>
  PROVE  RanurasInv'
BY DEF RanurasInv, ParesType, ClienteType, UnaRanuraPorConexion, SesionesEnOrden, Limpias, cliente

\* Frames to and from a client in a session change nothing of it.
LEMMA EnSesion ==
  ASSUME RanurasInv, NEW i \in Ranuras, status[i] = "conectado"
  PROVE  /\ tcp[i] \in Conexiones
         /\ SendFrame(i) => UNCHANGED enviado
         /\ \A t : t \notin {"CONNECTED", "DISCONNECTED"} /\ Evento(i, t) => UNCHANGED vista
<1>1. tcp[i] \in Conexiones
  BY DEF RanurasInv, ClienteType, UnaRanuraPorConexion
<1>2. vista[i] = "abierta" /\ enviado[tcp[i]] = "tramas"
  BY DEF RanurasInv, SesionesEnOrden, Limpias
<1>3. SendFrame(i) => UNCHANGED enviado
  BY <1>1, <1>2 DEF SendFrame, RanurasInv, ParesType
<1>4. \A t : t \notin {"CONNECTED", "DISCONNECTED"} /\ Evento(i, t) => UNCHANGED vista
  BY <1>2 DEF Evento, RanurasInv, ClienteType
<1> QED  BY <1>1, <1>3, <1>4

\* What is closed: nothing, or one connection.
LEMMA LasCerradas ==
  ASSUME ParesType, NEW cs, Cerradas(cs)
  PROVE  \A c \in Conexiones :
           /\ red'[c] = IF c \in cs THEN "libre" ELSE red[c]
           /\ pedidos'[c] = IF c \in cs THEN {} ELSE pedidos[c]
           /\ enviado'[c] = IF c \in cs THEN "nada" ELSE enviado[c]
BY DEF Cerradas

LEMMA CerradasType == ASSUME ParesType, NEW cs, Cerradas(cs), cola' \subseteq Conexiones PROVE ParesType'
BY DEF Cerradas, ParesType

LEMMA Cierre ==
  ASSUME RanurasInv, NEW i \in Ranuras, NEW q \in SUBSET Quedan, Desconectar(i, q), UNCHANGED cola
  PROVE  RanurasInv'
<1>1. ParesType' /\ ParesType /\ ClienteType
  BY CerradasType DEF RanurasInv, ParesType, Desconectar
<1>2. ClienteType'
  BY <1>1 DEF ClienteType, Desconectar, Evento
<1>3. \A c \in Conexiones :
        /\ red'[c] = IF c = tcp[i] THEN "libre" ELSE red[c]
        /\ pedidos'[c] = IF c = tcp[i] THEN {} ELSE pedidos[c]
        /\ enviado'[c] = IF c = tcp[i] THEN "nada" ELSE enviado[c]
  BY <1>1, LasCerradas DEF Desconectar
<1>4. \A j \in Ranuras :
        /\ tcp'[j] = IF j = i THEN Nulo ELSE tcp[j]
        /\ status'[j] = IF j = i THEN "no" ELSE status[j]
        /\ (j = i => cab'[j] \subseteq Quedan) /\ (j # i => cab'[j] = cab[j])
        /\ vista'[j] = IF j = i THEN "libre" ELSE vista[j]
  BY <1>1 DEF Desconectar, Evento, ClienteType
<1>5. \A j \in Ranuras : j # i /\ tcp[j] # Nulo => tcp[j] # tcp[i] /\ tcp[j] \in Conexiones
  BY <1>1 DEF RanurasInv, UnaRanuraPorConexion, ClienteType
<1>6. UnaRanuraPorConexion'
  BY <1>3, <1>4, <1>5, RanurasAssumption DEF RanurasInv, UnaRanuraPorConexion, ParesType
<1>7. SesionesEnOrden'
  BY <1>3, <1>4, <1>5 DEF RanurasInv, SesionesEnOrden
<1>8. Limpias'
  BY <1>3, <1>4, <1>5 DEF RanurasInv, Limpias, UnaRanuraPorConexion
<1> QED  BY <1>1, <1>2, <1>6, <1>7, <1>8 DEF RanurasInv

\* A slot without a connection that is made anew.
LEMMA Renovada ==
  ASSUME RanurasInv, NEW i \in Ranuras, tcp[i] = Nulo, cab' = [cab EXCEPT ![i] = {}],
         UNCHANGED <<red, cola, pedidos, enviado, tcp, status, vista>>
  PROVE  RanurasInv'
<1>1. \A j \in Ranuras : cab'[j] = IF j = i THEN {} ELSE cab[j]
  BY DEF RanurasInv, ClienteType
<1>2. ParesType' /\ ClienteType' /\ UnaRanuraPorConexion'
  BY DEF RanurasInv, ParesType, ClienteType, UnaRanuraPorConexion
<1>3. SesionesEnOrden' /\ Limpias'
  BY <1>1 DEF RanurasInv, SesionesEnOrden, Limpias
<1> QED  BY <1>2, <1>3 DEF RanurasInv

-----------------------------------------------------------------------------
(* The steps of the slots and the connections.                             *)
LEMMA LaLibre ==
  ASSUME ClienteType
  PROVE  LET libres == {i \in Ranuras : ~ClientIsConnected(i)}
         IN  libres # {} => Min(libres) \in Ranuras /\ ~ClientIsConnected(Min(libres))
<1> DEFINE libres == {i \in Ranuras : ~ClientIsConnected(i)}
<1>1. libres \subseteq Nat
  BY RanurasNat
<1>2. libres # {} => Min(libres) \in libres
  BY <1>1, MinEsta
<1> QED  BY <1>2

LEMMA Nueva ==
  ASSUME RanurasInv, NEW c \in cola, newClient(c), cola' = cola \ {c}
  PROVE  RanurasInv'
<1>1. ParesType /\ ClienteType /\ c \in Conexiones /\ c # Nulo
  BY RanurasAssumption DEF RanurasInv, ParesType
<1>2. \A j \in Ranuras : tcp[j] # c
  BY DEF RanurasInv, UnaRanuraPorConexion
<1>3. pedidos[c] = {} /\ enviado[c] = "nada" /\ red[c] # "libre"
  BY <1>1, <1>2 DEF RanurasInv, Limpias, UnaRanuraPorConexion
<1> DEFINE libres == {i \in Ranuras : ~ClientIsConnected(i)}
<1>4. CASE libres = {}
  <2>1. Cerradas({c}) /\ UNCHANGED cliente
    BY <1>4 DEF newClient
  <2>2. ParesType'
    BY <1>1, <2>1, CerradasType DEF ParesType
  <2>3. \A d \in Conexiones :
          /\ red'[d] = IF d = c THEN "libre" ELSE red[d]
          /\ pedidos'[d] = pedidos[d] /\ enviado'[d] = enviado[d]
    BY <1>1, <1>3, <2>1, LasCerradas
  <2>4. UnaRanuraPorConexion'
    BY <1>1, <1>2, <2>1, <2>3 DEF RanurasInv, UnaRanuraPorConexion, cliente
  <2>5. SesionesEnOrden' /\ Limpias'
    BY <1>1, <2>1, <2>3 DEF RanurasInv, SesionesEnOrden, Limpias, ClienteType, cliente,
                           UnaRanuraPorConexion
  <2> QED  BY <1>1, <2>1, <2>2, <2>4, <2>5 DEF RanurasInv, ClienteType, cliente
<1>5. CASE libres # {}
  <2>1. PICK i \in Ranuras : i = Min(libres)
    BY <1>1, <1>5, LaLibre
  <2>2. /\ Cerradas({tcp[i]})
        /\ tcp' = [tcp EXCEPT ![i] = c] /\ status' = [status EXCEPT ![i] = "cabecera"]
        /\ IF tcp[i] # Nulo
           THEN cab' = [cab EXCEPT ![i] = @ \cap Quedan] /\ Evento(i, "DISCONNECTED")
           ELSE UNCHANGED <<cab, vista>>
    BY <1>5, <2>1 DEF newClient
  <2>3. tcp[i] = Nulo => cab[i] \subseteq Quedan /\ vista[i] = "libre"
    <3>1. tcp[i] = Nulo => status[i] = "no"
      BY DEF RanurasInv, UnaRanuraPorConexion
    <3> QED  BY <3>1 DEF RanurasInv, Limpias, SesionesEnOrden
  <2>4. \A j \in Ranuras :
          /\ tcp'[j] = IF j = i THEN c ELSE tcp[j]
          /\ status'[j] = IF j = i THEN "cabecera" ELSE status[j]
          /\ j = i => cab'[j] \subseteq Quedan
          /\ j # i => cab'[j] = cab[j]
          /\ vista'[j] = IF j = i THEN "libre" ELSE vista[j]
    BY <1>1, <2>2, <2>3 DEF ClienteType, Evento
  <2>5. \A d \in Conexiones :
          /\ red'[d] = IF d = tcp[i] THEN "libre" ELSE red[d]
          /\ pedidos'[d] = IF d = tcp[i] THEN {} ELSE pedidos[d]
          /\ enviado'[d] = IF d = tcp[i] THEN "nada" ELSE enviado[d]
    BY <1>1, <2>2, LasCerradas
  <2>6. \A j \in Ranuras : tcp[j] # Nulo /\ j # i => tcp[j] # tcp[i] /\ tcp[j] \in Conexiones
    BY <1>1 DEF RanurasInv, UnaRanuraPorConexion, ClienteType
  <2>7. ParesType'
    BY <1>1, <2>2, CerradasType DEF ParesType
  <2>8. ClienteType'
    BY <1>1, <2>2 DEF ClienteType, Evento
  <2>9. UnaRanuraPorConexion'
    <3>1. \A j, h \in Ranuras : tcp'[j] # Nulo /\ tcp'[j] = tcp'[h] => j = h
      BY <1>2, <2>4 DEF RanurasInv, UnaRanuraPorConexion
    <3>2. \A j \in Ranuras : tcp'[j] \notin cola' /\ (tcp'[j] = Nulo <=> status'[j] = "no")
      BY <1>1, <2>4 DEF RanurasInv, UnaRanuraPorConexion
    <3>3. ASSUME NEW d \in Conexiones
          PROVE  (red'[d] # "libre") <=> (d \in cola' \/ \E j \in Ranuras : tcp'[j] = d)
      <4>1. CASE d = c
        <5>1. d # tcp[i] /\ tcp'[i] = d
          BY <1>2, <2>4, <4>1
        <5> QED  BY <1>3, <2>5, <4>1, <5>1
      <4>2. CASE d # c /\ d = tcp[i]
        <5>1. red'[d] = "libre" /\ d \notin cola'
          BY <2>5, <4>2 DEF RanurasInv, UnaRanuraPorConexion
        <5>2. \A j \in Ranuras : tcp'[j] # d
          BY <1>1, <2>4, <2>6, <4>2, RanurasAssumption
        <5> QED  BY <5>1, <5>2
      <4>3. CASE d # c /\ d # tcp[i]
        <5>1. (\E j \in Ranuras : tcp'[j] = d) <=> (\E j \in Ranuras : tcp[j] = d)
          BY <2>4, <4>3
        <5> QED  BY <2>5, <4>3, <5>1 DEF RanurasInv, UnaRanuraPorConexion
      <4> QED  BY <4>1, <4>2, <4>3
    <3> QED  BY <3>1, <3>2, <3>3 DEF UnaRanuraPorConexion
  <2>10. SesionesEnOrden'
    <3>1. \A j \in Ranuras : tcp'[j] # Nulo =>
            pedidos'[tcp'[j]] \subseteq cab'[j] /\ cab'[j] \subseteq pedidos'[tcp'[j]] \cup Quedan
      <4>1. cab'[i] \subseteq Quedan /\ tcp'[i] = c /\ pedidos'[c] = {}
        BY <1>1, <1>3, <2>4, <2>5
      <4>2. ASSUME NEW j \in Ranuras, j # i, tcp'[j] # Nulo
            PROVE  pedidos'[tcp'[j]] \subseteq cab'[j] /\ cab'[j] \subseteq pedidos'[tcp'[j]] \cup Quedan
        <5>1. PICK d \in Conexiones : d = tcp[j] /\ d # tcp[i]
          BY <2>4, <2>6, <4>2
        <5>2. pedidos[d] \subseteq cab[j] /\ cab[j] \subseteq pedidos[d] \cup Quedan
          BY <2>4, <4>2, <5>1 DEF RanurasInv, SesionesEnOrden
        <5> QED  BY <2>4, <2>5, <4>2, <5>1, <5>2
      <4> QED  BY <4>1, <4>2
    <3> QED  BY <2>4, <2>5, <3>1 DEF RanurasInv, SesionesEnOrden
  <2>11. Limpias'
    <3>1. ASSUME NEW d \in Conexiones, \A j \in Ranuras : tcp'[j] # d
          PROVE  pedidos'[d] = {} /\ enviado'[d] = "nada"
      BY <2>4, <2>5, <3>1 DEF RanurasInv, Limpias
    <3>2. \A j \in Ranuras : tcp'[j] = Nulo => cab'[j] \subseteq Quedan
      BY <1>1, <2>4 DEF RanurasInv, Limpias
    <3>3. \A j \in Ranuras : status'[j] = "conectado" => enviado'[tcp'[j]] = "tramas"
      BY <2>4, <2>5, <2>6 DEF RanurasInv, Limpias, UnaRanuraPorConexion
    <3> QED  BY <3>1, <3>2, <3>3 DEF Limpias
  <2> QED  BY <2>7, <2>8, <2>9, <2>10, <2>11 DEF RanurasInv
<1> QED  BY <1>4, <1>5

LEMMA Cabecera ==
  ASSUME RanurasInv, HiloType, handleHeader
  PROVE  RanurasInv'
<1>1. PICK i \in Ranuras : i = ranura
  BY DEF HiloType
<1>2. PICK d : d = tcp[i]
  OBVIOUS
<1>3. PICK x \in SUBSET Campos : x = Fijan[Head(entrada[d])]
  BY <1>1, <1>2, GuionesAssumption DEF handleHeader, Llega
<1>4. d \in Conexiones /\ d # Nulo /\ \A j \in Ranuras : tcp[j] = d => j = i
  BY <1>1, <1>2, RanurasAssumption
     DEF handleHeader, Llega, ClientIsConnected, RanurasInv, ClienteType, UnaRanuraPorConexion
<1>5. /\ cab' = [cab EXCEPT ![i] = @ \cup x]
      /\ pedidos' = [pedidos EXCEPT ![d] = @ \cup x]
      /\ UNCHANGED <<red, cola, enviado, tcp, status, vista>>
  BY <1>1, <1>2, <1>3 DEF handleHeader
<1>6. ParesType' /\ ClienteType'
  BY <1>4, <1>5 DEF RanurasInv, ParesType, ClienteType
<1>7. UnaRanuraPorConexion'
  BY <1>5 DEF RanurasInv, UnaRanuraPorConexion
<1>8. pedidos[d] \subseteq cab[i] /\ cab[i] \subseteq pedidos[d] \cup Quedan
  BY <1>2, <1>4 DEF RanurasInv, SesionesEnOrden
<1>9. \A j \in Ranuras : tcp'[j] # Nulo =>
        pedidos'[tcp'[j]] \subseteq cab'[j] /\ cab'[j] \subseteq pedidos'[tcp'[j]] \cup Quedan
  BY <1>2, <1>4, <1>5, <1>8 DEF RanurasInv, SesionesEnOrden, ClienteType, ParesType
<1>10. SesionesEnOrden'
  BY <1>5, <1>9 DEF RanurasInv, SesionesEnOrden
<1>11. Limpias'
  BY <1>2, <1>4, <1>5 DEF RanurasInv, Limpias, ClienteType, ParesType
<1> QED  BY <1>6, <1>7, <1>10, <1>11 DEF RanurasInv

LEMMA Aceptada ==
  ASSUME RanurasInv, HiloType, Aceptar
  PROVE  RanurasInv'
<1>1. PICK i \in Ranuras : i = ranura
  BY DEF HiloType
<1>2. PICK d : d = tcp[i]
  OBVIOUS
<1>3. d \in Conexiones /\ d # Nulo /\ status[i] = "cabecera" /\ vista[i] = "libre"
  BY <1>1, <1>2, RanurasAssumption
     DEF Aceptar, Llega, ClientIsConnected, RanurasInv, ClienteType, SesionesEnOrden
<1>4. /\ status' = [status EXCEPT ![i] = "conectado"]
      /\ enviado' = [enviado EXCEPT ![d] = "tramas"]
      /\ vista' = [vista EXCEPT ![i] = "abierta"]
      /\ UNCHANGED <<red, cola, pedidos, tcp, cab>>
  BY <1>1, <1>2, <1>3 DEF Aceptar, Evento, RanurasInv, ClienteType
<1>5. ParesType' /\ ClienteType'
  BY <1>3, <1>4 DEF RanurasInv, ParesType, ClienteType
<1>6. UnaRanuraPorConexion'
  BY <1>3, <1>4 DEF RanurasInv, UnaRanuraPorConexion, ClienteType
<1>7. SesionesEnOrden'
  BY <1>3, <1>4 DEF RanurasInv, SesionesEnOrden, ClienteType, ParesType
<1>8. Limpias'
  BY <1>2, <1>3, <1>4 DEF RanurasInv, Limpias, ClienteType, ParesType
<1> QED  BY <1>5, <1>6, <1>7, <1>8 DEF RanurasInv

LEMMA Conectada ==
  ASSUME RanurasInv, NEW c \in Conexiones, NEW g, Conectar(c, g) \/ Cortar(c)
  PROVE  RanurasInv'
<1>1. /\ red' = [red EXCEPT ![c] = IF red[c] = "libre" THEN "viva" ELSE "cortada"]
      /\ cola' = IF red[c] = "libre" THEN cola \cup {c} ELSE cola
      /\ UNCHANGED <<pedidos, enviado, cliente>>
  BY DEF Conectar, Cortar
<1>2. ParesType'
  BY <1>1 DEF RanurasInv, ParesType
<1>3. ClienteType' /\ SesionesEnOrden' /\ Limpias'
  BY <1>1 DEF RanurasInv, ClienteType, SesionesEnOrden, Limpias, cliente
<1>4. \A d \in Conexiones :
        /\ red'[d] # "libre" <=> (red[d] # "libre" \/ d = c)
        /\ d \in cola' <=> (d \in cola \/ (d = c /\ red[c] = "libre"))
  BY <1>1 DEF RanurasInv, ParesType
<1>5. red[c] = "libre" => c \notin cola /\ \A i \in Ranuras : tcp[i] # c
  BY DEF RanurasInv, UnaRanuraPorConexion
<1>6. UnaRanuraPorConexion'
  <2>1. \A i \in Ranuras : tcp[i] \notin cola'
    BY <1>1, <1>5 DEF RanurasInv, UnaRanuraPorConexion
  <2>2. UNCHANGED <<tcp, status>>
    BY <1>1 DEF cliente
  <2> QED  BY <1>4, <2>1, <2>2 DEF RanurasInv, UnaRanuraPorConexion
<1> QED  BY <1>2, <1>3, <1>6 DEF RanurasInv

LEMMA Otra_vez ==
  ASSUME RanurasInv, begin
  PROVE  RanurasInv'
<1>1. ParesType /\ Cerradas(cola) /\ cola' = {} /\ UNCHANGED cliente
  BY DEF begin, RanurasInv
<1>2. ParesType' /\ ClienteType'
  BY <1>1, CerradasType DEF RanurasInv, ClienteType, cliente
<1>3. \A c \in Conexiones :
        /\ red'[c] = IF c \in cola THEN "libre" ELSE red[c]
        /\ pedidos'[c] = pedidos[c] /\ enviado'[c] = enviado[c]
  <2>1. \A c \in cola : pedidos[c] = {} /\ enviado[c] = "nada"
    BY DEF RanurasInv, ParesType, UnaRanuraPorConexion, Limpias
  <2> QED  BY <1>1, <2>1, LasCerradas
<1>4. UnaRanuraPorConexion'
  BY <1>1, <1>3 DEF RanurasInv, UnaRanuraPorConexion, cliente
<1>5. SesionesEnOrden' /\ Limpias'
  BY <1>1, <1>3 DEF RanurasInv, SesionesEnOrden, Limpias, ClienteType, cliente, UnaRanuraPorConexion
<1> QED  BY <1>2, <1>4, <1>5 DEF RanurasInv

LEMMA RanurasStep ==
  ASSUME ServidorInv, [Next]_vars
  PROVE  RanurasInv'
<1> USE DEF ServidorInv
<1>0. ranura \in Ranuras
  BY DEF HiloType
<1>1. CASE UNCHANGED vars
  BY <1>1, Quieta DEF vars, pares, cliente
<1>2. ASSUME NEW c \in Conexiones, handleNewClient(c) PROVE RanurasInv'
  BY <1>2, Nueva DEF handleNewClient
<1>3. CASE FinDeNuevos \/ SinDatos \/ broadcastTXT \/ close \/ \E dt \in {0, 1} : Volver(dt)
  BY <1>3, Quieta DEF FinDeNuevos, SinDatos, broadcastTXT, close, Volver, pares, cliente
<1>4. CASE Rechazar \/ CerrarPorTrama \/ \E i \in Ranuras : disconnect(i)
  BY <1>0, <1>4, Cierre DEF Rechazar, CerrarPorTrama, disconnect, ClientDisconnect
<1>5. CASE SinCliente \/ handleHBTimeout
  <2>1. UNCHANGED cola /\ (ClientDisconnect(ranura) \/ (Quieto /\ UNCHANGED enviado))
    BY <1>5 DEF SinCliente, handleHBTimeout
  <2>2. CASE ClientDisconnect(ranura)
    BY <1>0, <2>1, <2>2, Cierre DEF ClientDisconnect
  <2>3. CASE Quieto /\ UNCHANGED enviado
    BY <2>1, <2>3, Quieta DEF Quieto
  <2> QED  BY <2>1, <2>2, <2>3
<1>6. CASE DifundirA \/ \E entera \in BOOLEAN : handleHBPing(entera)
  <2>1. /\ UNCHANGED cola
        /\ \/ ClientDisconnect(ranura)
           \/ Quieto /\ (UNCHANGED enviado \/ (PuedeEnviar(ranura) /\ SendFrame(ranura)))
    BY <1>6 DEF DifundirA, handleHBPing
  <2>2. CASE ClientDisconnect(ranura)
    BY <1>0, <2>1, <2>2, Cierre DEF ClientDisconnect
  <2>3. CASE Quieto /\ (UNCHANGED enviado \/ (PuedeEnviar(ranura) /\ SendFrame(ranura)))
    <3>1. UNCHANGED enviado
      BY <1>0, <2>3, EnSesion DEF PuedeEnviar
    <3> QED  BY <2>1, <2>3, <3>1, Quieta DEF Quieto
  <2> QED  BY <2>1, <2>2, <2>3
<1>7. CASE Mensaje \/ RecibirPing \/ RecibirPong
  <2>1. /\ status[ranura] = "conectado" /\ UNCHANGED <<red, cola, pedidos, tcp, status, cab>>
        /\ UNCHANGED enviado \/ SendFrame(ranura)
        /\ \E t \in {"TEXT", "PING", "PONG"} : Evento(ranura, t)
    BY <1>7 DEF Mensaje, RecibirPing, RecibirPong
  <2>2. UNCHANGED <<vista, enviado>>
    BY <1>0, <2>1, EnSesion
  <2> QED  BY <2>1, <2>2, Quieta DEF cliente
<1>8. CASE handleHeader
  BY <1>8, Cabecera
<1>9. CASE Aceptar
  BY <1>9, Aceptada
<1>10. CASE begin
  BY <1>10, Otra_vez
<1>12. CASE CerrarRanura
  BY <1>0, <1>12, Cierre, Renovada DEF CerrarRanura
<1>11. ASSUME NEW c \in Conexiones, NEW g, Conectar(c, g) \/ Cortar(c) PROVE RanurasInv'
  BY <1>11, Conectada
<1> QED  BY <1>1, <1>2, <1>3, <1>4, <1>5, <1>6, <1>7, <1>8, <1>9, <1>10, <1>11, <1>12 DEF Next, Servir

-----------------------------------------------------------------------------
(* Where the thread is, and the heartbeat.                                 *)
LEMMA SiguienteType ==
  ASSUME HiloType, NEW f \in {"datos", "difundir", "cerrar"}, NEW fin \in {"fuera", "nuevos", "cerrado"},
         Siguiente(f, fin), UNCHANGED latido
  PROVE  HiloType'
<1>1. ranura \in Ranuras /\ (ranura # NumRanuras - 1 => ranura + 1 \in Ranuras) /\ 0 \in Ranuras
  BY RanurasAssumption DEF HiloType, Ranuras
<1>2. ranura' \in Ranuras
  BY <1>1 DEF Siguiente
<1> QED  BY <1>2 DEF HiloType, Siguiente

LEMMA HiloStep ==
  ASSUME ServidorInv, [Next]_vars
  PROVE  HiloType'
<1> USE DEF ServidorInv
<1>1. CASE SinCliente \/ handleHBTimeout \/ DifundirA \/ CerrarRanura
  BY <1>1, SiguienteType DEF SinCliente, handleHBTimeout, DifundirA, CerrarRanura
<1>2. CASE \/ FinDeNuevos \/ SinDatos \/ handleHeader \/ Aceptar \/ Rechazar \/ Mensaje \/ RecibirPing
           \/ RecibirPong \/ CerrarPorTrama \/ broadcastTXT
           \/ (\E entera \in BOOLEAN : handleHBPing(entera)) \/ \E dt \in {0, 1} : Volver(dt)
  <2>1. (\E f \in {"nuevos", "datos", "ping", "plazo", "difundir"} : Ir(f)) /\ UNCHANGED latido
    BY <1>2 DEF FinDeNuevos, SinDatos, handleHeader, Aceptar, Rechazar, Mensaje, RecibirPing, RecibirPong,
                CerrarPorTrama, broadcastTXT, handleHBPing, Volver, Llega
  <2> QED  BY <2>1 DEF Ir, HiloType
<1>3. CASE close \/ begin
  BY <1>3 DEF close, begin, HiloType
<1>4. CASE \/ UNCHANGED vars \/ (\E i \in Ranuras : disconnect(i))
           \/ (\E c \in Conexiones : handleNewClient(c) \/ Cortar(c) \/ \E g \in Guiones : Conectar(c, g))
  <2>1. UNCHANGED <<hilo, latido>>
    BY <1>4 DEF vars, disconnect, handleNewClient, Cortar, Conectar
  <2> QED  BY <2>1 DEF hilo, HiloType
<1> QED  BY <1>1, <1>2, <1>3, <1>4 DEF Next, Servir

LEMMA PulsoStep ==
  ASSUME ServidorInv, [Next]_vars
  PROVE  PulsoType'
<1> USE DEF ServidorInv
<1>0. ranura \in Ranuras /\ ModCuenta \in Nat \ {0} /\ PingIntervalo \in Nat
  BY LatidoAssumption DEF HiloType
<1>1. CASE UNCHANGED pulso
  BY <1>1 DEF pulso, PulsoType
<1>2. ASSUME NEW c \in Conexiones, handleNewClient(c) PROVE PulsoType'
  <2>1. ClienteType /\ newClient(c)
    BY <1>2 DEF RanurasInv, handleNewClient
  <2>2. CASE {i \in Ranuras : ~ClientIsConnected(i)} = {}
    BY <1>1, <2>1, <2>2 DEF newClient
  <2>3. CASE {i \in Ranuras : ~ClientIsConnected(i)} # {}
    <3>1. PICK i \in Ranuras : i = Min({j \in Ranuras : ~ClientIsConnected(j)})
      BY <2>1, <2>3, LaLibre
    <3>2. /\ pongRecibido' = [pongRecibido EXCEPT ![i] = FALSE] /\ edad' = [edad EXCEPT ![i] = 0]
          /\ UNCHANGED timeouts
      BY <2>1, <2>3, <3>1 DEF newClient
    <3> QED  BY <1>0, <3>2 DEF PulsoType
  <2> QED  BY <2>2, <2>3
<1>3. CASE RecibirPong
  BY <1>0, <1>3 DEF RecibirPong, PulsoType
<1>4. CASE \E entera \in BOOLEAN : handleHBPing(entera)
  <2>1. /\ UNCHANGED timeouts
        /\ \/ UNCHANGED <<edad, pongRecibido>>
           \/ /\ edad' = [edad EXCEPT ![ranura] = 0]
              /\ pongRecibido' = [pongRecibido EXCEPT ![ranura] = FALSE]
    BY <1>4 DEF handleHBPing, pulso
  <2>2. 0 \in 0..(PingIntervalo + 1)
    BY <1>0
  <2>3. edad' \in [Ranuras -> 0..(PingIntervalo + 1)]
    BY <1>0, <2>1, <2>2 DEF PulsoType
  <2>4. pongRecibido' \in [Ranuras -> BOOLEAN]
    BY <1>0, <2>1 DEF PulsoType
  <2> QED  BY <2>1, <2>3, <2>4 DEF PulsoType
<1>5. CASE handleHBTimeout
  <2>1. edad' \in [Ranuras -> 0..(PingIntervalo + 1)] /\ UNCHANGED pongRecibido
    BY <1>0, <1>5 DEF handleHBTimeout, PulsoType
  <2>2. timeouts[ranura] \in 0..(ModCuenta - 1) /\ (timeouts[ranura] + 1) % ModCuenta \in 0..(ModCuenta - 1)
    BY <1>0 DEF PulsoType
  <2>3. timeouts' \in [Ranuras -> 0..(ModCuenta - 1)]
    BY <1>0, <1>5, <2>2 DEF handleHBTimeout, PulsoType
  <2> QED  BY <2>1, <2>3 DEF PulsoType
<1>6. ASSUME NEW dt \in {0, 1}, Volver(dt) PROVE PulsoType'
  <2>1. \A n \in 0..(PingIntervalo + 1) : Min({n + dt, PingIntervalo + 1}) \in 0..(PingIntervalo + 1)
    <3>1. ASSUME NEW n \in 0..(PingIntervalo + 1)
          PROVE  Min({n + dt, PingIntervalo + 1}) \in 0..(PingIntervalo + 1)
      <4>1. {n + dt, PingIntervalo + 1} \subseteq Nat
        BY <1>0
      <4>2. Min({n + dt, PingIntervalo + 1}) \in {n + dt, PingIntervalo + 1}
        BY <4>1, MinEsta
      <4>3. Min({n + dt, PingIntervalo + 1}) <= PingIntervalo + 1
        BY <1>0 DEF Min
      <4> QED  BY <1>0, <4>2, <4>3
    <3> QED  BY <3>1
  <2>2. edad' \in [Ranuras -> 0..(PingIntervalo + 1)] /\ UNCHANGED <<pongRecibido, timeouts>>
    BY <1>6, <2>1 DEF Volver, PulsoType
  <2> QED  BY <2>2 DEF PulsoType
<1>7. CASE begin
  <2>1. PingIntervalo + 1 \in 0..(PingIntervalo + 1) /\ 0 \in 0..(ModCuenta - 1)
    BY <1>0
  <2> QED  BY <1>7, <2>1 DEF begin, PulsoType
<1> QED  BY <1>1, <1>2, <1>3, <1>4, <1>5, <1>6, <1>7
         DEF Next, Servir, vars, FinDeNuevos, SinCliente, SinDatos, handleHeader, Aceptar, Rechazar, Mensaje,
             RecibirPing, CerrarPorTrama, broadcastTXT, DifundirA, CerrarRanura, Cortar, Conectar, disconnect, close

LEMMA ServidorInvInit == Init => ServidorInv
<1> SUFFICES ASSUME Init PROVE ServidorInv
  OBVIOUS
<1>1. HiloType
  BY RanurasNat DEF Init, HiloType
<1>2. PingIntervalo + 1 \in 0..(PingIntervalo + 1) /\ 0 \in 0..(ModCuenta - 1)
  BY LatidoAssumption
<1>3. PulsoType
  BY <1>2 DEF Init, PulsoType
<1>4. ParesType /\ ClienteType /\ Limpias /\ SesionesEnOrden
  BY DEF Init, ParesType, ClienteType, Limpias, SesionesEnOrden
<1>5. UnaRanuraPorConexion
  BY RanurasAssumption DEF Init, UnaRanuraPorConexion
<1> QED  BY <1>1, <1>3, <1>4, <1>5 DEF ServidorInv, RanurasInv

LEMMA ServidorInvSiempre == Spec => []ServidorInv
<1>1. ServidorInv /\ [Next]_vars => ServidorInv'
  BY HiloStep, PulsoStep, RanurasStep DEF ServidorInv
<1> QED  BY <1>1, ServidorInvInit, PTL DEF Spec

\* The types of the server.
THEOREM TypeCorrect == Spec => []TypeOK
<1>1. ServidorInv => TypeOK
  BY DEF ServidorInv, HiloType, PulsoType, RanurasInv, ParesType, ClienteType, UnaRanuraPorConexion, TypeOK
<1> QED  BY <1>1, ServidorInvSiempre, PTL

\* No connection of the server is leaked, shared between two slots or kept by a slot
\* after it was deleted.
THEOREM UnaRanuraPorConexionCorrect == Spec => []UnaRanuraPorConexion
<1>1. ServidorInv => UnaRanuraPorConexion
  BY DEF ServidorInv, RanurasInv
<1> QED  BY <1>1, ServidorInvSiempre, PTL

\* The sketch is told of the sessions in order, each opened by the header of its own
\* connection.
THEOREM SesionesEnOrdenCorrect == Spec => []SesionesEnOrden
<1>1. ServidorInv => SesionesEnOrden
  BY DEF ServidorInv, RanurasInv
<1> QED  BY <1>1, ServidorInvSiempre, PTL

-----------------------------------------------------------------------------
(* The client.  While it has no connection, the last failure was not before the *)
(* last attempt, so that the interval between two attempts has gone by.         *)
Clientes ==
  [tcp : {"nulo", "abierto", "cerrado"}, status : {"no", "cabecera", "cuerpo", "conectado"},
   codigo : {"", "101", "200", "400"}, upgrade : BOOLEAN, websocket : BOOLEAN,
   accept : {"", "suya", "otra"}, sid : {"", "suya", "vieja"}, fallo : 0..Reconexion, cabecera : Int,
   ping : Int, pong : BOOLEAN, timeouts : 0..(ModCuenta - 1),
   evento : {"DISCONNECTED", "CONNECTED", "mal"}, intento : 0..Reconexion, prisa : BOOLEAN]

EnOrden(c) ==
  /\ ~c.prisa
  /\ c.status = "conectado" <=> c.evento = "CONNECTED"
  /\ c.status = "conectado" => c.accept = "suya"
  /\ c.tcp = "nulo" => c.status = "no" /\ c.fallo <= c.intento
Ordenados == {c \in Clientes : EnOrden(c)}

LEMMA Ajustes ==
  /\ Reconexion \in Nat \ {0} /\ PingCliente \in Nat /\ PongCliente \in Nat
  /\ ModCuenta \in Nat \ {0} /\ PlazoCabecera \in Nat
BY ClienteAssumption DEF Cli!ClienteAssumption

LEMMA Ordenado ==
  ASSUME NEW c
  PROVE  c \in Ordenados <=> c \in Clientes /\ EnOrden(c)
BY DEF Ordenados

LEMMA DeCliente ==
  ASSUME NEW c \in Clientes
  PROVE  /\ c.tcp \in {"nulo", "abierto", "cerrado"}
         /\ c.status \in {"no", "cabecera", "cuerpo", "conectado"}
         /\ c.evento \in {"DISCONNECTED", "CONNECTED", "mal"} /\ c.accept \in {"", "suya", "otra"}
         /\ c.sid \in {"", "suya", "vieja"} /\ c.codigo \in {"", "101", "200", "400"}
         /\ c.upgrade \in BOOLEAN /\ c.websocket \in BOOLEAN /\ c.pong \in BOOLEAN /\ c.prisa \in BOOLEAN
         /\ c.fallo \in 0..Reconexion /\ c.intento \in 0..Reconexion
         /\ c.cabecera \in Int /\ c.ping \in Int /\ c.timeouts \in 0..(ModCuenta - 1)
BY DEF Clientes

LEMMA CliDesconectar ==
  ASSUME NEW c \in Ordenados
  PROVE  /\ Cli!Desconectar(c) \in Ordenados /\ Cli!Desconectar(c).tcp = "nulo"
         /\ Cli!Desconectar(c).fallo = 0 /\ Cli!Desconectar(c).status = "no"
         /\ ~Cli!Desconectar(c).upgrade
<1>1. c \in Clientes /\ EnOrden(c) /\ 0 \in 0..Reconexion
  BY Ajustes DEF Ordenados
<1>2. PICK e \in {"DISCONNECTED", "CONNECTED", "mal"} :
        e = IF c.tcp = "nulo" THEN c.evento ELSE "DISCONNECTED"
  BY <1>1 DEF Clientes
<1>3. e # "CONNECTED"
  BY <1>1, <1>2 DEF EnOrden
<1>4. PICK d : d = [c EXCEPT !.tcp = "nulo", !.status = "no", !.codigo = "", !.upgrade = FALSE,
                            !.websocket = FALSE, !.accept = "", !.sid = "", !.fallo = 0, !.evento = e]
  OBVIOUS
<1>a. d = Cli!Desconectar(c)
  BY <1>2, <1>4 DEF Cli!Desconectar
<1>b. d \in Clientes
  BY <1>1, <1>4 DEF Clientes
<1>5. /\ d.tcp = "nulo" /\ d.status = "no" /\ d.fallo = 0 /\ ~d.upgrade /\ d.evento = e
      /\ d.prisa = c.prisa /\ d.intento = c.intento
  BY <1>1, <1>4 DEF Clientes
<1>6. d.intento \in Nat /\ 0 <= d.intento
  <2>1. d.intento \in 0..Reconexion
    BY <1>b, DeCliente
  <2> QED  BY <2>1, Ajustes
<1> QED  BY <1>1, <1>3, <1>a, <1>b, <1>5, <1>6, Ordenado DEF EnOrden

LEMMA CliSendHeader ==
  ASSUME NEW c \in Ordenados, c.status # "conectado"
  PROVE  Cli!SendHeader(c) \in Ordenados
<1>1. c \in Clientes /\ EnOrden(c)
  BY DEF Ordenados
<1>n. PICK n \in Int : n = Cli!Ahora
  BY SMT DEF Cli!Ahora
<1>a. PICK a \in {"", "suya", "otra"} : a = IF c.accept = "" THEN "" ELSE "otra"
  OBVIOUS
<1>b. PICK d : d = [c EXCEPT !.cabecera = n, !.accept = a]
  OBVIOUS
<1>2. d = Cli!SendHeader(c) /\ d \in Clientes
  <2>1. d = Cli!SendHeader(c)
    BY <1>n, <1>a, <1>b DEF Cli!SendHeader
  <2> QED  BY <1>1, <1>b, <2>1 DEF Clientes
<1>3. /\ d.tcp = c.tcp /\ d.status = c.status /\ d.fallo = c.fallo /\ d.evento = c.evento
      /\ d.prisa = c.prisa /\ d.intento = c.intento
  BY <1>1, <1>b DEF Clientes
<1> QED  BY <1>1, <1>2, <1>3, Ordenado DEF EnOrden

\* A change of what the order does not depend on.
LEMMA Retoque ==
  ASSUME NEW c \in Ordenados, NEW d \in Clientes,
         d.tcp = c.tcp, d.status = c.status, d.fallo = c.fallo, d.evento = c.evento,
         d.prisa = c.prisa, d.intento = c.intento, d.accept = c.accept \/ c.status # "conectado"
  PROVE  d \in Ordenados
BY Ordenado DEF EnOrden

LEMMA CliLinea ==
  ASSUME NEW c \in Ordenados, c.status # "conectado",
         NEW l \in {"101", "200", "400", "conexion", "upgrade", "accept", "ajena", "cookie"}
  PROVE  Cli!Linea(c, l) \in Ordenados
<1>1. c \in Clientes
  BY Ordenado
<1>2. CASE l \in {"101", "200", "400"}
  <2>1. PICK d : d = [c EXCEPT !.codigo = l]
    OBVIOUS
  <2>2. d = Cli!Linea(c, l)
    BY <1>2, <2>1 DEF Cli!Linea
  <2>3. d \in Clientes
    BY <1>1, <1>2, <2>1 DEF Clientes
  <2>4. /\ d.tcp = c.tcp /\ d.status = c.status /\ d.fallo = c.fallo /\ d.evento = c.evento
        /\ d.prisa = c.prisa /\ d.intento = c.intento
    BY <1>1, <2>1 DEF Clientes
  <2> QED  BY <2>2, <2>3, <2>4, Retoque
<1>3. CASE l = "conexion"
  <2>1. PICK d : d = [c EXCEPT !.upgrade = TRUE]
    OBVIOUS
  <2>2. d = Cli!Linea(c, l)
    BY <1>3, <2>1 DEF Cli!Linea
  <2>3. d \in Clientes
    BY <1>1, <2>1 DEF Clientes
  <2>4. /\ d.tcp = c.tcp /\ d.status = c.status /\ d.fallo = c.fallo /\ d.evento = c.evento
        /\ d.prisa = c.prisa /\ d.intento = c.intento
    BY <1>1, <2>1 DEF Clientes
  <2> QED  BY <2>2, <2>3, <2>4, Retoque
<1>4. CASE l = "upgrade"
  <2>1. PICK d : d = [c EXCEPT !.websocket = TRUE]
    OBVIOUS
  <2>2. d = Cli!Linea(c, l)
    BY <1>4, <2>1 DEF Cli!Linea
  <2>3. d \in Clientes
    BY <1>1, <2>1 DEF Clientes
  <2>4. /\ d.tcp = c.tcp /\ d.status = c.status /\ d.fallo = c.fallo /\ d.evento = c.evento
        /\ d.prisa = c.prisa /\ d.intento = c.intento
    BY <1>1, <2>1 DEF Clientes
  <2> QED  BY <2>2, <2>3, <2>4, Retoque
<1>5. CASE l \in {"accept", "ajena"}
  <2>0. PICK a \in {"suya", "otra"} : a = IF l = "accept" THEN "suya" ELSE "otra"
    OBVIOUS
  <2>1. PICK d : d = [c EXCEPT !.accept = a]
    OBVIOUS
  <2>2. d = Cli!Linea(c, l)
    BY <1>5, <2>0, <2>1 DEF Cli!Linea
  <2>3. d \in Clientes
    BY <1>1, <2>1 DEF Clientes
  <2>4. /\ d.tcp = c.tcp /\ d.status = c.status /\ d.fallo = c.fallo /\ d.evento = c.evento
        /\ d.prisa = c.prisa /\ d.intento = c.intento
    BY <1>1, <2>1 DEF Clientes
  <2> QED  BY <2>2, <2>3, <2>4, Retoque
<1>6. CASE l = "cookie"
  <2>0. PICK s \in {"suya", "vieja"} : s = IF redCl = "buena" THEN "suya" ELSE "vieja"
    OBVIOUS
  <2>1. PICK d : d = [c EXCEPT !.sid = s]
    OBVIOUS
  <2>2. d = Cli!Linea(c, l)
    BY <1>6, <2>0, <2>1 DEF Cli!Linea
  <2>3. d \in Clientes
    BY <1>1, <2>1 DEF Clientes
  <2>4. /\ d.tcp = c.tcp /\ d.status = c.status /\ d.fallo = c.fallo /\ d.evento = c.evento
        /\ d.prisa = c.prisa /\ d.intento = c.intento
    BY <1>1, <2>1 DEF Clientes
  <2> QED  BY <2>2, <2>3, <2>4, Retoque
<1> QED  BY <1>2, <1>3, <1>4, <1>5, <1>6

\* The end of a header or of a body: a session begins once, over a connection.
LEMMA CliFinDeCabecera ==
  ASSUME NEW c0 \in Ordenados, c0.status # "conectado", c0.tcp = "abierto"
  PROVE  Cli!FinDeCabecera(c0) \in Ordenados
<1>0. c0 \in Clientes /\ EnOrden(c0) /\ c0.evento # "CONNECTED"
  BY Ordenado DEF EnOrden
<1>1. PICK c : c = [c0 EXCEPT !.status = "cabecera"]
  OBVIOUS
<1>2. /\ c \in Clientes /\ c.tcp = "abierto" /\ c.status = "cabecera" /\ c.evento # "CONNECTED"
      /\ c.prisa = c0.prisa
  BY <1>0, <1>1 DEF Clientes
<1>3. c \in Ordenados
  BY <1>0, <1>2, Ordenado DEF EnOrden
<1>4. PICK d : d = IF Cli!Vale(c) /\ ~Cli!Acepta(c) THEN Cli!Desconectar(c) ELSE c
  OBVIOUS
<1>5. /\ d \in Ordenados /\ d.status # "conectado"
      /\ d.upgrade => d = c
  BY <1>2, <1>3, <1>4, CliDesconectar
<1>6. CASE socketIO /\ c0.sid = "" /\ Cli!Conectado(c0)
  <2>1. PICK e : e = [c0 EXCEPT !.status = "cuerpo"]
    OBVIOUS
  <2>2. /\ e \in Clientes /\ e.tcp = "abierto" /\ e.status = "cuerpo" /\ e.evento # "CONNECTED"
        /\ e.prisa = c0.prisa
    BY <1>0, <2>1 DEF Clientes
  <2>3. e \in Ordenados
    BY <1>0, <2>2, Ordenado DEF EnOrden
  <2> QED  BY <1>6, <2>1, <2>3 DEF Cli!FinDeCabecera
<1>7. CASE ~(socketIO /\ c0.sid = "" /\ Cli!Conectado(c0)) /\ Cli!Vale(d) /\ d.accept = "suya"
  <2>1. d = c /\ d \in Clientes
    BY <1>5, <1>7, Ordenado DEF Cli!Vale
  <2>2. PICK e : e = [d EXCEPT !.status = "conectado", !.evento = "CONNECTED"]
    OBVIOUS
  <2>3. e = Cli!FinDeCabecera(c0)
    BY <1>1, <1>2, <1>4, <1>7, <2>1, <2>2 DEF Cli!FinDeCabecera
  <2>4. /\ e \in Clientes /\ e.tcp = "abierto" /\ e.status = "conectado" /\ e.evento = "CONNECTED"
        /\ e.prisa = d.prisa /\ e.accept = "suya"
    BY <1>2, <1>7, <2>1, <2>2 DEF Clientes
  <2> QED  BY <1>5, <2>3, <2>4, Ordenado DEF EnOrden
<1>8. CASE ~(socketIO /\ c0.sid = "" /\ Cli!Conectado(c0)) /\ ~(Cli!Vale(d) /\ d.accept = "suya")
  <2>1. Cli!FinDeCabecera(c0) \in {Cli!Desconectar(d), Cli!SendHeader(d), d}
    BY <1>1, <1>4, <1>8 DEF Cli!FinDeCabecera
  <2> QED  BY <1>5, <2>1, CliDesconectar, CliSendHeader
<1> QED  BY <1>6, <1>7, <1>8

LEMMA CliHandleHeader ==
  ASSUME NEW c \in Ordenados, c.status # "conectado", c.tcp = "abierto", NEW l \in Cli!Lineas
  PROVE  Cli!handleHeader(c, l) \in Ordenados
<1>1. CASE l = "fin"
  BY <1>1, CliFinDeCabecera DEF Cli!handleHeader
<1>2. CASE l = "sid"
  <2>0. c \in Clientes
    BY Ordenado
  <2>1. PICK s \in {"suya", "vieja"} : s = IF redCl = "buena" THEN "suya" ELSE "vieja"
    OBVIOUS
  <2>2. PICK d : d = [c EXCEPT !.sid = s]
    OBVIOUS
  <2>3. /\ d \in Clientes /\ d.tcp = c.tcp /\ d.status = c.status /\ d.fallo = c.fallo
        /\ d.evento = c.evento /\ d.prisa = c.prisa /\ d.intento = c.intento
    BY <2>0, <2>2 DEF Clientes
  <2>4. Cli!FinDeCabecera(d) \in Ordenados
    BY <2>3, Retoque, CliFinDeCabecera
  <2>5. Cli!handleHeader(c, l) \in {Cli!FinDeCabecera(d), c}
    BY <1>2, <2>1, <2>2 DEF Cli!handleHeader
  <2> QED  BY <2>4, <2>5
<1>3. CASE l \notin {"fin", "sid"}
  BY <1>3, CliLinea DEF Cli!handleHeader, Cli!Lineas
<1> QED  BY <1>1, <1>2, <1>3

LEMMA CliTrama ==
  ASSUME NEW c \in Ordenados, NEW f
  PROVE  Cli!Trama(c, f) \in Ordenados
<1>1. c \in Clientes
  BY Ordenado
<1>2. PICK d : d = [c EXCEPT !.pong = TRUE]
  OBVIOUS
<1>3. /\ d \in Clientes /\ d.tcp = c.tcp /\ d.status = c.status /\ d.fallo = c.fallo /\ d.accept = c.accept
      /\ d.evento = c.evento /\ d.prisa = c.prisa /\ d.intento = c.intento
  BY <1>1, <1>2 DEF Clientes
<1>4. d \in Ordenados
  BY <1>3, Retoque
<1>5. Cli!Trama(c, f) \in {d, Cli!Desconectar(c), c}
  BY <1>2 DEF Cli!Trama
<1> QED  BY <1>4, <1>5, CliDesconectar

LEMMA CliHandleClientData ==
  ASSUME NEW c \in Ordenados, Cli!Conectado(c), NEW x \in Cli!Lineas \cup {"nada", "pong", "trama", "cierre"},
         c.status # "conectado" => x \in {"nada"} \cup Cli!Lineas
  PROVE  Cli!handleClientData(c, x) \in Ordenados
BY CliDesconectar, CliTrama, CliHandleHeader DEF Cli!handleClientData, Cli!Conectado

LEMMA CliHandleHBPing ==
  ASSUME NEW c \in Ordenados, NEW entera \in BOOLEAN
  PROVE  Cli!handleHBPing(c, entera) \in Ordenados
<1>1. c \in Clientes
  BY Ordenado
<1>0. PICK z \in Int : z = 0
  OBVIOUS
<1>2. PICK d : d = [c EXCEPT !.ping = z, !.pong = FALSE]
  OBVIOUS
<1>3. /\ d \in Clientes /\ d.tcp = c.tcp /\ d.status = c.status /\ d.fallo = c.fallo /\ d.accept = c.accept
      /\ d.evento = c.evento /\ d.prisa = c.prisa /\ d.intento = c.intento
  BY <1>1, <1>2 DEF Clientes
<1>4. d \in Ordenados
  BY <1>3, Retoque
<1>5. Cli!handleHBPing(c, entera) \in {d, Cli!Desconectar(c), c}
  BY <1>0, <1>2 DEF Cli!handleHBPing
<1> QED  BY <1>4, <1>5, CliDesconectar

LEMMA CliHandleHBTimeout ==
  ASSUME NEW c \in Ordenados
  PROVE  Cli!handleHBTimeout(c) \in Ordenados
<1>1. c \in Clientes
  BY Ordenado
<1>2. PICK n \in 0..(ModCuenta - 1) : n = (c.timeouts + 1) % ModCuenta
  <2>1. c.timeouts \in 0..(ModCuenta - 1)
    BY <1>1, DeCliente
  <2> QED  BY <2>1, Ajustes
<1>3. PICK p \in Int : p = PingCliente + 1
  BY Ajustes
<1>4. 0 \in 0..(ModCuenta - 1)
  BY Ajustes
<1>5. PICK d : d = [c EXCEPT !.timeouts = n, !.ping = p]
  OBVIOUS
<1>6. PICK e : e = [c EXCEPT !.timeouts = 0]
  OBVIOUS
<1>7. /\ d \in Clientes /\ d.tcp = c.tcp /\ d.status = c.status /\ d.fallo = c.fallo /\ d.accept = c.accept
      /\ d.evento = c.evento /\ d.prisa = c.prisa /\ d.intento = c.intento
  BY <1>1, <1>5 DEF Clientes
<1>8. /\ e \in Clientes /\ e.tcp = c.tcp /\ e.status = c.status /\ e.fallo = c.fallo /\ e.accept = c.accept
      /\ e.evento = c.evento /\ e.prisa = c.prisa /\ e.intento = c.intento
  BY <1>1, <1>4, <1>6 DEF Clientes
<1>9. d \in Ordenados /\ e \in Ordenados
  BY <1>7, <1>8, Retoque
<1>10. Cli!handleHBTimeout(c) \in {e, c, Cli!Desconectar(d), d}
  BY <1>2, <1>3, <1>5, <1>6 DEF Cli!handleHBTimeout
<1> QED  BY <1>9, <1>10, CliDesconectar

\* Two attempts are never closer than the interval.
LEMMA CliIntento ==
  ASSUME NEW c \in Ordenados, c.tcp = "nulo", ~(c.fallo < Reconexion), NEW abierto \in BOOLEAN
  PROVE  Cli!Intento(c, abierto) \in Ordenados
<1>1. c \in Clientes /\ EnOrden(c)
  BY Ordenado
<1>2. ~(c.intento < Reconexion) /\ 0 \in 0..Reconexion /\ Reconexion \in 0..Reconexion
  <2>1. c.intento \in 0..Reconexion /\ c.fallo \in 0..Reconexion
    BY <1>1, DeCliente
  <2>2. c.fallo <= c.intento
    BY <1>1 DEF EnOrden
  <2> QED  BY <2>1, <2>2, Ajustes
<1>3. CASE abierto
  <2>1. PICK d : d = [c EXCEPT !.intento = 0, !.prisa = FALSE, !.tcp = "abierto", !.status = "cabecera",
                               !.fallo = Reconexion]
    OBVIOUS
  <2>2. /\ d \in Clientes /\ d.tcp = "abierto" /\ d.status = "cabecera" /\ ~d.prisa /\ d.evento = c.evento
    BY <1>1, <1>2, <2>1 DEF Clientes
  <2>3. d \in Ordenados
    BY <1>1, <2>2, Ordenado DEF EnOrden
  <2>4. Cli!Intento(c, abierto) = Cli!SendHeader(d)
    <3>1. (c.prisa \/ c.intento < Reconexion) = FALSE
      BY <1>1, <1>2 DEF EnOrden
    <3> QED  BY <1>3, <2>1, <3>1 DEF Cli!Intento
  <2> QED  BY <2>2, <2>3, <2>4, CliSendHeader
<1>4. CASE ~abierto
  <2>1. PICK d : d = [c EXCEPT !.intento = 0, !.prisa = FALSE, !.tcp = "cerrado", !.fallo = 0]
    OBVIOUS
  <2>2. /\ d \in Clientes /\ d.tcp = "cerrado" /\ d.status = c.status /\ ~d.prisa /\ d.evento = c.evento
        /\ d.accept = c.accept
    BY <1>1, <1>2, <2>1 DEF Clientes
  <2>3. d \in Ordenados
    BY <1>1, <2>2, Ordenado DEF EnOrden
  <2>4. Cli!Intento(c, abierto) = d
    <3>1. (c.prisa \/ c.intento < Reconexion) = FALSE
      BY <1>1, <1>2 DEF EnOrden
    <3> QED  BY <1>4, <2>1, <3>1 DEF Cli!Intento
  <2> QED  BY <2>3, <2>4
<1> QED  BY <1>3, <1>4

\* Time goes by for both ages alike.
LEMMA CliPasa ==
  ASSUME NEW c \in Ordenados, NEW dt \in {0, 1}
  PROVE  Cli!Pasa(c, dt) \in Ordenados
<1>1. c \in Clientes /\ EnOrden(c)
  BY Ordenado
<1>2. /\ c.fallo \in 0..Reconexion /\ c.intento \in 0..Reconexion /\ c.cabecera \in Int /\ c.ping \in Int
  BY <1>1, DeCliente
<1>3. PICK f \in 0..Reconexion, i \in 0..Reconexion :
        /\ f = Cli!Hasta(c.fallo + dt, Reconexion) /\ i = Cli!Hasta(c.intento + dt, Reconexion)
        /\ c.fallo <= c.intento => f <= i
  BY <1>2, Ajustes DEF Cli!Hasta
<1>4. PICK h \in Int : h = IF c.cabecera = Cli!Ahora THEN dt ELSE Cli!Hasta(c.cabecera + dt, PlazoCabecera + 1)
  BY <1>2, Ajustes DEF Cli!Hasta
<1>5. PICK p \in Int : p = Cli!Hasta(c.ping + dt, PingCliente + 1)
  BY <1>2, Ajustes DEF Cli!Hasta
<1>6. PICK d : d = [c EXCEPT !.fallo = f, !.intento = i, !.cabecera = h, !.ping = p]
  OBVIOUS
<1>7. d = Cli!Pasa(c, dt)
  BY <1>3, <1>4, <1>5, <1>6 DEF Cli!Pasa
<1>8. /\ d \in Clientes /\ d.tcp = c.tcp /\ d.status = c.status /\ d.accept = c.accept
      /\ d.evento = c.evento /\ d.prisa = c.prisa /\ d.fallo = f /\ d.intento = i
  BY <1>1, <1>6 DEF Clientes
<1> QED  BY <1>1, <1>3, <1>7, <1>8, Ordenado DEF EnOrden

LEMMA CliStep ==
  ASSUME k \in Ordenados, [Cli!ClNext]_(Cli!clvars)
  PROVE  k' \in Ordenados
<1>1. ASSUME NEW abierto \in BOOLEAN, NEW dt \in {0, 1}, Cli!Reconectar(abierto, dt)
      PROVE  k' \in Ordenados
  <2>1. PICK c : c = Cli!Comprobado(k)
    OBVIOUS
  <2>2. c \in Ordenados /\ c.tcp = "nulo"
    BY <1>1, <2>1, CliDesconectar DEF Cli!Comprobado, Cli!Reconectar
  <2>3. PICK d : d = IF c.fallo < Reconexion THEN c ELSE Cli!Intento(c, abierto)
    OBVIOUS
  <2>4. d \in Ordenados
    BY <2>2, <2>3, CliIntento
  <2>5. k' = Cli!Pasa(d, dt)
    BY <1>1, <2>1, <2>3 DEF Cli!Reconectar
  <2> QED  BY <2>4, <2>5, CliPasa
<1>2. ASSUME NEW x \in Cli!Entradas, NEW entera \in BOOLEAN, NEW dt \in {0, 1}, Cli!Servir(x, entera, dt)
      PROVE  k' \in Ordenados
  <2>0. Cli!Conectado(k)
    BY <1>2 DEF Cli!Servir
  <2>1. PICK c : c = Cli!handleClientData(k, x)
    OBVIOUS
  <2>2. c \in Ordenados
    <3>1. /\ x \in Cli!Lineas \cup {"nada", "pong", "trama", "cierre"}
          /\ k.status # "conectado" => x \in {"nada"} \cup Cli!Lineas
      BY <1>2 DEF Cli!Entradas
    <3> QED  BY <2>0, <2>1, <3>1, CliHandleClientData
  <2>3. PICK d : d = IF c.status = "conectado" THEN Cli!handleHBTimeout(Cli!handleHBPing(c, entera)) ELSE c
    OBVIOUS
  <2>4. d \in Ordenados
    BY <2>2, <2>3, CliHandleHBPing, CliHandleHBTimeout
  <2>5. k' = Cli!Pasa(d, dt)
    BY <1>2, <2>1, <2>3 DEF Cli!Servir
  <2> QED  BY <2>4, <2>5, CliPasa
<1>3. CASE Cli!disconnect
  BY <1>3, CliDesconectar DEF Cli!disconnect, Cli!Comprobado
<1>4. CASE Cli!Cortar
  <2>0. k \in Clientes
    BY Ordenado
  <2>1. PICK d : d = [k EXCEPT !.tcp = "cerrado"]
    OBVIOUS
  <2>2. /\ d \in Clientes /\ d.tcp = "cerrado" /\ d.status = k.status /\ d.accept = k.accept
        /\ d.evento = k.evento /\ d.prisa = k.prisa
    BY <2>0, <2>1 DEF Clientes
  <2>3. k' = d
    BY <1>4, <2>1 DEF Cli!Cortar
  <2> QED  BY <2>2, <2>3, Ordenado DEF EnOrden
<1>5. CASE Cli!Mejorar \/ UNCHANGED Cli!clvars
  BY <1>5 DEF Cli!Mejorar, Cli!clvars
<1> QED  BY <1>1, <1>2, <1>3, <1>4, <1>5 DEF Cli!ClNext, Cli!Loop

LEMMA CliInit == Cli!ClInit => k \in Ordenados
<1> SUFFICES ASSUME Cli!ClInit PROVE k \in Ordenados
  OBVIOUS
<1>1. PICK p \in Int : p = PingCliente + 1
  BY Ajustes
<1>2. 0 \in 0..Reconexion /\ Reconexion \in 0..Reconexion /\ 0 \in 0..(ModCuenta - 1)
  BY Ajustes
<1>3. k \in Clientes
  <2>1. PICK z, r \in 0..Reconexion, n \in 0..(ModCuenta - 1), h \in Int : z = 0 /\ r = Reconexion /\ n = 0 /\ h = 0
    BY <1>2
  <2>2. k = [tcp |-> "nulo", status |-> "no", codigo |-> "", upgrade |-> FALSE, websocket |-> TRUE,
             accept |-> "", sid |-> "", fallo |-> z, cabecera |-> h, ping |-> p, pong |-> FALSE,
             timeouts |-> n, evento |-> "DISCONNECTED", intento |-> r, prisa |-> FALSE]
    BY <1>1, <2>1 DEF Cli!ClInit
  <2> QED  BY <2>2 DEF Clientes
<1>4. ~k.prisa /\ k.status = "no" /\ k.evento = "DISCONNECTED" /\ k.fallo = 0 /\ k.intento = Reconexion
  BY DEF Cli!ClInit
<1> QED  BY <1>3, <1>4, Ordenado, Ajustes DEF EnOrden

\* Between two attempts of the client to connect goes its interval, and the sketch is
\* told of its sessions in order, each opened by an answer to the last request.
THEOREM ClienteEnOrdenCorrect == Cli!ClInit /\ [][Cli!ClNext]_(Cli!clvars) => []ClienteEnOrden
<1>1. k \in Ordenados /\ [Cli!ClNext]_(Cli!clvars) => (k \in Ordenados)'
  BY CliStep
<1>2. k \in Ordenados => ClienteEnOrden
  BY Ordenado DEF ClienteEnOrden, Cli!ClienteEnOrden, EnOrden
<1> QED  BY <1>1, <1>2, CliInit, PTL

-----------------------------------------------------------------------------
\* Frames.

Octetos == 0..(Tr!Base - 1)
Trozos  == Seq(Octetos)

\* The limits of the code, small or not.
LEMMA Limites == Alto \in {16, 32, 64, 128} /\ Larga \in (Alto - 1)..(Tr!Base * Tr!Base - 1)
BY TramasAssumption DEF Tr!TramasAssumption

\* The sizes of a byte and of the three forms of a length.
LEMMA Alturas == /\ Alto \in Nat /\ Tr!Base \in Nat /\ Alto >= 16 /\ Tr!Base = 2 * Alto /\ Alto % 16 = 0
                 /\ Larga \in Nat /\ Larga >= Alto - 1 /\ Larga < Tr!Base * Tr!Base
<1>1. Tr!Base * Tr!Base \in Int
  BY Limites DEF Tr!Base
<1> QED  BY <1>1, Limites DEF Tr!Base

\* The bytes of a number give it back.
LEMMA LugaresValen ==
  ASSUME NEW n \in Nat
  PROVE  /\ Tr!Byte(n, Tr!Base * Tr!Base * Tr!Base) \in Octetos /\ Tr!Byte(n, Tr!Base * Tr!Base) \in Octetos
         /\ Tr!Byte(n, Tr!Base) \in Octetos /\ Tr!Byte(n, 1) \in Octetos
         /\ n < Tr!Base * Tr!Base => Tr!Byte(n, Tr!Base) * Tr!Base + Tr!Byte(n, 1) = n
         /\ n < Tr!Base * Tr!Base * Tr!Base * Tr!Base =>
              ((Tr!Byte(n, Tr!Base * Tr!Base * Tr!Base) * Tr!Base + Tr!Byte(n, Tr!Base * Tr!Base)) * Tr!Base + Tr!Byte(n, Tr!Base)) * Tr!Base + Tr!Byte(n, 1) = n
<1>1. /\ Tr!Byte(n, Tr!Base * Tr!Base * Tr!Base) \in Octetos /\ Tr!Byte(n, Tr!Base * Tr!Base) \in Octetos
      /\ Tr!Byte(n, Tr!Base) \in Octetos /\ Tr!Byte(n, 1) \in Octetos
  BY Limites DEF Tr!Byte, Octetos, Tr!Base
<1>2. n < Tr!Base * Tr!Base => Tr!Byte(n, Tr!Base) * Tr!Base + Tr!Byte(n, 1) = n
  <2>1. CASE Alto = 16   BY <2>1 DEF Tr!Byte, Tr!Base
  <2>2. CASE Alto = 32   BY <2>2 DEF Tr!Byte, Tr!Base
  <2>3. CASE Alto = 64   BY <2>3 DEF Tr!Byte, Tr!Base
  <2>4. CASE Alto = 128  BY <2>4 DEF Tr!Byte, Tr!Base
  <2> QED  BY <2>1, <2>2, <2>3, <2>4, Limites
<1>3. n < Tr!Base * Tr!Base * Tr!Base * Tr!Base =>
        ((Tr!Byte(n, Tr!Base * Tr!Base * Tr!Base) * Tr!Base + Tr!Byte(n, Tr!Base * Tr!Base)) * Tr!Base + Tr!Byte(n, Tr!Base)) * Tr!Base + Tr!Byte(n, 1) = n
  <2>1. CASE Alto = 16   BY <2>1 DEF Tr!Byte, Tr!Base
  <2>2. CASE Alto = 32   BY <2>2 DEF Tr!Byte, Tr!Base
  <2>3. CASE Alto = 64   BY <2>3 DEF Tr!Byte, Tr!Base
  <2>4. CASE Alto = 128  BY <2>4 DEF Tr!Byte, Tr!Base
  <2> QED  BY <2>1, <2>2, <2>3, <2>4, Limites
<1> QED  BY <1>1, <1>2, <1>3

\* u is s and then t.
Union(u, s, t) ==
  /\ Len(u) = Len(s) + Len(t)
  /\ \A i \in 1..Len(s) : u[i] = s[i]
  /\ \A i \in 1..Len(t) : u[Len(s) + i] = t[i]

\* What one write puts after another.
LEMMA Une == ASSUME NEW s \in Trozos, NEW t \in Trozos PROVE s \o t \in Trozos /\ Union(s \o t, s, t)
<1>1. /\ s \o t \in Trozos /\ Len(s \o t) = Len(s) + Len(t)
      /\ \A i \in 1..(Len(s) + Len(t)) : (s \o t)[i] = IF i <= Len(s) THEN s[i] ELSE t[i - Len(s)]
  BY ConcatProperties DEF Trozos
<1>2. Len(s) \in Nat /\ Len(t) \in Nat
  BY LenProperties DEF Trozos
<1>3. ASSUME NEW i \in 1..Len(t) PROVE (s \o t)[Len(s) + i] = t[i]
  <2>1. PICK j \in 1..(Len(s) + Len(t)) : j = Len(s) + i
    BY <1>2
  <2> QED  BY <1>1, <1>2, <2>1
<1>4. \A i \in 1..Len(s) : (s \o t)[i] = s[i]
  BY <1>1, <1>2
<1> QED  BY <1>1, <1>3, <1>4, Zenon DEF Union

LEMMA LargoNat == ASSUME NEW s \in Trozos PROVE Len(s) \in Nat
BY LenProperties DEF Trozos

\* b is the byte x, then m, c and d.
Juntas(b, x, m, c, d) ==
  /\ b \in Trozos /\ Len(b) = 1 + Len(m) + Len(c) + Len(d) /\ b[1] = x
  /\ \A i \in 1..Len(m) : b[1 + i] = m[i]
  /\ \A i \in 1..Len(c) : b[1 + Len(m) + i] = c[i]

\* The parts of a frame, each at its place.
LEMMA Partes ==
  ASSUME NEW x \in Octetos, NEW m \in Trozos, NEW c \in Trozos, NEW d \in Trozos,
         NEW p, p = <<x>> \o m, NEW q, q = p \o c, NEW b, b = q \o d
  PROVE  Juntas(b, x, m, c, d)
<1>1. <<x>> \in Trozos /\ Len(<<x>>) = 1 /\ <<x>>[1] = x
  BY DEF Trozos
<1>3. /\ p \in Trozos /\ Len(p) = 1 + Len(m) /\ p[1] = x
      /\ \A i \in 1..Len(m) : p[1 + i] = m[i]
  <2>1. PICK w \in Trozos : w = <<x>>
    BY <1>1
  <2>2. /\ p \in Trozos /\ Len(p) = Len(w) + Len(m)
        /\ \A i \in 1..Len(w) : p[i] = w[i]
        /\ \A i \in 1..Len(m) : p[Len(w) + i] = m[i]
    <3>1. p \in Trozos /\ Union(p, w, m)
      BY <2>1, Une
    <3> QED  BY <3>1 DEF Union
  <2>3. Len(w) = 1 /\ w[1] = x
    BY <1>1, <2>1
  <2> QED  BY <2>2, <2>3
<1>5. Len(m) \in Nat /\ Len(c) \in Nat /\ Len(d) \in Nat
  BY LargoNat
<1>6. /\ q \in Trozos /\ Len(q) = 1 + Len(m) + Len(c)
      /\ \A i \in 1..(1 + Len(m)) : q[i] = p[i]
      /\ \A i \in 1..Len(c) : q[1 + Len(m) + i] = c[i]
  <2>1. /\ q \in Trozos /\ Len(q) = Len(p) + Len(c)
        /\ \A i \in 1..Len(p) : q[i] = p[i]
        /\ \A i \in 1..Len(c) : q[Len(p) + i] = c[i]
    <3>1. p \in Trozos
      BY <1>3
    <3>2. q \in Trozos /\ Union(q, p, c)
      BY <3>1, Une
    <3> QED  BY <3>2 DEF Union
  <2> QED  BY <1>3, <1>5, <2>1
<1>8. /\ b \in Trozos /\ Len(b) = 1 + Len(m) + Len(c) + Len(d)
      /\ \A i \in 1..(1 + Len(m) + Len(c)) : b[i] = q[i]
  <2>1. b \in Trozos /\ Len(b) = Len(q) + Len(d) /\ \A i \in 1..Len(q) : b[i] = q[i]
    <3>1. q \in Trozos
      BY <1>6
    <3>2. b \in Trozos /\ Union(b, q, d)
      BY <3>1, Une
    <3> QED  BY <3>2 DEF Union
  <2> QED  BY <1>5, <1>6, <2>1
<1>9. ASSUME NEW i \in 1..Len(m) PROVE b[1 + i] = m[i]
  <2>1. PICK j \in 1..(1 + Len(m)) : j = 1 + i
    BY <1>5
  <2>2. j \in 1..(1 + Len(m) + Len(c))
    BY <1>5
  <2> QED  BY <1>3, <1>6, <1>8, <2>1, <2>2
<1>10. ASSUME NEW i \in 1..Len(c) PROVE b[1 + Len(m) + i] = c[i]
  <2>1. PICK j \in 1..(1 + Len(m) + Len(c)) : j = 1 + Len(m) + i
    BY <1>5
  <2> QED  BY <1>6, <1>8, <2>1
<1>11. 1 \in 1..(1 + Len(m)) /\ 1 \in 1..(1 + Len(m) + Len(c))
  BY <1>5
<1> QED  BY <1>3, <1>6, <1>8, <1>9, <1>10, <1>11 DEF Juntas

\* The three forms of a length.
Mide(z, n, m) ==
  /\ Len(z) > 0 /\ (z[1] >= Alto <=> m = Alto)
  /\ \/ n < Alto - 2 /\ Len(z) = 1 /\ z[1] % Alto = n
     \/ /\ n < Larga /\ Len(z) = 3 /\ z[1] % Alto = Alto - 2
        /\ z[2] * Tr!Base + z[3] = n
     \/ /\ Len(z) = 9 /\ z[1] % Alto = Alto - 1
        /\ z[2] = 0 /\ z[3] = 0 /\ z[4] = 0 /\ z[5] = 0
        /\ ((z[6] * Tr!Base + z[7]) * Tr!Base + z[8]) * Tr!Base + z[9] = n

\* createHeader() writes a length in one of its three forms.
LEMMA MedidaVale ==
  ASSUME NEW n \in Nat, NEW m \in {0, Alto}, n < Tr!Base * Tr!Base * Tr!Base * Tr!Base, NEW z, z = Tr!Medida(n, m)
  PROVE  z \in Trozos /\ Mide(z, n, m)
<1>1. CASE n < Alto - 2
  <2>1. m + n \in Octetos /\ (m + n) % Alto = n /\ (m + n >= Alto <=> m = Alto)
    BY <1>1, Limites DEF Octetos, Tr!Base
  <2>2. z = <<m + n>>
    BY <1>1 DEF Tr!Medida
  <2> QED  BY <1>1, <2>1, <2>2 DEF Trozos, Mide
<1>2. CASE n >= Alto - 2 /\ n < Larga
  <2>1. PICK a, e \in Octetos : a = Tr!Byte(n, Tr!Base) /\ e = Tr!Byte(n, 1) /\ a * Tr!Base + e = n
    BY <1>2, LugaresValen, Alturas
  <2>2. PICK y \in Octetos : y = m + Alto - 2 /\ y % Alto = Alto - 2 /\ (y >= Alto <=> m = Alto)
    BY Limites DEF Octetos, Tr!Base
  <2>3. ~(n < Alto - 2)
    BY <1>2, Alturas
  <2>4. z = <<y, a, e>>
    BY <1>2, <2>1, <2>2, <2>3 DEF Tr!Medida
  <2>5. z \in Trozos /\ Len(z) = 3 /\ z[1] = y /\ z[2] = a /\ z[3] = e
    BY <2>4 DEF Trozos
  <2> QED  BY <1>2, <2>1, <2>2, <2>5 DEF Mide
<1>3. CASE n >= Larga
  <2>1. PICK a, e, f, g \in Octetos :
          /\ a = Tr!Byte(n, Tr!Base * Tr!Base * Tr!Base) /\ e = Tr!Byte(n, Tr!Base * Tr!Base) /\ f = Tr!Byte(n, Tr!Base) /\ g = Tr!Byte(n, 1)
          /\ ((a * Tr!Base + e) * Tr!Base + f) * Tr!Base + g = n
    BY LugaresValen
  <2>2. PICK y \in Octetos : y = m + Alto - 1 /\ y % Alto = Alto - 1 /\ (y >= Alto <=> m = Alto)
    BY Limites DEF Octetos, Tr!Base
  <2>3. ~(n < Alto - 2) /\ ~(n < Larga) /\ 0 \in Octetos
    BY <1>3, Alturas DEF Octetos
  <2>4. z = <<y, 0, 0, 0, 0, a, e, f, g>>
    BY <2>1, <2>2, <2>3 DEF Tr!Medida
  <2>5. /\ z \in Trozos /\ Len(z) = 9 /\ z[1] = y /\ z[2] = 0 /\ z[3] = 0 /\ z[4] = 0 /\ z[5] = 0
        /\ z[6] = a /\ z[7] = e /\ z[8] = f /\ z[9] = g
    BY <2>3, <2>4 DEF Trozos
  <2> QED  BY <2>1, <2>2, <2>5 DEF Mide
<1> QED  BY <1>1, <1>2, <1>3, Alturas

\* t is the part of s from i to j.
EsTramo(t, s, i, j) ==
  t \in Trozos /\ Len(t) = j - i + 1 /\ \A h \in 1..(j - i + 1) : t[h] = s[i + h - 1]

LEMMA Tramo ==
  ASSUME NEW s, NEW i \in Int, NEW j \in Int, i <= j, \A h \in i..j : s[h] \in Octetos
  PROVE  EsTramo(SubSeq(s, i, j), s, i, j)
BY SubSeqProperties DEF Trozos, EsTramo

\* A length of nine bytes behind the first byte of a frame.
LEMMA Corridos ==
  ASSUME NEW b, NEW m, Len(m) = 9, \A i \in 1..Len(m) : b[1 + i] = m[i]
  PROVE  /\ b[3] = m[2] /\ b[4] = m[3] /\ b[5] = m[4] /\ b[6] = m[5]
         /\ b[7] = m[6] /\ b[8] = m[7] /\ b[9] = m[8] /\ b[10] = m[9]
<1>1. \A j \in 2..10 : b[j] = m[j - 1]
  <2> SUFFICES ASSUME NEW j \in 2..10 PROVE b[j] = m[j - 1]
    OBVIOUS
  <2>1. PICK i \in 1..9 : i = j - 1 /\ 1 + i = j
    OBVIOUS
  <2> QED  BY <2>1
<1> QED  BY <1>1

\* handleWebsocket() and its callbacks read the length that was written.
LEMMA LargoLeido ==
  ASSUME NEW b, NEW x, NEW m \in Trozos, NEW c, NEW d, NEW n \in Nat, NEW mb,
         Juntas(b, x, m, c, d), Mide(m, n, mb), b[2] = m[1]
  PROVE  Tr!Extra(b) = Len(m) - 1 /\ Tr!Largo(b) = n
<1>1. CASE n < Alto - 2 /\ Len(m) = 1 /\ m[1] % Alto = n
  <2>0. b[2] % Alto = n /\ n # Alto - 2 /\ n # Alto - 1
    BY b[2] = m[1], <1>1, Alturas
  <2>1. Tr!Extra(b) = 0
    BY <2>0 DEF Tr!Extra
  <2> QED  BY b[2] = m[1], <1>1, <2>1 DEF Tr!Largo
<1>2. CASE Len(m) = 3 /\ m[1] % Alto = Alto - 2 /\ m[2] * Tr!Base + m[3] = n
  <2>1. b[3] = m[2] /\ b[4] = m[3]
    BY Juntas(b, x, m, c, d), <1>2 DEF Juntas
  <2> QED  BY b[2] = m[1], <1>2, <2>1, Alturas DEF Tr!Extra, Tr!Largo
<1>3. CASE /\ Len(m) = 9 /\ m[1] % Alto = Alto - 1
           /\ m[2] = 0 /\ m[3] = 0 /\ m[4] = 0 /\ m[5] = 0
           /\ ((m[6] * Tr!Base + m[7]) * Tr!Base + m[8]) * Tr!Base + m[9] = n
  <2>0. \A i \in 1..Len(m) : b[1 + i] = m[i]
    BY Juntas(b, x, m, c, d) DEF Juntas
  <2>1. b[3] = m[2] /\ b[4] = m[3] /\ b[5] = m[4] /\ b[6] = m[5]
    BY <1>3, <2>0, Corridos
  <2>2. b[7] = m[6] /\ b[8] = m[7] /\ b[9] = m[8] /\ b[10] = m[9]
    BY <1>3, <2>0, Corridos
  <2>3. Tr!Extra(b) = 8 /\ Tr!Extra(b) # 0 /\ Tr!Extra(b) # 2
    BY b[2] = m[1], <1>3, Alturas DEF Tr!Extra
  <2>4. ~\E i \in 3..6 : b[i] # 0
    <3> SUFFICES ASSUME NEW i \in 3..6 PROVE b[i] = 0
      OBVIOUS
    <3>1. i = 3 \/ i = 4 \/ i = 5 \/ i = 6
      OBVIOUS
    <3> QED  BY <1>3, <2>1, <3>1
  <2>5. Tr!Largo(b) = ((b[7] * Tr!Base + b[8]) * Tr!Base + b[9]) * Tr!Base + b[10]
    BY <2>3, <2>4, Zenon DEF Tr!Largo
  <2> QED  BY <1>3, <2>2, <2>3, <2>5
<1> QED  BY Mide(m, n, mb), <1>1, <1>2, <1>3 DEF Mide

\* The header that createHeader() writes, for a payload of any length that has no more
\* than four significant bytes, masked or not, and any mask, opcode and FIN bit, is read
\* by handleWebsocket() and its callbacks as what was meant: where the payload starts and
\* how long it is, the mask, the opcode and FIN; and the frame is whole exactly there.
THEOREM CabeceraLeida ==
  ASSUME NEW op \in 0..15, NEW datos \in Trozos, Len(datos) < Tr!Base * Tr!Base * Tr!Base * Tr!Base,
         NEW mask \in BOOLEAN, NEW clave \in Trozos, Len(clave) = 4, NEW fin \in BOOLEAN,
         NEW b, b = Tr!createHeader(op, Len(datos), mask, clave, fin) \o datos
  PROVE  /\ Tr!Medido(b) /\ Tr!Largo(b) = Len(datos) /\ Tr!Cabeza(b) + Len(datos) = Len(b)
         /\ (Tr!ConMask(b) <=> mask) /\ Tr!Clave(b) = IF mask THEN clave ELSE Tr!SinClave
         /\ (b[1] >= Alto <=> fin) /\ b[1] % 16 = op
         /\ Len(datos) <= MaxDatos => Tr!Entera(b)
<1>n. PICK n \in Nat : n = Len(datos)
  BY LargoNat
<1>0. n < Tr!Base * Tr!Base * Tr!Base * Tr!Base
  BY <1>n
<1>1. PICK x \in Octetos : x = (IF fin THEN Alto ELSE 0) + op /\ (x >= Alto <=> fin) /\ x % 16 = op
  <2>1. Alto + op \in Octetos /\ (Alto + op) % 16 = op /\ op \in Octetos /\ op % 16 = op /\ op < Alto
    <3>1. CASE Alto = 16   BY <3>1 DEF Octetos, Tr!Base
    <3>2. CASE Alto = 32   BY <3>2 DEF Octetos, Tr!Base
    <3>3. CASE Alto = 64   BY <3>3 DEF Octetos, Tr!Base
    <3>4. CASE Alto = 128  BY <3>4 DEF Octetos, Tr!Base
    <3> QED  BY <3>1, <3>2, <3>3, <3>4, Limites
  <2>2. CASE fin
    BY <2>1, <2>2, Alturas
  <2>3. CASE ~fin
    BY <2>1, <2>3, Alturas
  <2> QED  BY <2>2, <2>3
<1>2. PICK mb \in {0, Alto} : mb = (IF mask THEN Alto ELSE 0)
  OBVIOUS
<1>3. PICK m \in Trozos : m = Tr!Medida(n, mb) /\ Mide(m, n, mb)
  BY <1>0, MedidaVale
<1>4. PICK c \in Trozos : c = IF mask THEN clave ELSE <<>>
  <2>1. <<>> \in Trozos
    BY DEF Trozos
  <2>2. CASE mask   BY <2>2
  <2>3. CASE ~mask  BY <2>1, <2>3
  <2> QED  BY <2>2, <2>3
<1>c. Len(c) = IF mask THEN 4 ELSE 0
  BY <1>4
<1>5. PICK p : p = <<x>> \o m
  OBVIOUS
<1>6. PICK q : q = p \o c
  OBVIOUS
<1>7. q = Tr!createHeader(op, n, mask, clave, fin)
  BY <1>1, <1>2, <1>3, <1>4, <1>5, <1>6 DEF Tr!createHeader
<1>8. b = q \o datos
  BY <1>7, <1>n
<1>9. Juntas(b, x, m, c, datos)
  BY <1>5, <1>6, <1>8, Partes
<1>l. Len(m) \in Nat /\ Len(c) \in Nat /\ b \in Trozos /\ Len(b) = 1 + Len(m) + Len(c) + n /\ b[1] = x
  BY <1>9, <1>n, LargoNat DEF Juntas
<1>10. b[2] = m[1] /\ (Tr!ConMask(b) <=> mask)
  <2>1. 1 \in 1..Len(m)
    BY <1>3, <1>l DEF Mide
  <2>2. b[2] = m[1]
    BY <1>9, <2>1 DEF Juntas
  <2>3. Alto # 0
    BY Alturas
  <2> QED  BY <1>2, <1>3, <2>2, <2>3 DEF Tr!ConMask, Mide
<1>11. Tr!Extra(b) = Len(m) - 1 /\ Tr!Largo(b) = n
  BY <1>3, <1>9, <1>10, LargoLeido
<1>12. Tr!Cabeza(b) = 1 + Len(m) + Len(c) /\ Tr!Cabeza(b) \in Nat
  BY <1>c, <1>l, <1>10, <1>11 DEF Tr!Cabeza
<1>13. Tr!Clave(b) = IF mask THEN clave ELSE Tr!SinClave
  <2>1. CASE ~mask
    BY <1>10, <2>1 DEF Tr!Clave
  <2>2. CASE mask
    <3>1. c = clave /\ Len(c) = 4 /\ Tr!Clave(b) = SubSeq(b, Tr!Cabeza(b) - 3, Tr!Cabeza(b))
      BY <1>4, <1>c, <1>10, <2>2 DEF Tr!Clave
    <3>2. PICK i, j \in Nat : i = 2 + Len(m) /\ j = 5 + Len(m)
      BY <1>l
    <3>k. Tr!Cabeza(b) - 3 = i /\ Tr!Cabeza(b) = j
      BY <1>c, <1>l, <1>12, <2>2, <3>2
    <3>3. ASSUME NEW h \in i..j PROVE b[h] \in Octetos
      <4>c. Len(c) = 4
        BY <3>1
      <4>0. Len(b) = 5 + Len(m) + n /\ Len(b) \in Nat
        BY <1>l, <4>c
      <4>z. h >= 1 /\ h <= 5 + Len(m) /\ h \in Int
        BY <1>l, <3>2
      <4>1. h \in 1..Len(b)
        BY <1>l, <4>0, <4>z
      <4> QED  BY <1>l, <4>1, ElementOfSeq DEF Trozos
    <3>4. PICK z : z = SubSeq(b, i, j)
      OBVIOUS
    <3>5. z \in Trozos /\ Len(z) = 4 /\ \A h \in 1..4 : z[h] = b[i + h - 1]
      <4>1. i \in Int /\ j \in Int /\ i <= j /\ j - i + 1 = 4
        BY <1>l, <3>2
      <4>2. \A h \in i..j : b[h] \in Octetos
        BY <3>3
      <4>3. EsTramo(z, b, i, j)
        BY <3>4, <4>1, <4>2, Tramo
      <4> QED  BY <4>1, <4>3 DEF EsTramo
    <3>6. ASSUME NEW h \in 1..4 PROVE z[h] = c[h]
      <4>1. h \in Int /\ i + h - 1 = 1 + Len(m) + h
        BY <1>l, <3>2
      <4>2. h \in 1..Len(c)
        BY <3>1
      <4> QED  BY <1>9, <3>5, <4>1, <4>2 DEF Juntas
    <3>7. z = c
      BY <3>1, <3>5, <3>6, SeqEqual DEF Trozos
    <3> QED  BY <2>2, <3>1, <3>k, <3>4, <3>7
  <2> QED  BY <2>1, <2>2
<1>14. Tr!Medido(b)
  <2>1. Len(m) > 0
    BY <1>3 DEF Mide
  <2> QED  BY <2>1, <1>c, <1>l, <1>11 DEF Tr!Medido
<1>15. Len(datos) <= MaxDatos => Tr!Entera(b)
  BY <1>n, <1>l, <1>11, <1>12, <1>14 DEF Tr!Entera, Tr!Cabe
<1> QED  BY <1>n, <1>1, <1>l, <1>10, <1>11, <1>12, <1>13, <1>14, <1>15

-----------------------------------------------------------------------------
\* The composition that the run checks: each end is what its module says.
THEOREM LadosCorrect ==
  LadosSpec => [](TypeOK /\ UnaRanuraPorConexion /\ SesionesEnOrden /\ ClienteEnOrden)
<1>1. LadosInit => Init /\ Cli!ClInit
  BY DEF LadosInit
<1>2. [LadosNext]_lados => [Next]_vars /\ [Cli!ClNext]_(Cli!clvars)
  <2>1. UNCHANGED clvars => UNCHANGED Cli!clvars
    BY DEF clvars, Cli!clvars
  <2>2. lado = "servidor" /\ Next /\ UNCHANGED <<lado, clvars, trvars>> => Next /\ UNCHANGED clvars
    OBVIOUS
  <2>3. lado = "cliente" /\ Cli!ClNext /\ UNCHANGED <<lado, vars, trvars>> => Cli!ClNext /\ UNCHANGED vars
    OBVIOUS
  <2>4. UNCHANGED <<lado, vars, clvars>> \/ UNCHANGED lados => UNCHANGED vars /\ UNCHANGED clvars
    BY DEF lados
  <2> QED  BY <2>1, <2>2, <2>3, <2>4 DEF LadosNext
<1>3. LadosSpec => Spec /\ Cli!ClInit /\ [][Cli!ClNext]_(Cli!clvars)
  BY <1>1, <1>2, PTL DEF LadosSpec, Spec
<1> QED  BY <1>3, TypeCorrect, UnaRanuraPorConexionCorrect, SesionesEnOrdenCorrect, ClienteEnOrdenCorrect, PTL
=============================================================================
