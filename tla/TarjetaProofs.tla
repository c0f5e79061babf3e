---------------------------- MODULE TarjetaProofs ----------------------------
(***************************************************************************)
(* Proofs about the programs of the board: its provisioning, for every set of *)
(* field values, forms, initial files and routers; the push button, for every *)
(* delay and every width of its counter and however its two tasks interleave; *)
(* the light of the first firmware, for every set of browsers and forms; and   *)
(* the light of web.ino, for every set of requests.                          *)
(***************************************************************************)
EXTENDS Tarjeta, TLAPS

\* The form has three fields or four.
LEMMA UltimoCampo == Ultimo \in Nat /\ Ultimo >= 3 /\ Campos = 1..Ultimo
BY ConfigsAssumption DEF Campos, ssid, ip, gateway

\* What is read of a file is a value of a field again.
LEMMA LeidasConfig == ASSUME NEW c \in Configs PROVE Leidas(c) \in Configs
BY CortadosAssumption DEF Leidas, readFile, Configs

LEMMA TypeStep == TypeOK /\ [Next]_vars => TypeOK'
<1> SUFFICES ASSUME TypeOK, [Next]_vars PROVE TypeOK'
  OBVIOUS
<1> USE DEF TypeOK, post, diario, Campos, Configs, ssid, pass, ip, gateway
<1>1. CASE Configurar
  <2>1. CASE Leer
    BY <2>1, LeidasConfig DEF Leer
  <2> QED  BY <1>1, <2>1 DEF Configurar, ConsultarEstado, SeguirEsperando, Rendirse
<1>2. CASE Asociar \/ Desasociar
  BY <1>2 DEF Asociar, Desasociar
<1>3. ASSUME NEW f \in Formularios, RecibirPost(f) PROVE TypeOK'
  <2>1. perdida' \in BOOLEAN
    BY <1>3, Zenon DEF RecibirPost
  <2> QED  BY <1>3, <2>1, ConfigsAssumption, UltimoCampo DEF RecibirPost
<1>4. CASE AbrirArchivo
  <2>1. perdida' \in BOOLEAN
    BY <1>4, Zenon DEF AbrirArchivo
  <2> QED  BY <1>4, <2>1, UltimoCampo DEF AbrirArchivo, Siguiente
<1>5. CASE ImprimirArchivo
  <2>1. perdida' \in BOOLEAN
    BY <1>5, Zenon DEF ImprimirArchivo
  <2> QED  BY <1>5, <2>1, UltimoCampo DEF ImprimirArchivo, Siguiente
<1>6. CASE Responder
  BY <1>6 DEF Responder
<1>7. CASE Arrancar
  <2>1. enlace' \in BOOLEAN
    BY <1>7, Zenon DEF Arrancar
  <2>2. ram' \in Configs /\ formulario' \in Configs
    BY <1>7 DEF Arrancar
  <2> QED  BY <1>7, <2>1, <2>2, UltimoCampo DEF Arrancar
<1>8. CASE UNCHANGED vars
  BY <1>8 DEF vars
<1> QED  BY <1>1, <1>2, <1>3, <1>4, <1>5, <1>6, <1>7, <1>8
            DEF Next, Guardar, Reiniciar, CorteDeLuz

\* The handler answers only after it has gone through every field.
THEOREM TypeCorrect == Spec => []TypeOK
<1>1. Init => TypeOK
  <2> SUFFICES ASSUME Init PROVE TypeOK
    OBVIOUS
  <2>1. enlace \in BOOLEAN /\ perdida \in BOOLEAN
    BY Zenon DEF Init
  <2>2. archivos \in Configs /\ ram \in Configs /\ formulario \in Configs
    BY ConfigsAssumption DEF Init, Configs
  <2> QED  BY <2>1, <2>2, UltimoCampo DEF Init, TypeOK, Campos, ssid, pass, ip, gateway
<1> QED  BY <1>1, TypeStep, PTL DEF Spec

-----------------------------------------------------------------------------
\* The handler runs only behind the access point, and outside it the globals are
\* what setup() read.
RamInv ==
  /\ tarea # "libre" => fase = "ap"
  /\ tarea = "libre" /\ fase # "leer" => ram = Leidas(archivos)
  /\ fase \in {"estado", "plazo", "sta"} => ram[ssid] # Vacio /\ ram[ip] # Vacio

LEMMA RamStep == RamInv /\ [Next]_vars => RamInv'
<1> SUFFICES ASSUME RamInv, [Next]_vars PROVE RamInv'
  OBVIOUS
<1> USE DEF RamInv, post, diario
<1>1. CASE Configurar
  BY <1>1 DEF Configurar, Leer, ConsultarEstado, SeguirEsperando, Rendirse, Completa
<1>2. CASE Asociar \/ Desasociar
  BY <1>2 DEF Asociar, Desasociar
<1>3. ASSUME NEW f \in Formularios, RecibirPost(f) PROVE RamInv'
  BY <1>3 DEF RecibirPost
<1>4. CASE AbrirArchivo
  BY <1>4 DEF AbrirArchivo, Siguiente
<1>5. CASE ImprimirArchivo
  BY <1>5 DEF ImprimirArchivo, Siguiente
<1>6. CASE Responder
  BY <1>6 DEF Responder
<1>7. CASE Arrancar
  BY <1>7 DEF Arrancar
<1>8. CASE UNCHANGED vars
  BY <1>8 DEF vars
<1> QED  BY <1>1, <1>2, <1>3, <1>4, <1>5, <1>6, <1>7, <1>8
            DEF Next, Guardar, Reiniciar, CorteDeLuz

LEMMA RamCorrect == Spec => []RamInv
<1>1. Init => RamInv
  BY DEF Init, RamInv
<1> QED  BY <1>1, RamStep, PTL DEF Spec

\* Station mode runs with the stored settings, and those name a network and an
\* address.
THEOREM EstacionGuardadaCorrect == Spec => []EstacionGuardada
<1>1. RamInv => EstacionGuardada
  BY DEF RamInv, EstacionGuardada
<1> QED  BY <1>1, RamCorrect, PTL

-----------------------------------------------------------------------------
\* While the flash has taken every write, the fields before param are stored, and
\* nothing counts as confirmed from the arrival of a form to its "Done".
Guardados(n) == \A c \in Campos : c < n => archivos[c] = formulario[c] /\ ram[c] = formulario[c]

EscrituraInv ==
  /\ tarea # "libre" /\ ~perdida => Guardados(param)
  /\ tarea = "imprimir" => ram[param] = formulario[param]
  /\ tarea \in {"abrir", "imprimir", "responder"} => confirmada = Nada
  /\ ConfirmadaGuardada

LEMMA EscrituraStep ==
  ASSUME TypeOK, RamInv, EscrituraInv, [Next]_vars
  PROVE  EscrituraInv'
<1> USE DEF EscrituraInv, ConfirmadaGuardada, Guardados, post, diario
<1>1. CASE Leer
  BY <1>1 DEF Leer, RamInv
<1>2. CASE ConsultarEstado \/ SeguirEsperando \/ Rendirse \/ Asociar \/ Desasociar
  BY <1>2 DEF ConsultarEstado, SeguirEsperando, Rendirse, Asociar, Desasociar
<1>3. ASSUME NEW f \in Formularios, RecibirPost(f) PROVE EscrituraInv'
  BY <1>3, UltimoCampo DEF RecibirPost, ssid
<1>4. CASE AbrirArchivo
  BY <1>4, UltimoCampo DEF AbrirArchivo, Siguiente, TypeOK, Configs
<1>5. CASE ImprimirArchivo
  BY <1>5, UltimoCampo DEF ImprimirArchivo, Siguiente, TypeOK, Configs
<1>6. CASE Responder
  <2>1. CASE perdida
    BY <1>6, <2>1 DEF Responder
  <2>2. CASE ~perdida
    <3>1. \A c \in Campos : archivos[c] = formulario[c] /\ ram[c] = formulario[c]
      BY <1>6, <2>2, UltimoCampo DEF Responder, TypeOK
    <3>2. archivos = formulario /\ ram = formulario
      BY <3>1 DEF TypeOK, Configs
    <3> QED  BY <1>6, <2>2, <3>2 DEF Responder
  <2> QED  BY <2>1, <2>2
<1>7. CASE Arrancar
  BY <1>7 DEF Arrancar
<1>8. CASE UNCHANGED vars
  BY <1>8 DEF vars
<1> QED  BY <1>1, <1>2, <1>3, <1>4, <1>5, <1>6, <1>7, <1>8
            DEF Next, Configurar, Guardar, Reiniciar, CorteDeLuz

\* What was answered with "Done" survives every power cut until the next form,
\* unless the flash refused a write of it.
THEOREM ConfirmadaGuardadaCorrect == Spec => []ConfirmadaGuardada
<1>1. Init => EscrituraInv
  BY DEF Init, EscrituraInv, ConfirmadaGuardada
<1>2. TypeOK /\ RamInv /\ EscrituraInv /\ [Next]_vars => EscrituraInv'
  BY EscrituraStep
<1>3. Spec => []EscrituraInv
  BY <1>1, <1>2, TypeCorrect, RamCorrect, PTL DEF Spec
<1>4. EscrituraInv => ConfirmadaGuardada
  BY DEF EscrituraInv
<1> QED  BY <1>3, <1>4, PTL

-----------------------------------------------------------------------------
\* The counter holds 1 in the pass that counts a press, and after that only while
\* the level changes; veces tells the passes of a press before the one that counts
\* from those after it.
PulsadorInv ==
  /\ button.state \in 0..Tope /\ button.quieto \in Nat
  /\ button.state = 0 => veces = 0 /\ ~doble
  /\ button.state # 0 => doble \/ veces = 1

\* A state above 0 never becomes 1 again without a bounce: a press that is long
\* enough goes around from Tope - 1 to 2.
LEMMA EstadoTrasRango ==
  ASSUME NEW s \in 0..Tope
  PROVE  /\ EstadoTras(s) \in 0..Tope
         /\ s # 0 => EstadoTras(s) # 1
BY TopeAssumption DEF EstadoTras

LEMMA ReadStep ==
  ASSUME PulsadorInv, read
  PROVE  PulsadorInv'
<1> DEFINE quieto == IF bajo # button.ultima THEN 0 ELSE button.quieto
           nuevo == [ultima |-> bajo, quieto |-> quieto,
                     state |-> IF quieto > Retardo THEN EstadoTras(button.state) ELSE button.state]
<1>1. /\ button' = nuevo
      /\ doble' = (nuevo.state # 0 /\ (doble \/ (Pressed(button) /\ quieto <= Retardo)))
      /\ veces' = IF nuevo.state = 0 THEN 0
                  ELSE IF Pressed(nuevo) /\ veces < 2 THEN veces + 1 ELSE veces
  BY DEF read
<1>2. quieto \in Nat /\ nuevo.quieto = quieto
  BY DEF PulsadorInv
<1>3. nuevo.state \in 0..Tope
  BY EstadoTrasRango DEF PulsadorInv
<1>4. CASE nuevo.state = 0
  <2>1. veces' = 0 /\ ~doble'
    BY <1>1, <1>4
  <2> QED  BY <1>1, <1>2, <1>3, <1>4, <2>1 DEF PulsadorInv
<1>5. CASE nuevo.state # 0
  <2>1. doble' \/ veces' = 1
    <3>1. CASE doble
      BY <1>1, <1>5, <3>1, Zenon
    <3>2. CASE ~doble /\ button.state = 0
      <4>1. veces = 0 /\ nuevo.state = EstadoTras(0)
        BY <1>5, <3>2 DEF PulsadorInv
      <4>2. nuevo.state = 1
        BY <1>5, <4>1, TopeAssumption DEF EstadoTras
      <4> QED  BY <1>1, <4>1, <4>2 DEF Pressed
    <3>3. CASE ~doble /\ button.state = 1 /\ quieto <= Retardo
      <4>1. Pressed(button)
        BY <3>3 DEF Pressed
      <4> QED  BY <1>1, <1>5, <3>3, <4>1, Zenon
    <3>4. CASE ~doble /\ button.state # 0 /\ ~(button.state = 1 /\ quieto <= Retardo)
      <4>1. nuevo.state # 1
        BY <1>2, <3>4, EstadoTrasRango, TopeAssumption DEF PulsadorInv
      <4>2. veces = 1
        BY <3>4 DEF PulsadorInv
      <4> QED  BY <1>1, <1>5, <4>1, <4>2 DEF Pressed
    <3> QED  BY <3>1, <3>2, <3>3, <3>4
  <2> QED  BY <1>1, <1>2, <1>3, <1>5, <2>1 DEF PulsadorInv
<1> QED  BY <1>4, <1>5

LEMMA PulsadorStep == PulsadorInv /\ [PulsadorNext]_pulsador => PulsadorInv'
<1> SUFFICES ASSUME PulsadorInv, [PulsadorNext]_pulsador PROVE PulsadorInv'
  OBVIOUS
<1>1. CASE read
  BY <1>1, ReadStep
<1>2. CASE Milisegundo
  <2>1. button'.state = button.state /\ button'.quieto = button.quieto + 1
    BY <1>2 DEF Milisegundo, PulsadorInv
  <2> QED  BY <1>2, <2>1 DEF Milisegundo, PulsadorInv
<1>3. CASE UNCHANGED <<button, doble, veces>>
  BY <1>3 DEF PulsadorInv
<1>4. CASE Mover \/ update \/ handleWebSocketMessage
  BY <1>3, <1>4 DEF Mover, update, handleWebSocketMessage
<1>5. ASSUME NEW t \in Tareas, Cambiar(t) \/ notifyClients(t) \/ textAll(t) PROVE PulsadorInv'
  BY <1>3, <1>5 DEF Cambiar, notifyClients, textAll
<1>6. CASE UNCHANGED pulsador
  BY <1>3, <1>6 DEF pulsador
<1> QED  BY <1>1, <1>2, <1>4, <1>5, <1>6 DEF PulsadorNext

-----------------------------------------------------------------------------
(* The two tasks that switch the light of the push button.                 *)
HiloType == hilo \in [Tareas -> [en : {"libre", "update", "cambiar", "avisar", "textAll"}, valor : BOOLEAN]]
Activa(t) == hilo[t].en \in {"cambiar", "avisar", "textAll"}

\* Unless they crossed, one at a time is switching the light, and what it is about to
\* tell the pages is how the light is.
LuzInv ==
  /\ HiloType /\ on \in BOOLEAN /\ cruzados \in BOOLEAN
  /\ ~cruzados =>
       /\ ~(Activa("loop") /\ Activa("async"))
       /\ \A t \in Tareas : hilo[t].en = "textAll" => hilo[t].valor = on
       /\ (\A t \in Tareas : ~Activa(t)) => paginas = on

LEMMA LuzStep == LuzInv /\ [PulsadorNext]_pulsador => LuzInv'
<1> SUFFICES ASSUME LuzInv, [PulsadorNext]_pulsador PROVE LuzInv'
  OBVIOUS
<1> USE DEF HiloType, Activa
<1>1. CASE read
  <2>1. cruzados' \in BOOLEAN /\ UNCHANGED <<on, paginas>>
    BY <1>1, Zenon DEF read
  <2>2. CASE Pressed(button')
    <3>1. /\ hilo["loop"].en = "libre"
          /\ hilo' = [hilo EXCEPT !["loop"] = [en |-> "cambiar", valor |-> on]]
          /\ cruzados' = (cruzados \/ hilo["async"].en # "libre")
      BY <1>1, <2>2 DEF read
    <3>2. hilo' \in [Tareas -> [en : {"libre", "update", "cambiar", "avisar", "textAll"}, valor : BOOLEAN]]
      BY <3>1 DEF LuzInv, Tareas
    <3>3. hilo'["loop"].en = "cambiar" /\ hilo'["async"] = hilo["async"]
      BY <3>1 DEF LuzInv, Tareas
    <3>4. ~cruzados' => hilo'["async"].en = "libre"
      BY <3>1, <3>3
    <3> QED  BY <2>1, <3>2, <3>3, <3>4 DEF LuzInv, Tareas
  <2>3. CASE ~Pressed(button')
    <3>1. /\ hilo["loop"].en = "libre"
          /\ hilo' = [hilo EXCEPT !["loop"].en = "update"]
          /\ ~cruzados' => ~cruzados
      BY <1>1, <2>3 DEF read
    <3>2. hilo' \in [Tareas -> [en : {"libre", "update", "cambiar", "avisar", "textAll"}, valor : BOOLEAN]]
      BY <3>1 DEF LuzInv, Tareas
    <3>3. hilo'["loop"].en = "update" /\ hilo'["async"] = hilo["async"]
      BY <3>1 DEF LuzInv, Tareas
    <3> QED  BY <2>1, <3>1, <3>2, <3>3 DEF LuzInv, Tareas
  <2> QED  BY <2>2, <2>3
<1>2. CASE handleWebSocketMessage
  <2>1. cruzados' \in BOOLEAN /\ UNCHANGED <<on, paginas>>
    BY <1>2, Zenon DEF handleWebSocketMessage
  <2>2. /\ hilo' \in [Tareas -> [en : {"libre", "update", "cambiar", "avisar", "textAll"}, valor : BOOLEAN]]
        /\ hilo'["async"].en = "cambiar" /\ hilo'["loop"] = hilo["loop"]
    BY <1>2 DEF handleWebSocketMessage, LuzInv, Tareas
  <2>3. ~cruzados' => ~cruzados /\ hilo["loop"].en \notin {"cambiar", "avisar", "textAll"}
    BY <1>2 DEF handleWebSocketMessage
  <2> QED  BY <2>1, <2>2, <2>3 DEF LuzInv, Tareas
<1>3. ASSUME NEW t \in Tareas, Cambiar(t) \/ notifyClients(t) \/ textAll(t) PROVE LuzInv'
  <2>1. PICK u \in Tareas : u # t /\ \A s \in Tareas : s = t \/ s = u
    BY DEF Tareas
  <2>2. UNCHANGED cruzados /\ Activa(t) /\ (~cruzados => ~Activa(u))
    BY <1>3, <2>1 DEF Cambiar, notifyClients, textAll, LuzInv, Tareas
  <2>3. hilo'[u] = hilo[u]
    BY <1>3, <2>1 DEF Cambiar, notifyClients, textAll, LuzInv
  <2>4. CASE Cambiar(t)
    <3>1. on' \in BOOLEAN /\ hilo'[t].en = "avisar" /\ hilo' \in [Tareas -> [en : {"libre", "update", "cambiar", "avisar", "textAll"}, valor : BOOLEAN]]
      BY <2>4 DEF Cambiar, LuzInv
    <3> QED  BY <2>1, <2>2, <2>3, <3>1 DEF LuzInv, Tareas
  <2>5. CASE notifyClients(t)
    <3>1. UNCHANGED on /\ hilo'[t].en = "textAll" /\ hilo'[t].valor = on /\ hilo' \in [Tareas -> [en : {"libre", "update", "cambiar", "avisar", "textAll"}, valor : BOOLEAN]]
      BY <2>5 DEF notifyClients, LuzInv
    <3> QED  BY <2>1, <2>2, <2>3, <3>1 DEF LuzInv, Tareas
  <2>6. CASE textAll(t)
    <3>1. /\ UNCHANGED on /\ hilo'[t].en \in {"update", "libre"} /\ paginas' = hilo[t].valor /\ hilo[t].en = "textAll"
          /\ hilo' \in [Tareas -> [en : {"libre", "update", "cambiar", "avisar", "textAll"}, valor : BOOLEAN]]
      BY <2>6 DEF textAll, LuzInv
    <3> QED  BY <2>1, <2>2, <2>3, <3>1 DEF LuzInv, Tareas
  <2> QED  BY <1>3, <2>4, <2>5, <2>6
<1>4. CASE update
  <2>1. /\ UNCHANGED <<on, paginas, cruzados>> /\ hilo["loop"].en = "update"
        /\ hilo' \in [Tareas -> [en : {"libre", "update", "cambiar", "avisar", "textAll"}, valor : BOOLEAN]]
        /\ hilo'["loop"].en = "libre" /\ hilo'["async"] = hilo["async"]
    BY <1>4 DEF update, LuzInv, Tareas
  <2> QED  BY <2>1 DEF LuzInv, Tareas
<1>5. CASE Mover \/ Milisegundo \/ UNCHANGED pulsador
  BY <1>5 DEF Mover, Milisegundo, pulsador, LuzInv
<1> QED  BY <1>1, <1>2, <1>3, <1>4, <1>5 DEF PulsadorNext

-----------------------------------------------------------------------------
(* The light of the first firmware.                                        *)
FirmwareInv ==
  /\ navegador \in [Navegadores -> [espera : {""} \cup Rutas, muestra : {"", "ON", "OFF"}]]
  /\ luz \in BOOLEAN /\ ultimo \in Navegadores \cup {0}
  /\ FirmwareContada

\* Station mode is only left by a restart.
LEMMA SoloReinicio == P!Next /\ fase = "sta" => fase' \in {"sta", "leer"}
BY DEF P!Next, P!Configurar, P!Leer, P!ConsultarEstado, P!SeguirEsperando, P!Rendirse, P!Asociar, P!Desasociar,
       P!RecibirPost, P!Guardar, P!AbrirArchivo, P!ImprimirArchivo, P!Responder, P!Reiniciar, P!Arrancar, P!CorteDeLuz

LEMMA FirmwareStep == FirmwareInv /\ [FirmwareNext]_<<vars, primero>> => FirmwareInv'
<1> SUFFICES ASSUME FirmwareInv, [FirmwareNext]_<<vars, primero>> PROVE FirmwareInv'
  OBVIOUS
<1>1. CASE Provisionar
  <2>1. CASE fase' = "leer"
    <3>1. luz' = FALSE /\ ultimo' = 0
      BY <1>1, <2>1 DEF Provisionar
    <3>2. navegador' = [n \in Navegadores |-> [navegador[n] EXCEPT !.espera = ""]]
      BY <1>1, <2>1 DEF Provisionar
    <3>3. navegador' \in [Navegadores -> [espera : {""} \cup Rutas, muestra : {"", "ON", "OFF"}]]
      BY <3>2 DEF FirmwareInv
    <3> QED  BY <3>1, <3>3 DEF FirmwareInv, FirmwareContada
  <2>2. CASE fase' # "leer"
    <3>1. UNCHANGED <<luz, navegador, ultimo>> /\ (fase = "sta" => fase' = "sta")
      BY <1>1, <2>2, SoloReinicio DEF Provisionar, primero
    <3> QED  BY <3>1 DEF FirmwareInv, FirmwareContada, processor
  <2> QED  BY <2>1, <2>2
<1>2. ASSUME NEW n \in Navegadores, NEW ruta \in Rutas, Visitar(n, ruta) PROVE FirmwareInv'
  BY <1>2 DEF Visitar, FirmwareInv, FirmwareContada, vars, processor
<1>3. ASSUME NEW n \in Navegadores, Atender(n) PROVE FirmwareInv'
  <2>1. luz' \in BOOLEAN
    BY <1>3, Zenon DEF Atender, FirmwareInv
  <2>2. fase' = "sta" /\ ultimo' = n /\ n # 0
    BY <1>3, NavegadoresAssumption DEF Atender, vars
  <2>3. PICK m \in {"ON", "OFF"} : m = processor(luz')
    BY DEF processor
  <2>4. navegador' = [navegador EXCEPT ![n] = [espera |-> "", muestra |-> m]]
    BY <1>3, <2>3 DEF Atender
  <2> QED  BY <2>1, <2>2, <2>3, <2>4 DEF FirmwareInv, FirmwareContada
<1>4. CASE UNCHANGED <<vars, primero>>
  BY <1>4 DEF FirmwareInv, FirmwareContada, vars, primero, processor
<1> QED  BY <1>1, <1>2, <1>3, <1>4 DEF FirmwareNext

-----------------------------------------------------------------------------
(* The light of web.ino.                                                   *)
WebInv ==
  /\ "en" \in DOMAIN cliente /\ cliente.en \in {"libre", "lazo"}
  /\ WebContada

LEMMA WebStep == WebInv /\ [WebNext]_web => WebInv'
<1> SUFFICES ASSUME WebInv, [WebNext]_web PROVE WebInv'
  OBVIOUS
<1> USE DEF WebInv, WebContada
<1>1. ASSUME NEW p \in Peticiones, Aceptar(p) PROVE WebInv'
  BY <1>1 DEF Aceptar, SinCliente
<1>2. CASE Llega \/ Irse \/ Reloj
  <2>1. UNCHANGED <<Estado, pinLed, cortada>>
    BY <1>2 DEF Llega, Irse, Reloj
  <2>2. "en" \in DOMAIN cliente' /\ cliente'.en = cliente.en
    BY <1>2 DEF Llega, Irse, Reloj
  <2> QED  BY <2>1, <2>2
<1>3. CASE LeerLetra
  <2>1. CASE ResponderCliente
    BY <2>1 DEF ResponderCliente, SinCliente
  <2>2. CASE ~ResponderCliente
    <3>1. cliente.en = "lazo"
      BY <1>3 DEF LeerLetra
    <3>2. \/ cliente' = [cliente EXCEPT !.llegado = Tail(cliente.llegado), !.LineaActual = ""]
          \/ cliente' = [cliente EXCEPT !.llegado = Tail(cliente.llegado), !.LineaActual = Head(cliente.llegado)]
      BY <1>3, <2>2 DEF LeerLetra
    <3>3. "en" \in DOMAIN cliente' /\ cliente'.en = "lazo"
      BY <3>1, <3>2
    <3> QED  BY <3>3
  <2> QED  BY <2>1, <2>2
<1>4. CASE Dejar
  BY <1>4 DEF Dejar, SinCliente
<1>5. CASE UNCHANGED web
  BY <1>5 DEF web
<1> QED  BY <1>1, <1>2, <1>3, <1>4, <1>5 DEF WebNext

-----------------------------------------------------------------------------
(* The program that the board was flashed with.                            *)
ProgramaInv ==
  /\ PulsadorInv /\ LuzInv
  /\ programa = "primero" => FirmwareInv
  /\ WebInv

LEMMA ProgramaInit == TarjetaInit => ProgramaInv
<1> SUFFICES ASSUME TarjetaInit PROVE ProgramaInv
  OBVIOUS
<1>1. PulsadorInv
  BY TopeAssumption DEF TarjetaInit, PulsadorInit, PulsadorInv
<1>2. LuzInv
  <2>1. /\ on = FALSE /\ paginas = FALSE /\ cruzados = FALSE
        /\ hilo = [t \in Tareas |-> [en |-> "libre", valor |-> FALSE]]
    BY DEF TarjetaInit, PulsadorInit
  <2>2. \A t \in Tareas : hilo[t].en = "libre"
    BY <2>1
  <2>3. HiloType
    BY <2>1 DEF HiloType
  <2> QED  BY <2>1, <2>2, <2>3 DEF LuzInv, Activa, Tareas
<1>3. FirmwareInv
  BY DEF TarjetaInit, LuzInit, FirmwareInv, FirmwareContada
<1>4. WebInv
  BY DEF TarjetaInit, WebInit, SinCliente, WebInv, WebContada
<1> QED  BY <1>1, <1>2, <1>3, <1>4 DEF ProgramaInv

LEMMA ProgramaStep == ProgramaInv /\ [TarjetaNext]_tarjeta => ProgramaInv'
<1> SUFFICES ASSUME ProgramaInv, [TarjetaNext]_tarjeta PROVE ProgramaInv'
  OBVIOUS
<1>1. UNCHANGED programa
  BY DEF TarjetaNext, tarjeta
<1>2. [PulsadorNext]_pulsador /\ [WebNext]_web
  BY DEF TarjetaNext, tarjeta
<1>3. PulsadorInv' /\ LuzInv' /\ WebInv'
  BY <1>2, PulsadorStep, LuzStep, WebStep DEF ProgramaInv
<1>4. programa = "primero" => [FirmwareNext]_<<vars, primero>>
  BY DEF TarjetaNext, tarjeta
<1> QED  BY <1>1, <1>3, <1>4, FirmwareStep DEF ProgramaInv

LEMMA ProgramaSiempre == TarjetaSpec => []ProgramaInv
BY ProgramaInit, ProgramaStep, PTL DEF TarjetaSpec

\* However long the button is held, past the end of its counter, and whatever the
\* pages send meanwhile, a press without a bounce in the pass after the one that
\* counted it switches the light once.
THEOREM UnaPorPulsacionCorrect == TarjetaSpec => []UnaPorPulsacion
<1>1. ProgramaInv => UnaPorPulsacion
  BY DEF ProgramaInv, PulsadorInv, UnaPorPulsacion
<1> QED  BY <1>1, ProgramaSiempre, PTL

\* What browsers are told of a light is how it is, in each of the three programs.
THEOREM LuzContadaCorrect == TarjetaSpec => []LuzContada
<1>1. ProgramaInv => LuzContada
  <2> SUFFICES ASSUME ProgramaInv PROVE LuzContada
    OBVIOUS
  <2>1. programa = "primero" => FirmwareContada
    BY DEF ProgramaInv, FirmwareInv
  <2>2. PulsadorContado
    BY DEF ProgramaInv, LuzInv, PulsadorContado, Activa, Tareas
  <2>3. WebContada
    BY DEF ProgramaInv, WebInv
  <2> QED  BY <2>1, <2>2, <2>3 DEF LuzContada
<1> QED  BY <1>1, ProgramaSiempre, PTL
=============================================================================
