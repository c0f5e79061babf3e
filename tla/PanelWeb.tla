------------------------------ MODULE PanelWeb ------------------------------
(***************************************************************************)
(* The control loop together with the browsers that show and command it:   *)
(* js.js (buttons, timer) and js2.js (thresholds) open one WebSocket when   *)
(* they load, send a frame per click and paint what the board broadcasts    *)
(* once a second (lines 474-492 of the sketch).  webSocket.loop() polls     *)
(* every client once per pass, so one frame of each page is applied between *)
(* two readings of the sensor.  A page never opens its socket again.        *)
(***************************************************************************)
EXTENDS Chimenea, Sequences

CONSTANTS
  Paginas,        \* pages, each with a client slot of its own in the board
  Clics,          \* the frames a page can send
  MaxSubida,      \* clicks in flight
  MaxBajada       \* broadcasts that fit in the connection

ASSUME PaginasAssumption == Clics \subseteq Mensajes /\ MaxSubida \in Nat /\ MaxBajada \in Nat \ {0}

VARIABLES
  socket,       \* per page: "conectando", "abierto", "perdido"
  subida,       \* per page: frames on their way to the board
  bajada,       \* per page: broadcasts on their way to the page
  pantalla,     \* per page: what its four <span> show
  sondeadas,    \* pages whose slot webSocket.loop() has polled in this pass
  gasContinuo,  \* history: the low valve has been open since the last broadcast
  offEnviado    \* history: per page, an "off" is on its way

pvars == <<socket, subida, bajada, pantalla, sondeadas, gasContinuo, offEnviado>>
avars == <<vars, pvars>>

Guion == [estadoChimenea |-> "-", temporizador |-> 0, sensorVal |-> 0, tempVal |-> 0]

PInit ==
  /\ Init
  /\ socket = [p \in Paginas |-> "conectando"]
  /\ subida = [p \in Paginas |-> <<>>] /\ bajada = [p \in Paginas |-> <<>>]
  /\ pantalla = [p \in Paginas |-> Guion]
  /\ sondeadas = {} /\ gasContinuo = FALSE
  /\ offEnviado = [p \in Paginas |-> FALSE]

-----------------------------------------------------------------------------
\* The page.

\* window.onload: a load or a reload draws the page afresh and opens a socket.
Cargar(p) ==
  /\ socket[p] = "perdido"
  /\ socket' = [socket EXCEPT ![p] = "conectando"]
  /\ pantalla' = [pantalla EXCEPT ![p] = Guion]
  /\ UNCHANGED <<vars, subida, bajada, sondeadas, gasContinuo, offEnviado>>

\* boton_*(): send() on a socket that is not open reaches nobody.
Clic(p, m) ==
  /\ socket[p] = "abierto" /\ Len(subida[p]) < MaxSubida
  /\ subida' = [subida EXCEPT ![p] = Append(@, m)]
  /\ offEnviado' = [offEnviado EXCEPT ![p] = @ \/ m.estado = "off"]
  /\ UNCHANGED <<vars, socket, bajada, pantalla, sondeadas, gasContinuo>>

\* processCommand() of the two pages: innerHTML of the spans, in the order of
\* arrival.  The mutant is the page that paints only those of js.js.
processCommand_SinUmbral(p) ==
  /\ bajada[p] # <<>>
  /\ pantalla' = [pantalla EXCEPT ![p] = [Head(bajada[p]) EXCEPT !.sensorVal = pantalla[p].sensorVal]]
  /\ bajada' = [bajada EXCEPT ![p] = Tail(@)]
  /\ UNCHANGED <<vars, socket, subida, sondeadas, gasContinuo, offEnviado>>
processCommand(p) ==
  /\ bajada[p] # <<>>
  /\ pantalla' = [pantalla EXCEPT ![p] = Head(bajada[p])]
  /\ bajada' = [bajada EXCEPT ![p] = Tail(@)]
  /\ UNCHANGED <<vars, socket, subida, sondeadas, gasContinuo, offEnviado>>

\* Nothing in js.js or js2.js handles onclose: the page stays as it was.
PerderConexion(p) ==
  /\ socket[p] # "perdido"
  /\ socket' = [socket EXCEPT ![p] = "perdido"]
  /\ subida' = [subida EXCEPT ![p] = <<>>] /\ bajada' = [bajada EXCEPT ![p] = <<>>]
  /\ offEnviado' = [offEnviado EXCEPT ![p] = FALSE]
  /\ UNCHANGED <<vars, pantalla, sondeadas, gasContinuo>>

-----------------------------------------------------------------------------
\* The board.

\* webSocket.loop() answers the upgrade of the page.
Conectar(p) ==
  /\ pc = "ws" /\ p \notin sondeadas /\ socket[p] = "conectando"
  /\ socket' = [socket EXCEPT ![p] = "abierto"]
  /\ sondeadas' = sondeadas \cup {p}
  /\ UNCHANGED <<vars, subida, bajada, pantalla, gasContinuo, offEnviado>>

\* It takes one frame of each slot, or finds none.
Sondear(p) ==
  /\ pc = "ws" /\ p \notin sondeadas
  /\ sondeadas' = sondeadas \cup {p}
  /\ IF subida[p] = <<>>
     THEN UNCHANGED <<vars, subida, offEnviado>>
     ELSE /\ webSocketEvent(Head(subida[p]))
          /\ subida' = [subida EXCEPT ![p] = Tail(@)]
          /\ offEnviado' = [offEnviado EXCEPT ![p] =
                              \E i \in 2..Len(subida[p]) : subida[p][i].estado = "off"]
  /\ gasContinuo' = (gasContinuo /\ GasBajo')
  /\ UNCHANGED <<socket, bajada, pantalla>>

\* The mutant reads the sensor without having polled every slot.
Leer_SinSondear(valor) ==
  /\ sondeadas' = {}
  /\ LeerSensor(valor)
  /\ UNCHANGED <<socket, subida, bajada, pantalla, gasContinuo, offEnviado>>
Leer(valor) ==
  /\ sondeadas = Paginas /\ sondeadas' = {}
  /\ LeerSensor(valor)
  /\ UNCHANGED <<socket, subida, bajada, pantalla, gasContinuo, offEnviado>>

\* doc_tx, filled before the block changes the timer.
doc_tx == [estadoChimenea |-> estadoChimenea, temporizador |-> minutos,
           sensorVal |-> sensorVal1, tempVal |-> tempVal1]

\* broadcastTXT() writes to every open client and waits for one that does not
\* take it; whoever times out is lost.
Difundir ==
  /\ \A p \in Paginas : socket[p] = "abierto" => Len(bajada[p]) < MaxBajada
  /\ SegundoDeChispa \/ Segundo
  /\ bajada' = [p \in Paginas |->
                  IF socket[p] = "abierto" THEN Append(bajada[p], doc_tx) ELSE bajada[p]]
  /\ gasContinuo' = GasBajo'
  /\ UNCHANGED <<socket, subida, pantalla, sondeadas, offEnviado>>

Pasar ==
  /\ \/ \E nivel \in BOOLEAN :
          \/ BotonEncendido(nivel) \/ BotonApagado(nivel)
          \/ ControlBajo(nivel) \/ ControlAlto(nivel) \/ ControlApagado(nivel)
     \/ PulsacionLarga \/ SoltarBoton
     \/ Llama \/ Alto \/ Limpiar \/ SinSegundo
  /\ gasContinuo' = (gasContinuo /\ GasBajo')
  /\ UNCHANGED <<socket, subida, bajada, pantalla, sondeadas, offEnviado>>

\* The sockets of a board that restarts are gone, whether the pages know or not.
ReinicioPlaca ==
  /\ Reinicio
  /\ socket' = [p \in Paginas |-> "perdido"]
  /\ subida' = [p \in Paginas |-> <<>>] /\ bajada' = [p \in Paginas |-> <<>>]
  /\ sondeadas' = {} /\ gasContinuo' = FALSE
  /\ offEnviado' = [p \in Paginas |-> FALSE]
  /\ UNCHANGED pantalla

PNext ==
  \/ \E p \in Paginas :
       \/ Cargar(p) \/ processCommand(p) \/ PerderConexion(p)
       \/ Conectar(p) \/ Sondear(p)
       \/ \E m \in Clics : Clic(p, m)
  \/ \E valor \in Lecturas : Leer(valor)
  \/ Pasar \/ Difundir \/ ReinicioPlaca

PSpec == PInit /\ [][PNext]_avars

\* As in Chimenea, the loop advances and its clock runs; a page paints what it
\* receives.
PAvance ==
  \/ \E p \in Paginas : Conectar(p) \/ Sondear(p)
  \/ \E valor \in Lecturas : Leer(valor)
  \/ Pasar /\ ~PulsacionLarga
PFairness ==
  /\ WF_avars(PAvance) /\ SF_avars(Difundir)
  /\ \A p \in Paginas : WF_avars(processCommand(p))
PFairSpec == PSpec /\ PFairness

-----------------------------------------------------------------------------
\* A broadcast never announces gas that is closed, and hides gas that is open at
\* most once: estadoChimenea is read at line 429, before the pass drives the
\* valves at 442, so the first broadcast after a button or the timer opened the
\* gas may still say "Apagada", and the one after it may not.
DifusionVeraz ==
  /\ estadoChimenea = "Encendida" => GasBajo
  /\ estadoChimenea = "Apagada" /\ GasBajo => ~gasContinuo
DifusionAtrasadaUnaVez == [][Difundir => DifusionVeraz]_avars

\* A page whose socket stays open comes to show, for good, the state, the timer
\* and the thresholds that the board settles on.
PanelConverge ==
  \A p \in Paginas :
    (/\ <>[](socket[p] = "abierto")
     /\ <>[][FALSE]_<<GasBajo, minutos, eeprom>>)
      => <>[](pantalla[p] = [estadoChimenea |-> IF GasBajo THEN "Encendida" ELSE "Apagada",
                             temporizador |-> minutos,
                             sensorVal |-> 13 * eeprom[direccion0],
                             tempVal |-> eeprom[direccion1]])

\* A click on OFF in an open page closes the gas, whatever the other pages, the
\* buttons and the flame do, unless its connection is lost on the way.
OffLlega ==
  \A p \in Paginas : offEnviado[p] ~> (~GasBajo \/ socket[p] = "perdido")
=============================================================================
