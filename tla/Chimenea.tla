------------------------------ MODULE Chimenea ------------------------------
(***************************************************************************)
(* The control loop of the gas fireplace: loop() and webSocketEvent() of   *)
(* ESP32_WiFi_Manager.ino.  The firmware is one thread that runs loop()    *)
(* for ever; pc names the statement of loop() it is at, and each action is *)
(* one such statement.  Inputs (buttons, remote-control pins, the flame    *)
(* sensor, WebSocket frames, elapsed time) are sampled where the code      *)
(* samples them, so they may change between two statements.  A restart or  *)
(* a power cut can come between any two of them.                           *)
(***************************************************************************)
EXTENDS Integers

CONSTANTS
  MaxIntentos,        \* ignition attempts before the lockout (100 in the code)
  SegundosPorMinuto,  \* reload value of contadorMinuto (60 in the code)
  ModContador,        \* contadorMinuto is an unsigned int: it counts modulo this
  Lecturas,           \* what analogRead(Sensor) can return
  Mensajes,           \* the JSON text frames a browser can send
  EepromInicial       \* bytes the flame threshold may hold when power is applied

\* A text frame after parsing; an absent key reads as "nada" or 0.
Mensaje == [estado : {"nada", "on", "alto", "off"},
            setTemporizador : Int, sensorSet : Int, sensorTemp : Int]
Byte == 0..255
direccion0 == 0
direccion1 == 1

ASSUME MaxIntentosAssumption == MaxIntentos \in Nat \ {0}
ASSUME SegundosAssumption ==
  SegundosPorMinuto \in Nat \ {0} /\ ModContador \in Nat /\ ModContador > SegundosPorMinuto
ASSUME LecturasAssumption == Lecturas \subseteq Nat
ASSUME MensajesAssumption == Mensajes \subseteq Mensaje
ASSUME EepromAssumption == EepromInicial \subseteq Byte

VARIABLES
  pc,
  encendida, encendidaAlto,     \* what was asked for: on, high flame
  blink, iniciarCicloEncendido, \* spark phase, ignition cycle running
  intentos,                     \* attempts of this ignition
  minutos, contadorMinuto,      \* shut-off timer
  lectura, sensorVal1, tempVal1, estadoChimenea,
  GasBajo, GasAlto, Chispa,     \* levels of the output pins, TRUE for HIGH
  eeprom                        \* survives a restart

modo      == <<encendida, encendidaAlto>>
ciclo     == <<blink, iniciarCicloEncendido, intentos>>
reloj     == <<minutos, contadorMinuto>>
valvulas  == <<GasBajo, GasAlto>>
salidas   == <<GasBajo, GasAlto, Chispa>>
muestras  == <<lectura, sensorVal1, tempVal1>>
vars == <<pc, modo, ciclo, reloj, muestras, estadoChimenea, salidas, eeprom>>

LlamaDetectada == lectura > sensorVal1
SinLlama       == lectura < sensorVal1

-----------------------------------------------------------------------------
\* The globals' initialisers and what setup() does to pins and EEPROM.

Init ==
  /\ pc = "ws"
  /\ encendida = FALSE /\ encendidaAlto = FALSE
  /\ blink = FALSE /\ iniciarCicloEncendido = FALSE /\ intentos = 0
  /\ minutos = 0 /\ contadorMinuto = SegundosPorMinuto
  /\ lectura = 0 /\ sensorVal1 = 0 /\ tempVal1 = 0 /\ estadoChimenea = "vacio"
  /\ GasBajo = FALSE /\ GasAlto = FALSE /\ Chispa = FALSE
  /\ eeprom \in [{direccion0, direccion1} -> EepromInicial]

\* Power cut, brown-out or ESP.restart(): RAM is lost, the pins go LOW.
Reinicio ==
  /\ pc' = "ws"
  /\ encendida' = FALSE /\ encendidaAlto' = FALSE
  /\ blink' = FALSE /\ iniciarCicloEncendido' = FALSE /\ intentos' = 0
  /\ minutos' = 0 /\ contadorMinuto' = SegundosPorMinuto
  /\ lectura' = 0 /\ sensorVal1' = 0 /\ tempVal1' = 0 /\ estadoChimenea' = "vacio"
  /\ GasBajo' = FALSE /\ GasAlto' = FALSE /\ Chispa' = FALSE
  /\ UNCHANGED eeprom

-----------------------------------------------------------------------------
\* The assignments that "off", the off button and the off remote share; its
\* mutants forget one of them.
Apagar_GasBajoAbierto ==
  /\ encendida' = FALSE /\ encendidaAlto' = FALSE /\ blink' = FALSE
  /\ iniciarCicloEncendido' = FALSE /\ minutos' = 0
  /\ UNCHANGED GasBajo /\ GasAlto' = FALSE /\ Chispa' = FALSE
Apagar_GasAltoAbierto ==
  /\ encendida' = FALSE /\ encendidaAlto' = FALSE /\ blink' = FALSE
  /\ iniciarCicloEncendido' = FALSE /\ minutos' = 0
  /\ GasBajo' = FALSE /\ UNCHANGED GasAlto /\ Chispa' = FALSE
Apagar_SinPararReloj ==
  /\ encendida' = FALSE /\ encendidaAlto' = FALSE /\ blink' = FALSE
  /\ iniciarCicloEncendido' = FALSE /\ UNCHANGED minutos
  /\ GasBajo' = FALSE /\ GasAlto' = FALSE /\ Chispa' = FALSE
Apagar ==
  /\ encendida' = FALSE /\ encendidaAlto' = FALSE /\ blink' = FALSE
  /\ iniciarCicloEncendido' = FALSE /\ minutos' = 0
  /\ GasBajo' = FALSE /\ GasAlto' = FALSE /\ Chispa' = FALSE

EncenderEnBajo ==
  encendida' = TRUE /\ blink' = TRUE /\ encendidaAlto' = FALSE

\* EEPROM.write takes a uint8_t.
Escribir(dir, val) == IF val = 0 THEN eeprom[dir] ELSE val % 256

-----------------------------------------------------------------------------
\* pc = "ws": webSocket.loop() delivers any number of frames.

TemporizadorDe(m) == IF m.setTemporizador # 0 THEN m.setTemporizador ELSE minutos

\* The keys of a frame that the fireplace's state depends on.
AplicarEstado(m) ==
  \/ /\ m.estado = "nada"
     /\ minutos' = TemporizadorDe(m)
     /\ UNCHANGED <<modo, ciclo, contadorMinuto, salidas>>
  \/ /\ m.estado = "on"
     /\ EncenderEnBajo
     /\ Chispa' = TRUE /\ GasBajo' = TRUE
     /\ minutos' = TemporizadorDe(m)
     /\ UNCHANGED <<iniciarCicloEncendido, intentos, contadorMinuto, GasAlto>>
  \/ /\ m.estado = "alto"
     /\ encendida' = TRUE /\ encendidaAlto' = TRUE
     /\ minutos' = TemporizadorDe(m)
     /\ UNCHANGED <<ciclo, contadorMinuto, salidas>>
  \/ /\ m.estado = "off"
     /\ Apagar
     /\ intentos' = 0 /\ contadorMinuto' = 0

webSocketEvent(m) ==
  /\ pc = "ws"
  /\ AplicarEstado(m)
  /\ eeprom' = [eeprom EXCEPT ![direccion0] = Escribir(direccion0, m.sensorSet),
                              ![direccion1] = Escribir(direccion1, m.sensorTemp)]
  /\ sensorVal1' = IF m.sensorSet # 0 THEN eeprom'[direccion0] ELSE sensorVal1
  /\ tempVal1'   = IF m.sensorTemp # 0 THEN eeprom'[direccion1] ELSE tempVal1
  /\ UNCHANGED <<pc, lectura, estadoChimenea>>

\* The mutant forgets the scale of the threshold.
LeerSensor_SinEscala(valor) ==
  /\ pc = "ws" /\ pc' = "encender"
  /\ sensorVal1' = eeprom[direccion0]
  /\ tempVal1' = eeprom[direccion1]
  /\ lectura' = valor
  /\ UNCHANGED <<modo, ciclo, reloj, estadoChimenea, salidas, eeprom>>
LeerSensor(valor) ==
  /\ pc = "ws" /\ pc' = "encender"
  /\ sensorVal1' = eeprom[direccion0] * 13
  /\ tempVal1' = eeprom[direccion1]
  /\ lectura' = valor
  /\ UNCHANGED <<modo, ciclo, reloj, estadoChimenea, salidas, eeprom>>

-----------------------------------------------------------------------------
\* The two buttons.  The on button is read again by the loop that waits for
\* its release, so an edge can fall between the two reads.

BotonEncendido(pulsado) ==
  /\ pc = "encender" /\ pc' = "mantener"
  /\ IF pulsado THEN EncenderEnBajo ELSE UNCHANGED <<modo, blink>>
  /\ UNCHANGED <<iniciarCicloEncendido, intentos, reloj, muestras,
                 estadoChimenea, salidas, eeprom>>

\* The button is still down tiempo_max ms after line 379.
PulsacionLarga ==
  /\ pc = "mantener"
  /\ encendidaAlto' = TRUE
  /\ UNCHANGED <<pc, encendida, ciclo, reloj, muestras, estadoChimenea,
                 salidas, eeprom>>

SoltarBoton ==
  /\ pc = "mantener" /\ pc' = "apagar"
  /\ UNCHANGED <<modo, ciclo, reloj, muestras, estadoChimenea, salidas, eeprom>>

BotonApagado(pulsado) ==
  /\ pc = "apagar" /\ pc' = "contBaj"
  /\ IF pulsado
       THEN Apagar
       ELSE UNCHANGED <<modo, blink, iniciarCicloEncendido, minutos, salidas>>
  /\ UNCHANGED <<intentos, contadorMinuto, muestras, estadoChimenea, eeprom>>

-----------------------------------------------------------------------------
\* The three pins of the remote control.

ControlBajo(alto) ==
  /\ pc = "contBaj" /\ pc' = "contAlt"
  /\ IF alto
       THEN EncenderEnBajo /\ Chispa' = TRUE
       ELSE UNCHANGED <<modo, blink, Chispa>>
  /\ UNCHANGED <<iniciarCicloEncendido, intentos, reloj, muestras,
                 estadoChimenea, valvulas, eeprom>>

ControlAlto(alto) ==
  /\ pc = "contAlt" /\ pc' = "contAp"
  /\ encendidaAlto' = (encendidaAlto \/ alto)
  /\ UNCHANGED <<encendida, ciclo, reloj, muestras, estadoChimenea, salidas, eeprom>>

ControlApagado(alto) ==
  /\ pc = "contAp" /\ pc' = "llama"
  /\ IF alto
       THEN Apagar
       ELSE UNCHANGED <<modo, blink, iniciarCicloEncendido, minutos, salidas>>
  /\ UNCHANGED <<intentos, contadorMinuto, muestras, estadoChimenea, eeprom>>

-----------------------------------------------------------------------------
\* What one pass drives onto the pins.  Chispa takes blink's value before a
\* detected flame clears it; a reading equal to the threshold changes nothing.

\* The mutant looks at the valve once and for all.
Llama_EstadoViejo ==
  /\ pc = "llama" /\ pc' = "alto"
  /\ estadoChimenea' = IF estadoChimenea # "vacio" THEN estadoChimenea
                       ELSE IF GasBajo THEN "Encendida" ELSE "Apagada"
  /\ IF encendida
       THEN /\ Chispa' = blink /\ GasBajo' = TRUE
            /\ iniciarCicloEncendido' = (SinLlama \/ (iniciarCicloEncendido /\ ~LlamaDetectada))
            /\ blink' = (blink /\ ~LlamaDetectada)
       ELSE UNCHANGED <<Chispa, GasBajo, iniciarCicloEncendido, blink>>
  /\ UNCHANGED <<modo, intentos, reloj, muestras, GasAlto, eeprom>>
Llama ==
  /\ pc = "llama" /\ pc' = "alto"
  /\ estadoChimenea' = IF GasBajo THEN "Encendida" ELSE "Apagada"
  /\ IF encendida
       THEN /\ Chispa' = blink /\ GasBajo' = TRUE
            /\ iniciarCicloEncendido' = (SinLlama \/ (iniciarCicloEncendido /\ ~LlamaDetectada))
            /\ blink' = (blink /\ ~LlamaDetectada)
       ELSE UNCHANGED <<Chispa, GasBajo, iniciarCicloEncendido, blink>>
  /\ UNCHANGED <<modo, intentos, reloj, muestras, GasAlto, eeprom>>

Alto ==
  /\ pc = "alto" /\ pc' = "limpiar"
  /\ GasAlto' = (encendidaAlto /\ (LlamaDetectada \/ GasAlto))
  /\ UNCHANGED <<modo, ciclo, reloj, muestras, estadoChimenea, GasBajo, Chispa, eeprom>>

\* The mutant forgets line 466.
Limpiar_GasAltoAbierto ==
  /\ pc = "limpiar" /\ pc' = "tick"
  /\ IF encendida
       THEN UNCHANGED <<modo, ciclo, GasBajo>>
       ELSE /\ GasBajo' = FALSE
            /\ encendida' = FALSE /\ encendidaAlto' = FALSE
            /\ iniciarCicloEncendido' = FALSE /\ blink' = FALSE /\ intentos' = 0
  /\ UNCHANGED <<reloj, muestras, estadoChimenea, GasAlto, Chispa, eeprom>>
Limpiar ==
  /\ pc = "limpiar" /\ pc' = "tick"
  /\ IF encendida
       THEN UNCHANGED <<modo, ciclo, valvulas>>
       ELSE /\ GasBajo' = FALSE /\ GasAlto' = FALSE
            /\ encendida' = FALSE /\ encendidaAlto' = FALSE
            /\ iniciarCicloEncendido' = FALSE /\ blink' = FALSE /\ intentos' = 0
  /\ UNCHANGED <<reloj, muestras, estadoChimenea, Chispa, eeprom>>

-----------------------------------------------------------------------------
\* pc = "tick": the block that runs once per interval.

SinSegundo ==
  /\ pc = "tick" /\ pc' = "ws"
  /\ UNCHANGED <<modo, ciclo, reloj, muestras, estadoChimenea, salidas, eeprom>>

\* The spark phase ends: the code returns before it counts the timer down.
\* The mutant forgets line 495.
SegundoDeChispa_SinPausa ==
  /\ pc = "tick" /\ pc' = "ws"
  /\ blink /\ iniciarCicloEncendido
  /\ UNCHANGED <<modo, ciclo, reloj, muestras, estadoChimenea, salidas, eeprom>>
SegundoDeChispa ==
  /\ pc = "tick" /\ pc' = "ws"
  /\ blink /\ iniciarCicloEncendido
  /\ blink' = FALSE
  /\ UNCHANGED <<modo, iniciarCicloEncendido, intentos, reloj, muestras,
                 estadoChimenea, salidas, eeprom>>

NuevoIntento == ~blink /\ iniciarCicloEncendido
\* The mutant forgets line 501.
IntentosTras_SinContar == intentos
IntentosTras == IF NuevoIntento THEN intentos + 1 ELSE intentos
\* The mutant has > for >= in line 525.
Bloqueo_UnoDeMas == IntentosTras > MaxIntentos
Bloqueo      == IntentosTras >= MaxIntentos

Decremento  == (contadorMinuto - 1) % ModContador
FinDeMinuto == Decremento = 0

\* Lines 504-523, as seen after them; the mutant forgets line 513.
Temporizador_SinRecarga ==
  IF minutos > 0
    THEN /\ contadorMinuto' = Decremento
         /\ minutos' = IF FinDeMinuto THEN minutos - 1 ELSE minutos
    ELSE UNCHANGED reloj
Temporizador ==
  IF minutos > 0
    THEN /\ contadorMinuto' = IF FinDeMinuto THEN SegundosPorMinuto ELSE Decremento
         /\ minutos' = IF FinDeMinuto THEN minutos - 1 ELSE minutos
    ELSE UNCHANGED reloj
Vence == minutos > 0 /\ FinDeMinuto /\ minutos = 1

Segundo ==
  /\ pc = "tick" /\ pc' = "ws"
  /\ ~(blink /\ iniciarCicloEncendido)
  /\ Temporizador
  /\ encendida' = (~Bloqueo /\ ~Vence /\ (encendida \/ minutos > 0))
  /\ encendidaAlto' = (~Bloqueo /\ encendidaAlto)
  /\ iniciarCicloEncendido' = (~Bloqueo /\ ~Vence /\ iniciarCicloEncendido)
  /\ blink' = (~Bloqueo /\ (blink \/ NuevoIntento))
  /\ intentos' = IF Bloqueo THEN 0 ELSE IntentosTras
  /\ GasBajo' = (~Bloqueo /\ ~Vence /\ GasBajo)
  /\ GasAlto' = (~Bloqueo /\ ~Vence /\ GasAlto)
  /\ UNCHANGED <<muestras, estadoChimenea, Chispa, eeprom>>

-----------------------------------------------------------------------------
Lazo ==
  \/ \E m \in Mensajes : webSocketEvent(m)
  \/ \E valor \in Lecturas : LeerSensor(valor)
  \/ \E nivel \in BOOLEAN :
       \/ BotonEncendido(nivel) \/ BotonApagado(nivel)
       \/ ControlBajo(nivel) \/ ControlAlto(nivel) \/ ControlApagado(nivel)
  \/ PulsacionLarga \/ SoltarBoton
  \/ Llama \/ Alto \/ Limpiar
  \/ SinSegundo \/ SegundoDeChispa \/ Segundo

Next == Lazo \/ Reinicio

Spec == Init /\ [][Next]_vars

\* A frame asks for a burn, asks for it to stop, or does neither.
PideEncender(m) == m.estado \in {"on", "alto"} \/ (m.estado = "nada" /\ m.setTemporizador > 0)
PideApagar(m)   == m.estado = "off"
Neutra(m)       == ~PideEncender(m) /\ ~PideApagar(m)

Peticion ==
  \/ \E m \in Mensajes : PideEncender(m) /\ webSocketEvent(m)
  \/ BotonEncendido(TRUE)
  \/ ControlBajo(TRUE)

-----------------------------------------------------------------------------
\* The statements loop() goes through when nobody interferes.
Avance ==
  \/ \E valor \in Lecturas : LeerSensor(valor)
  \/ \E nivel \in BOOLEAN :
       \/ BotonEncendido(nivel) \/ BotonApagado(nivel)
       \/ ControlBajo(nivel) \/ ControlAlto(nivel) \/ ControlApagado(nivel)
  \/ SoltarBoton \/ Llama \/ Alto \/ Limpiar
  \/ SinSegundo \/ SegundoDeChispa \/ Segundo

\* loop() never stops advancing (a held button is released in the end, frames
\* do not arrive for ever within one pass), and the clock does not stop: of
\* the passes that reach line 475, infinitely many find the interval elapsed.
Fairness == WF_vars(Avance) /\ SF_vars(SegundoDeChispa \/ Segundo)

FairSpec == Spec /\ Fairness

-----------------------------------------------------------------------------
\* Type invariant of the globals of lines 76-134: intentos never reaches the
\* limit that resets it, contadorMinuto stays within its unsigned width and the
\* EEPROM cells are bytes.
TypeFlags ==
  /\ encendida \in BOOLEAN /\ encendidaAlto \in BOOLEAN
  /\ blink \in BOOLEAN /\ iniciarCicloEncendido \in BOOLEAN
  /\ GasBajo \in BOOLEAN /\ GasAlto \in BOOLEAN /\ Chispa \in BOOLEAN
TypeData ==
  /\ pc \in {"ws", "encender", "mantener", "apagar", "contBaj", "contAlt",
             "contAp", "llama", "alto", "limpiar", "tick"}
  /\ intentos \in 0..(MaxIntentos - 1)
  /\ minutos \in Int /\ contadorMinuto \in 0..(ModContador - 1)
  /\ lectura \in Nat /\ sensorVal1 \in Nat /\ tempVal1 \in Byte
  /\ estadoChimenea \in {"vacio", "Encendida", "Apagada"}
  /\ eeprom \in [{direccion0, direccion1} -> Byte]
TypeOK == TypeFlags /\ TypeData

\* The low valve is open only while the controller holds the fireplace on, at
\* every statement of loop(): no path through lines 373-535 that clears
\* encendida leaves GasBajo HIGH behind.
GasImplicaEncendida == GasBajo => encendida

\* The high valve is open only over an open low valve, except between lines
\* 456 and 466, where ContAlt or an expired timer can open it for the rest of
\* the pass that closes it.
Enclavamiento == pc # "limpiar" => (GasAlto => GasBajo)

\* The two together: no statement of a pass leaves a valve open that it should not.
ValvulasEnOrden == GasImplicaEncendida /\ Enclavamiento

\* A burn always starts in low (header, line 9): whatever opens GasBajo, a
\* frame at line 597 or line 442, finds GasAlto closed.
ArranqueEnBajo == [][~GasBajo /\ GasBajo' => ~GasAlto']_vars

\* If requests stop and the sensor never again shows a flame, the low valve
\* ends up closed for good: the attempts of lines 493-534 run out, and a timer
\* that relights the fireplace after that (line 506) runs out too.
SinLlamaSeCierra ==
  (<>[][~Peticion]_vars /\ <>[](pc = "llama" => SinLlama)) => <>[]~GasBajo

\* If requests stop, a timer that was set closes the low valve in the end,
\* burning or not, unless a frame cancels it (a negative setting): the early
\* return of line 496 cannot starve the countdown.
TemporizadorApaga ==
  <>[][~Peticion]_vars => ((minutos > 0) ~> (~GasBajo \/ minutos < 0))

-----------------------------------------------------------------------------
\* The registers minutos and contadorMinuto as the abstract timer of CuentaRegresiva.

\* Line 614 leaves a zero in an unsigned register that is counted down before it
\* is compared: it stands for a whole turn of the register.
Pendientes == IF contadorMinuto = 0 THEN ModContador ELSE contadorMinuto
Restan == IF minutos > 0 THEN (minutos - 1) * SegundosPorMinuto + Pendientes ELSE 0
PrimerMinuto == IF \E m \in Mensajes : PideApagar(m) THEN ModContador ELSE SegundosPorMinuto

Cuenta == INSTANCE CuentaRegresiva WITH
  PorMinuto <- SegundosPorMinuto,
  PrimerMinuto <- PrimerMinuto,
  Ajustes   <- {m.setTemporizador : m \in Mensajes} \cap (Nat \ {0}),
  fase      <- IF pc = "ws" THEN "ordenes" ELSE "pasada",
  restan    <- Restan,
  gas       <- GasBajo

\* minutos and contadorMinuto implement the timer: frames set it or cancel it,
\* the once-a-second block of lines 504-523 alone counts it down, by one, and
\* reaching zero closes GasBajo in that step, whatever the buttons, the remote,
\* the ignition cycle and the lockout do meanwhile.  The first minute lasts a
\* minute at most, unless a frame may say "off" (TiempoRestante of
\* ChimeneaHistoria shows that it does not then).
ImplementaCuenta == Cuenta!Spec
=============================================================================
