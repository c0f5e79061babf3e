--------------------------- MODULE ChimeneaProofs ---------------------------
(***************************************************************************)
(* Proofs about the control loop for every number of attempts, length of   *)
(* the minute, width of the counter, set of readings and set of frames.    *)
(***************************************************************************)
EXTENDS Chimenea, TLAPS

\* A byte written to the EEPROM is a byte, whatever integer the frame carried.
LEMMA EscribirByte ==
  ASSUME TypeData, NEW dir \in {direccion0, direccion1}, NEW val \in Int
  PROVE  Escribir(dir, val) \in Byte
BY DEF TypeData, Escribir, Byte, direccion0, direccion1

\* The unsigned decrement stays within the counter's width.
LEMMA DecrementoEnRango ==
  ASSUME TypeData
  PROVE  Decremento \in 0..(ModContador - 1)
BY SegundosAssumption DEF TypeData, Decremento

\* Flags and pins stay Boolean in every step.
LEMMA FlagsStep == TypeOK /\ [Next]_vars => TypeFlags'
<1> SUFFICES ASSUME TypeFlags, [Next]_vars PROVE TypeFlags'
  BY DEF TypeOK
<1> USE DEF TypeFlags, modo, ciclo, reloj, valvulas, salidas, muestras
<1>1. ASSUME NEW m \in Mensajes, webSocketEvent(m) PROVE TypeFlags'
  BY <1>1, Zenon DEF webSocketEvent, AplicarEstado, Apagar, EncenderEnBajo
<1>2. ASSUME NEW valor \in Lecturas, LeerSensor(valor) PROVE TypeFlags'
  BY <1>2, Zenon DEF LeerSensor
<1>3. ASSUME NEW nivel \in BOOLEAN, BotonEncendido(nivel) \/ ControlBajo(nivel)
      PROVE  TypeFlags'
  BY <1>3, Zenon DEF BotonEncendido, ControlBajo, EncenderEnBajo
<1>4. ASSUME NEW nivel \in BOOLEAN, BotonApagado(nivel) \/ ControlApagado(nivel)
      PROVE  TypeFlags'
  BY <1>4, Zenon DEF BotonApagado, ControlApagado, Apagar
<1>5. ASSUME NEW nivel \in BOOLEAN, ControlAlto(nivel) PROVE TypeFlags'
  BY <1>5, Zenon DEF ControlAlto
<1>6. CASE PulsacionLarga \/ SoltarBoton
  BY <1>6, Zenon DEF PulsacionLarga, SoltarBoton
<1>7. CASE Llama
  BY <1>7, Zenon DEF Llama
<1>8. CASE Alto
  BY <1>8, Zenon DEF Alto
<1>9. CASE Limpiar
  BY <1>9, Zenon DEF Limpiar
<1>10. CASE SinSegundo \/ SegundoDeChispa
  BY <1>10, Zenon DEF SinSegundo, SegundoDeChispa
<1>11. CASE Segundo
  BY <1>11, Zenon DEF Segundo
<1>12. CASE Reinicio
  BY <1>12, Zenon DEF Reinicio
<1>13. CASE UNCHANGED vars
  BY <1>13, Zenon DEF vars
<1> QED  BY <1>1, <1>2, <1>3, <1>4, <1>5, <1>6, <1>7, <1>8, <1>9, <1>10,
            <1>11, <1>12, <1>13 DEF Next, Lazo

\* The counters, readings and EEPROM cells stay in range in every step.
LEMMA DataStep == TypeOK /\ [Next]_vars => TypeData'
<1> SUFFICES ASSUME TypeData, [Next]_vars PROVE TypeData'
  BY DEF TypeOK
<1> USE DEF TypeData, modo, ciclo, reloj, valvulas, salidas, muestras
<1>1. ASSUME NEW m \in Mensajes, webSocketEvent(m) PROVE TypeData'
  <2>1. m.setTemporizador \in Int /\ m.sensorSet \in Int /\ m.sensorTemp \in Int
    BY MensajesAssumption DEF Mensaje
  <2>2. eeprom' \in [{direccion0, direccion1} -> Byte]
    BY <1>1, <2>1, EscribirByte DEF webSocketEvent, direccion0, direccion1
  <2>3. sensorVal1' \in Nat /\ tempVal1' \in Byte
    BY <1>1, <2>2 DEF webSocketEvent, Byte, direccion0, direccion1
  <2>4. /\ intentos' \in 0..(MaxIntentos - 1)
        /\ minutos' \in Int /\ contadorMinuto' \in 0..(ModContador - 1)
    BY <1>1, <2>1, MaxIntentosAssumption, SegundosAssumption
       DEF webSocketEvent, AplicarEstado, TemporizadorDe, Apagar, EncenderEnBajo
  <2> QED  BY <1>1, <2>2, <2>3, <2>4 DEF webSocketEvent
<1>2. ASSUME NEW valor \in Lecturas, LeerSensor(valor) PROVE TypeData'
  <2>1. eeprom[direccion0] * 13 \in Nat /\ eeprom[direccion1] \in Byte
    BY DEF Byte, direccion0, direccion1
  <2> QED  BY <1>2, <2>1, LecturasAssumption DEF LeerSensor
<1>3. ASSUME NEW nivel \in BOOLEAN, BotonEncendido(nivel) \/ ControlBajo(nivel)
      PROVE  TypeData'
  BY <1>3 DEF BotonEncendido, ControlBajo, EncenderEnBajo
<1>4. ASSUME NEW nivel \in BOOLEAN, BotonApagado(nivel) \/ ControlApagado(nivel)
      PROVE  TypeData'
  BY <1>4 DEF BotonApagado, ControlApagado, Apagar
<1>5. ASSUME NEW nivel \in BOOLEAN, ControlAlto(nivel) PROVE TypeData'
  BY <1>5 DEF ControlAlto
<1>6. CASE PulsacionLarga \/ SoltarBoton
  BY <1>6 DEF PulsacionLarga, SoltarBoton
<1>7. CASE Llama
  BY <1>7 DEF Llama
<1>8. CASE Alto
  BY <1>8 DEF Alto
<1>9. CASE Limpiar
  BY <1>9, MaxIntentosAssumption DEF Limpiar
<1>10. CASE SinSegundo \/ SegundoDeChispa
  BY <1>10 DEF SinSegundo, SegundoDeChispa
<1>11. CASE Segundo
  <2>1. intentos' \in 0..(MaxIntentos - 1)
    BY <1>11, MaxIntentosAssumption DEF Segundo, Bloqueo, IntentosTras
  <2>2. minutos' \in Int /\ contadorMinuto' \in 0..(ModContador - 1)
    BY <1>11, DecrementoEnRango, SegundosAssumption
       DEF Segundo, Temporizador, FinDeMinuto
  <2> QED  BY <1>11, <2>1, <2>2 DEF Segundo
<1>12. CASE Reinicio
  BY <1>12, MaxIntentosAssumption, SegundosAssumption DEF Reinicio, Byte
<1>13. CASE UNCHANGED vars
  BY <1>13 DEF vars
<1> QED  BY <1>1, <1>2, <1>3, <1>4, <1>5, <1>6, <1>7, <1>8, <1>9, <1>10,
            <1>11, <1>12, <1>13 DEF Next, Lazo

\* Every global keeps its type in every behaviour; with it, intentos never
\* reaches the limit and contadorMinuto never leaves its unsigned width.
THEOREM TypeCorrect == Spec => []TypeOK
<1>1. Init => TypeFlags
  BY Zenon DEF Init, TypeFlags
<1>2. Init => TypeData
  <2>1. Init => eeprom \in [{direccion0, direccion1} -> Byte]
    BY EepromAssumption DEF Init
  <2> QED  BY <2>1, MaxIntentosAssumption, SegundosAssumption DEF Init, TypeData, Byte
<1>3. TypeOK /\ [Next]_vars => TypeOK'
  BY FlagsStep, DataStep DEF TypeOK
<1> QED  BY <1>1, <1>2, <1>3, PTL DEF Spec, TypeOK

-----------------------------------------------------------------------------
\* Line 442 has opened the low valve of a fireplace that is on before the pass
\* reaches lines 454 and 463: what makes the interlock inductive.
BajoTrasLlama == pc \in {"alto", "limpiar"} /\ encendida => GasBajo

Valvulas == GasImplicaEncendida /\ Enclavamiento /\ BajoTrasLlama

LEMMA ValvulasStep == TypeOK /\ Valvulas /\ [Next]_vars => Valvulas'
<1> SUFFICES ASSUME TypeOK, Valvulas, [Next]_vars PROVE Valvulas'
  OBVIOUS
<1> USE DEF Valvulas, GasImplicaEncendida, Enclavamiento, BajoTrasLlama,
            modo, ciclo, reloj, valvulas, salidas, muestras
<1>1. ASSUME NEW m \in Mensajes, webSocketEvent(m) PROVE Valvulas'
  BY <1>1 DEF webSocketEvent, AplicarEstado, Apagar, EncenderEnBajo
<1>2. ASSUME NEW valor \in Lecturas, LeerSensor(valor) PROVE Valvulas'
  BY <1>2 DEF LeerSensor
<1>3. ASSUME NEW nivel \in BOOLEAN, BotonEncendido(nivel) \/ ControlBajo(nivel)
      PROVE  Valvulas'
  BY <1>3 DEF BotonEncendido, ControlBajo, EncenderEnBajo
<1>4. ASSUME NEW nivel \in BOOLEAN, BotonApagado(nivel) \/ ControlApagado(nivel)
      PROVE  Valvulas'
  BY <1>4 DEF BotonApagado, ControlApagado, Apagar
<1>5. ASSUME NEW nivel \in BOOLEAN, ControlAlto(nivel) PROVE Valvulas'
  BY <1>5 DEF ControlAlto
<1>6. CASE PulsacionLarga \/ SoltarBoton
  BY <1>6 DEF PulsacionLarga, SoltarBoton
<1>7. CASE Llama
  BY <1>7 DEF Llama
<1>8. CASE Alto
  BY <1>8 DEF Alto
<1>9. CASE Limpiar
  BY <1>9 DEF Limpiar
<1>10. CASE SinSegundo \/ SegundoDeChispa
  BY <1>10 DEF SinSegundo, SegundoDeChispa
<1>11. CASE Segundo
  BY <1>11 DEF Segundo
<1>12. CASE Reinicio
  BY <1>12 DEF Reinicio
<1>13. CASE UNCHANGED vars
  BY <1>13 DEF vars
<1> QED  BY <1>1, <1>2, <1>3, <1>4, <1>5, <1>6, <1>7, <1>8, <1>9, <1>10,
            <1>11, <1>12, <1>13 DEF Next, Lazo

LEMMA ValvulasInv == Spec => [](TypeOK /\ Valvulas)
<1>1. Init => Valvulas
  BY DEF Init, Valvulas, GasImplicaEncendida, Enclavamiento, BajoTrasLlama
<1> QED  BY <1>1, TypeCorrect, ValvulasStep, PTL DEF Spec

\* The low valve is never open behind a controller that holds the fireplace off.
THEOREM GasImplicaEncendidaCorrect == Spec => []GasImplicaEncendida
BY ValvulasInv, PTL DEF Valvulas

\* The high valve is never open over a closed low one, save in the statement
\* Enclavamiento excepts.
THEOREM EnclavamientoCorrect == Spec => []Enclavamiento
BY ValvulasInv, PTL DEF Valvulas

\* No statement of a pass leaves a valve open that it should not.
THEOREM ValvulasEnOrdenCorrect == Spec => []ValvulasEnOrden
BY GasImplicaEncendidaCorrect, EnclavamientoCorrect, PTL DEF ValvulasEnOrden

\* Whatever opens the low valve finds and leaves the high valve closed.
THEOREM ArranqueEnBajoCorrect == Spec => ArranqueEnBajo
<1>1. TypeOK /\ Valvulas /\ [Next]_vars => [~GasBajo /\ GasBajo' => ~GasAlto']_vars
  <2> SUFFICES ASSUME TypeOK, Valvulas, Next, ~GasBajo, GasBajo' PROVE ~GasAlto'
    OBVIOUS
  <2> USE DEF modo, ciclo, reloj, valvulas, salidas, muestras
  <2>1. (\E m \in Mensajes : webSocketEvent(m)) \/ Llama
    BY DEF Next, Lazo, LeerSensor, BotonEncendido, BotonApagado, ControlBajo,
           ControlAlto, ControlApagado, Apagar, PulsacionLarga, SoltarBoton, Alto,
           Limpiar, SinSegundo, SegundoDeChispa, Segundo, Reinicio
  <2>2. ~GasAlto
    BY <2>1 DEF Valvulas, Enclavamiento, webSocketEvent, Llama
  <2>3. ASSUME NEW m \in Mensajes, webSocketEvent(m) PROVE ~GasAlto'
    BY <2>2, <2>3 DEF webSocketEvent, AplicarEstado, Apagar
  <2>4. CASE Llama
    BY <2>2, <2>4 DEF Llama
  <2> QED  BY <2>1, <2>3, <2>4
<1> QED  BY <1>1, ValvulasInv, PTL DEF Spec, ArranqueEnBajo
=============================================================================
