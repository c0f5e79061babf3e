--------------------------- MODULE HistoriaProofs ---------------------------
(***************************************************************************)
(* Proofs about orders, the timer and gas that flows without a flame, that   *)
(* the registers of the timer implement the abstract countdown, and what the *)
(* panels are told of the gas, for every length of the minute, every set of  *)
(* frames and any number of pages.                                           *)
(***************************************************************************)
EXTENDS ChimeneaHistoria, PanelWeb, SequenceTheorems, ChimeneaProofs

\* A step with its history is a step of the control loop.
LEMMA HistoriaStep == [HNext]_hvars => [Next]_vars
BY DEF HNext, hvars, Peticion, OrdenDeApagar, Agotada, PasoDeLazo, PasoDeSegundo,
       Next, Lazo

LEMMA HistoriaRefina == HSpec => Spec
<1>1. HInit => Init
  BY DEF HInit
<1> QED  BY <1>1, HistoriaStep, PTL DEF HSpec, Spec

-----------------------------------------------------------------------------
\* An order to stop leaves the two things that can reopen the low valve, the
\* flag and a running timer, both cleared.
ApagadoInv == orden = "apagar" => ~encendida /\ minutos <= 0

LEMMA ApagadoStep == TypeOK /\ ApagadoInv /\ [HNext]_hvars => ApagadoInv'
<1> SUFFICES ASSUME TypeOK, ApagadoInv, [HNext]_hvars PROVE ApagadoInv'
  OBVIOUS
<1> USE DEF ApagadoInv, modo, ciclo, reloj, valvulas, salidas, muestras
<1>1. CASE Peticion /\ orden' = "encender"
  BY <1>1
<1>2. CASE OrdenDeApagar
  <2>1. ASSUME NEW m \in Mensajes, PideApagar(m), webSocketEvent(m) PROVE ApagadoInv'
    BY <2>1 DEF PideApagar, webSocketEvent, AplicarEstado, Apagar
  <2>2. CASE BotonApagado(TRUE) \/ ControlApagado(TRUE)
    BY <2>2 DEF BotonApagado, ControlApagado, Apagar
  <2>3. CASE Segundo /\ Vence
    <3>1. minutos' = 0
      BY <2>3 DEF Segundo, Vence, Temporizador
    <3>2. ~encendida'
      BY <2>3, Zenon DEF Segundo
    <3> QED  BY <3>1, <3>2
  <2>4. CASE Reinicio
    BY <2>4 DEF Reinicio
  <2> QED  BY <1>2, <2>1, <2>2, <2>3, <2>4 DEF OrdenDeApagar
<1>3. CASE Agotada /\ orden' = "agotada"
  BY <1>3
<1>4. CASE PasoDeLazo /\ UNCHANGED orden
  <2>1. ASSUME NEW m \in Mensajes, Neutra(m), webSocketEvent(m) PROVE ApagadoInv'
    <3>1. m \in Mensaje
      BY MensajesAssumption
    <3>2. m.estado = "nada" /\ m.setTemporizador \in Int /\ ~(m.setTemporizador > 0)
      BY <2>1, <3>1 DEF Mensaje, Neutra, PideEncender, PideApagar
    <3>3. UNCHANGED encendida /\ minutos' = TemporizadorDe(m)
      BY <2>1, <3>2 DEF webSocketEvent, AplicarEstado
    <3> QED  BY <1>4, <3>2, <3>3 DEF TemporizadorDe
  <2>2. CASE \E valor \in Lecturas : LeerSensor(valor)
    BY <1>4, <2>2 DEF LeerSensor
  <2>3. CASE \/ BotonEncendido(FALSE) \/ BotonApagado(FALSE)
             \/ ControlBajo(FALSE) \/ ControlApagado(FALSE)
    BY <1>4, <2>3 DEF BotonEncendido, BotonApagado, ControlBajo, ControlApagado
  <2>4. CASE \/ \E nivel \in BOOLEAN : ControlAlto(nivel)
             \/ PulsacionLarga \/ SoltarBoton \/ Llama \/ Alto \/ SinSegundo
    BY <1>4, <2>4 DEF ControlAlto, PulsacionLarga, SoltarBoton, Llama, Alto, SinSegundo
  <2>5. CASE Limpiar
    BY <1>4, <2>5 DEF Limpiar
  <2> QED  BY <1>4, <2>1, <2>2, <2>3, <2>4, <2>5 DEF PasoDeLazo
<1>5. CASE PasoDeSegundo /\ UNCHANGED orden
  <2>1. CASE SegundoDeChispa
    BY <1>5, <2>1 DEF SegundoDeChispa
  <2>2. CASE Segundo /\ ~(minutos > 0)
    <3>1. minutos' = minutos
      BY <2>2 DEF Segundo, Temporizador
    <3>2. encendida' => encendida
      BY <2>2, Zenon DEF Segundo
    <3> QED  BY <1>5, <3>1, <3>2
  <2>3. CASE minutos > 0
    BY <1>5, <2>3 DEF TypeOK, TypeData, PasoDeSegundo, SegundoDeChispa, Segundo
  <2> QED  BY <1>5, <2>1, <2>2, <2>3 DEF PasoDeSegundo
<1>6. CASE UNCHANGED hvars
  BY <1>6 DEF hvars, vars
<1> QED  BY <1>1, <1>2, <1>3, <1>4, <1>5, <1>6 DEF HNext

\* After an order to stop the valves stay closed until the next request.
THEOREM ApagadoDuraderoCorrect == HSpec => []ApagadoDuradero
<1>1. HInit => ApagadoInv
  BY DEF HInit, Init, ApagadoInv
<1>2. HSpec => []ApagadoInv
  BY <1>1, ApagadoStep, HistoriaRefina, TypeCorrect, PTL DEF HSpec
<1>3. Valvulas /\ ApagadoInv => ApagadoDuradero
  BY DEF Valvulas, GasImplicaEncendida, Enclavamiento, ApagadoInv, ApagadoDuradero
<1> QED  BY <1>2, <1>3, HistoriaRefina, ValvulasInv, PTL

-----------------------------------------------------------------------------
\* Each pair of dry intervals has cost an attempt.  That needs a fireplace that
\* is on without a flame to be in its ignition cycle from line 454 to the tick.
SecosInv ==
  /\ secos \in Nat
  /\ secos <= 2 * intentos + 1
  /\ blink => secos <= 2 * intentos
CicloInv == pc \in {"alto", "limpiar", "tick"} /\ encendida /\ SinLlama => iniciarCicloEncendido

LEMMA CicloStep == TypeOK /\ CicloInv /\ [Next]_vars => CicloInv'
<1> SUFFICES ASSUME TypeOK, CicloInv, [Next]_vars PROVE CicloInv'
  OBVIOUS
<1> USE DEF CicloInv, SinLlama, modo, ciclo, reloj, valvulas, salidas, muestras
<1>1. CASE Llama
  BY <1>1 DEF Llama
<1>2. CASE Alto
  BY <1>2 DEF Alto
<1>3. CASE Limpiar
  BY <1>3 DEF Limpiar
<1>4. CASE UNCHANGED vars
  BY <1>4 DEF vars
<1>5. CASE Next /\ ~(Llama \/ Alto \/ Limpiar)
  <2>1. pc' \notin {"alto", "limpiar", "tick"}
    BY <1>5 DEF Next, Lazo, webSocketEvent, LeerSensor, BotonEncendido, BotonApagado,
                ControlBajo, ControlAlto, ControlApagado, PulsacionLarga, SoltarBoton,
                SinSegundo, SegundoDeChispa, Segundo, Reinicio
  <2> QED  BY <2>1
<1> QED  BY <1>1, <1>2, <1>3, <1>4, <1>5

LEMMA Doble == ASSUME NEW n \in Nat PROVE 0 <= 2 * n /\ 0 <= 2 * n + 1
OBVIOUS

LEMMA SecosStep ==
  TypeOK /\ TypeOK' /\ Valvulas /\ CicloInv /\ SecosInv /\ [HNext]_hvars => SecosInv'
<1> SUFFICES ASSUME TypeOK, TypeOK', Valvulas, CicloInv, SecosInv, [HNext]_hvars
             PROVE  SecosInv'
  OBVIOUS
<1>0. intentos \in Nat /\ intentos' \in Nat
  BY MaxIntentosAssumption DEF TypeOK, TypeData
<1> USE <1>0 DEF SecosInv
<1>1. CASE secos' = 0
  BY <1>1, Doble
<1>2. CASE PasoDeLazo /\ secos' = secos /\ GasBajo'
  <2>1. intentos' = intentos
    BY <1>2 DEF PasoDeLazo, webSocketEvent, AplicarEstado, Neutra, PideApagar, LeerSensor,
         BotonEncendido, BotonApagado, ControlBajo, ControlAlto, ControlApagado,
         PulsacionLarga, SoltarBoton, Llama, Alto, Limpiar, SinSegundo, ciclo
  <2>2. blink' => blink
    BY <1>2, MensajesAssumption
       DEF PasoDeLazo, webSocketEvent, AplicarEstado, Neutra, PideEncender, PideApagar,
         LeerSensor, BotonEncendido, BotonApagado, ControlBajo, ControlAlto, ControlApagado,
         PulsacionLarga, SoltarBoton, Llama, Alto, Limpiar, SinSegundo, ciclo, Mensaje
  <2> QED  BY <1>2, <2>1, <2>2
<1>3. CASE PasoDeSegundo /\ GasSinLlama /\ secos' = secos + 1
  <2>1. iniciarCicloEncendido
    BY <1>3 DEF PasoDeSegundo, SegundoDeChispa, Segundo, GasSinLlama, CicloInv,
                Valvulas, GasImplicaEncendida
  <2>2. CASE SegundoDeChispa
    BY <1>3, <2>2 DEF SegundoDeChispa
  <2>3. CASE Segundo /\ ~Bloqueo /\ ~Vence
    <3>1. ~blink /\ intentos' = intentos + 1
      BY <2>1, <2>3 DEF Segundo, Bloqueo, IntentosTras, NuevoIntento
    <3> QED  BY <1>3, <3>1
  <2> QED  BY <1>3, <2>2, <2>3 DEF PasoDeSegundo
<1>4. CASE UNCHANGED hvars
  BY <1>4 DEF hvars, vars, ciclo
<1>5. CASE HNext
  <2>1. CASE PasoDeLazo /\ secos' = IF GasBajo' THEN secos ELSE 0
    BY <1>1, <1>2, <2>1
  <2>2. CASE PasoDeSegundo /\ secos' = IF GasSinLlama THEN secos + 1 ELSE 0
    BY <1>1, <1>3, <2>2
  <2> QED  BY <1>1, <1>5, <2>1, <2>2 DEF HNext
<1> QED  BY <1>4, <1>5

\* Gas never flows without a flame for 2 * MaxIntentos intervals in a row.
THEOREM PurgaAcotadaCorrect == HSpec => []PurgaAcotada
<1>1. HInit => CicloInv /\ SecosInv
  BY DEF HInit, Init, CicloInv, SecosInv
<1>2. HSpec => []CicloInv
  BY <1>1, CicloStep, HistoriaRefina, TypeCorrect, PTL DEF Spec, HSpec
<1>3. HSpec => []SecosInv
  BY <1>1, <1>2, SecosStep, HistoriaRefina, TypeCorrect, ValvulasInv, PTL DEF HSpec
<1>4. TypeOK /\ SecosInv => PurgaAcotada
  BY MaxIntentosAssumption DEF TypeOK, TypeData, SecosInv, PurgaAcotada
<1> QED  BY <1>2, <1>3, <1>4, HistoriaRefina, TypeCorrect, PTL

-----------------------------------------------------------------------------
(* The timer.                                                              *)
\* The minute under way has between one second and what the first one may last.
MinutoInv == Pendientes \in 1..PrimerMinuto

LEMMA PrimerMinutoTipo ==
  /\ PrimerMinuto \in Nat /\ SegundosPorMinuto \in 1..PrimerMinuto
  /\ (\E m \in Mensajes : m.estado = "off") => PrimerMinuto = ModContador
BY SegundosAssumption DEF PrimerMinuto, PideApagar

\* The register after one second, and when the minute ends.
LEMMA DecrementoCuenta ==
  ASSUME TypeOK
  PROVE  /\ Pendientes \in Nat \ {0}
         /\ Decremento = Pendientes - 1
         /\ FinDeMinuto <=> Pendientes = 1
<1>1. contadorMinuto \in 0..(ModContador - 1) /\ ModContador \in Nat /\ ModContador > 1
  BY SegundosAssumption DEF TypeOK, TypeData
<1>2. CASE contadorMinuto = 0
  <2>1. (0 - 1) % ModContador = ModContador - 1
    BY <1>1
  <2> QED  BY <1>1, <1>2, <2>1 DEF Pendientes, Decremento, FinDeMinuto
<1>3. CASE contadorMinuto # 0
  <2>1. (contadorMinuto - 1) % ModContador = contadorMinuto - 1
    BY <1>1, <1>3
  <2> QED  BY <1>1, <1>3, <2>1 DEF Pendientes, Decremento, FinDeMinuto
<1> QED  BY <1>2, <1>3

LEMMA MinutoStep ==
  ASSUME TypeOK, MinutoInv, [Next]_vars
  PROVE  MinutoInv'
<1> USE DEF MinutoInv
<1>0. ASSUME UNCHANGED contadorMinuto PROVE MinutoInv'
  BY <1>0 DEF Pendientes, PrimerMinuto
<1> USE DEF modo, ciclo, reloj, valvulas, salidas, muestras
<1>1. ASSUME NEW m \in Mensajes, webSocketEvent(m) PROVE MinutoInv'
  <2>1. CASE m.estado = "off"
    <3>1. Pendientes' = ModContador /\ PrimerMinuto = ModContador
      BY <1>1, <2>1, PrimerMinutoTipo DEF webSocketEvent, AplicarEstado, Pendientes
    <3> QED  BY <3>1, SegundosAssumption DEF PrimerMinuto
  <2>2. CASE m.estado # "off"
    BY <1>0, <1>1, <2>2 DEF webSocketEvent, AplicarEstado
  <2> QED  BY <2>1, <2>2
<1>2. ASSUME NEW nivel \in BOOLEAN,
             \/ BotonEncendido(nivel) \/ BotonApagado(nivel)
             \/ ControlBajo(nivel) \/ ControlAlto(nivel) \/ ControlApagado(nivel)
      PROVE  MinutoInv'
  BY <1>0, <1>2 DEF BotonEncendido, BotonApagado, ControlBajo, ControlAlto, ControlApagado
<1>3. CASE (\E valor \in Lecturas : LeerSensor(valor)) \/ PulsacionLarga \/ SoltarBoton
           \/ Llama \/ Alto \/ Limpiar \/ SinSegundo \/ SegundoDeChispa
  BY <1>0, <1>3 DEF LeerSensor, PulsacionLarga, SoltarBoton, Llama, Alto, Limpiar,
              SinSegundo, SegundoDeChispa
<1>4. ASSUME contadorMinuto' = SegundosPorMinuto PROVE MinutoInv'
  BY <1>4, SegundosAssumption, PrimerMinutoTipo DEF Pendientes, PrimerMinuto
<1>5. CASE Segundo
  <2>1. CASE minutos > 0 /\ ~FinDeMinuto
    <3>1. contadorMinuto' = Pendientes - 1 /\ Pendientes > 1
      BY <1>5, <2>1, DecrementoCuenta DEF Segundo, Temporizador
    <3> QED  BY <3>1, PrimerMinutoTipo DEF Pendientes, PrimerMinuto
  <2>2. CASE minutos > 0 /\ FinDeMinuto
    BY <1>4, <1>5, <2>2 DEF Segundo, Temporizador
  <2>3. CASE ~(minutos > 0)
    BY <1>0, <1>5, <2>3 DEF Segundo, Temporizador
  <2> QED  BY <2>1, <2>2, <2>3
<1>6. CASE Reinicio
  BY <1>4, <1>6 DEF Reinicio
<1>7. CASE UNCHANGED vars
  BY <1>0, <1>7 DEF vars
<1> QED  BY <1>1, <1>2, <1>3, <1>5, <1>6, <1>7 DEF Next, Lazo

-----------------------------------------------------------------------------
\* What the multiplication in Restan needs.
LEMMA Productos ==
  ASSUME NEW a \in Nat, NEW b \in Nat \ {0}
  PROVE  a * b \in Nat /\ (a # 0 => a * b > 0) /\ (a # 0 => (a - 1) * b + b = a * b)
OBVIOUS

\* The registers of a running timer never read zero seconds.
LEMMA RestanPositivo ==
  ASSUME TypeOK, MinutoInv, minutos > 0
  PROVE  /\ Restan \in Nat /\ Restan > 0
         /\ Restan = 1 => minutos = 1 /\ Pendientes = 1
<1> DEFINE enteros == (minutos - 1) * SegundosPorMinuto
<1>1. minutos - 1 \in Nat /\ SegundosPorMinuto \in Nat \ {0}
  BY SegundosAssumption DEF TypeOK, TypeData
<1>2. enteros \in Nat /\ (minutos # 1 => enteros > 0)
  BY <1>1, Productos DEF TypeOK, TypeData
<1>3. Restan = enteros + Pendientes /\ Pendientes \in Nat \ {0}
  BY DecrementoCuenta DEF Restan
<1> HIDE DEF enteros
<1> QED  BY <1>1, <1>2, <1>3

\* The block of lines 504-523 takes one second off a running timer, and the one
\* it ends on closes the low valve.
LEMMA SegundoCuenta ==
  ASSUME TypeOK, MinutoInv, Segundo, minutos > 0
  PROVE  Restan' = Restan - 1 /\ (GasBajo' => GasBajo /\ Restan > 1)
<1> DEFINE enteros == (minutos - 1) * SegundosPorMinuto
<1>1. minutos \in Int /\ Pendientes \in Nat \ {0} /\ SegundosPorMinuto \in Nat \ {0}
  BY SegundosAssumption, DecrementoCuenta DEF TypeOK, TypeData
<1>2. enteros \in Nat /\ Restan = enteros + Pendientes
  BY <1>1, Productos DEF Restan
<1>3. Decremento = Pendientes - 1 /\ (FinDeMinuto <=> Pendientes = 1)
  BY DecrementoCuenta
<1>4. Restan' = Restan - 1
  <2>1. CASE ~FinDeMinuto
    <3>1. minutos' = minutos /\ contadorMinuto' = Pendientes - 1 /\ Pendientes > 1
      BY <2>1, <1>1, <1>3 DEF Segundo, Temporizador
    <3>2. Pendientes' = Pendientes - 1
      BY <3>1, <1>1 DEF Pendientes
    <3>3. Restan' = enteros + Pendientes'
      BY <3>1 DEF Restan
    <3> HIDE DEF enteros
    <3> QED  BY <3>2, <3>3, <1>1, <1>2
  <2>2. CASE FinDeMinuto
    <3>1. minutos' = minutos - 1 /\ contadorMinuto' = SegundosPorMinuto /\ Pendientes = 1
      BY <2>2, <1>3 DEF Segundo, Temporizador
    <3>2. CASE minutos = 1
      BY <3>1, <3>2, <1>1 DEF Restan
    <3>3. CASE minutos # 1
      <4>1. Restan' = (minutos - 1 - 1) * SegundosPorMinuto + SegundosPorMinuto
        BY <3>1, <3>3, <1>1 DEF Restan, Pendientes
      <4>2. minutos - 1 \in Nat /\ minutos - 1 # 0
        BY <3>3, <1>1
      <4>3. Restan' = enteros
        BY <4>1, <4>2, <1>1, Productos
      <4> HIDE DEF enteros
      <4> QED  BY <4>3, <3>1, <1>2
    <3> QED  BY <3>2, <3>3
  <2> QED  BY <2>1, <2>2
<1>5. GasBajo' => GasBajo /\ ~Vence
  BY DEF Segundo
<1>6. Restan = 1 => Vence
  BY RestanPositivo, <1>1, <1>3 DEF Vence
<1> QED  BY <1>4, <1>5, <1>6, RestanPositivo

-----------------------------------------------------------------------------
\* Every step of the loop is a step of the abstract timer or leaves it alone.
LEMMA CuentaStep ==
  ASSUME TypeOK, TypeOK', MinutoInv, MinutoInv', [Next]_vars
  PROVE  Cuenta!Next
<1> DEFINE fase == IF pc = "ws" THEN "ordenes" ELSE "pasada"
<1>0. fase' \in {"ordenes", "pasada"} /\ GasBajo' \in BOOLEAN
  BY DEF TypeOK, TypeFlags
<1>1. ASSUME UNCHANGED reloj PROVE Cuenta!Next
  <2>1. Restan' = Restan
    BY <1>1 DEF reloj, Restan, Pendientes
  <2> QED  BY <2>1, <1>0 DEF Cuenta!Next, Cuenta!Otro
<1>2. ASSUME minutos' = 0, GasBajo' = FALSE PROVE Cuenta!Next
  <2>1. Restan' = 0
    BY <1>2 DEF Restan
  <2> QED  BY <2>1, <1>0, <1>2 DEF Cuenta!Next, Cuenta!Parar
<1>3. ASSUME NEW m \in Mensajes, webSocketEvent(m) PROVE Cuenta!Next
  <2> DEFINE v == m.setTemporizador
  <2>1. v \in Int /\ pc = "ws" /\ pc' = "ws"
    BY <1>3, MensajesAssumption DEF Mensaje, webSocketEvent
  <2>2. CASE m.estado = "off"
    BY <1>2, <1>3, <2>2 DEF webSocketEvent, AplicarEstado, Apagar
  <2>3. CASE m.estado # "off"
    <3>1. minutos' = TemporizadorDe(m) /\ contadorMinuto' = contadorMinuto
      BY <1>3, <2>3 DEF webSocketEvent, AplicarEstado, reloj
    <3>2. CASE v = 0
      BY <3>1, <3>2, <1>1 DEF TemporizadorDe, reloj
    <3>3. CASE v > 0
      <4>1. Restan' = (v - 1) * SegundosPorMinuto + Pendientes
        BY <2>1, <3>1, <3>3 DEF Restan, TemporizadorDe, Pendientes
      <4>2. v \in {f.setTemporizador : f \in Mensajes} \cap (Nat \ {0})
        BY <2>1, <3>3
      <4>3. Cuenta!Fijar
        BY <4>1, <4>2, <2>1, <1>0 DEF Cuenta!Fijar, MinutoInv
      <4> QED  BY <4>3 DEF Cuenta!Next
    <3>4. CASE v < 0
      <4>1. Restan' = 0
        BY <2>1, <3>1, <3>4 DEF Restan, TemporizadorDe
      <4>2. Cuenta!Anular
        BY <4>1, <2>1, <1>0 DEF Cuenta!Anular
      <4> QED  BY <4>2 DEF Cuenta!Next
    <3> QED  BY <2>1, <3>1, <3>2, <3>3, <3>4
  <2> QED  BY <2>2, <2>3
<1>4. ASSUME NEW nivel \in BOOLEAN, BotonApagado(nivel) \/ ControlApagado(nivel)
      PROVE  Cuenta!Next
  <2>1. UNCHANGED reloj \/ (minutos' = 0 /\ GasBajo' = FALSE)
    BY <1>4 DEF BotonApagado, ControlApagado, Apagar, reloj
  <2> QED  BY <2>1, <1>1, <1>2
<1>5. CASE Reinicio
  BY <1>5, <1>2 DEF Reinicio
<1>6. CASE Segundo
  <2>1. CASE minutos > 0
    <3>1. pc = "tick" /\ pc' = "ws"
      BY <1>6 DEF Segundo
    <3>2. Cuenta!Contar
      BY <3>1, <2>1, <1>6, SegundoCuenta, RestanPositivo DEF Cuenta!Contar
    <3> QED  BY <3>2 DEF Cuenta!Next
  <2>2. CASE ~(minutos > 0)
    BY <2>2, <1>6, <1>1 DEF Segundo, Temporizador
  <2> QED  BY <2>1, <2>2
<1>7. ASSUME NEW nivel \in BOOLEAN,
             BotonEncendido(nivel) \/ ControlBajo(nivel) \/ ControlAlto(nivel)
      PROVE  Cuenta!Next
  BY <1>7, <1>1 DEF BotonEncendido, ControlBajo, ControlAlto
<1>8. CASE (\E valor \in Lecturas : LeerSensor(valor)) \/ PulsacionLarga \/ SoltarBoton
           \/ Llama \/ Alto \/ Limpiar \/ SinSegundo \/ SegundoDeChispa \/ UNCHANGED vars
  BY <1>8, <1>1 DEF LeerSensor, PulsacionLarga, SoltarBoton, Llama, Alto, Limpiar,
                    SinSegundo, SegundoDeChispa, vars
<1> QED  BY <1>3, <1>4, <1>5, <1>6, <1>7, <1>8 DEF Next, Lazo

\* The registers of lines 504-523 implement the abstract countdown, for every
\* minute, set of frames and number of attempts.
THEOREM ImplementaCuentaCorrect == Spec => ImplementaCuenta
<1>1. Init => Cuenta!Init
  BY DEF Init, Cuenta!Init, Restan
<1>2. Init => MinutoInv
  BY SegundosAssumption, PrimerMinutoTipo DEF Init, MinutoInv, Pendientes
<1>3. MinutoInv /\ TypeOK /\ [Next]_vars => MinutoInv'
  BY MinutoStep
<1>4. MinutoInv /\ TypeOK /\ TypeOK' /\ [Next]_vars => Cuenta!Next
  BY <1>3, CuentaStep
<1> QED  BY <1>1, <1>2, <1>3, <1>4, TypeCorrect, PTL DEF Spec, ImplementaCuenta, Cuenta!Spec

-----------------------------------------------------------------------------
\* The panels.  A page only ever sends frames of its buttons, so that what the board
\* polls is a frame of its loop.
SubidaInv == subida \in [Paginas -> Seq(Clics)]

LEMMA SubidaStep == SubidaInv /\ [PNext]_avars => SubidaInv'
<1> SUFFICES ASSUME SubidaInv, [PNext]_avars PROVE SubidaInv'
  OBVIOUS
<1> USE DEF SubidaInv
<1>v. <<>> \in Seq(Clics)
  OBVIOUS
<1>1. ASSUME NEW p \in Paginas, NEW m \in Clics, Clic(p, m) PROVE SubidaInv'
  <2>1. Append(subida[p], m) \in Seq(Clics)
    BY AppendProperties
  <2> QED  BY <1>1, <2>1 DEF Clic
<1>2. ASSUME NEW p \in Paginas, Sondear(p) PROVE SubidaInv'
  <2>1. CASE subida[p] = <<>>
    BY <1>2, <2>1 DEF Sondear
  <2>2. CASE subida[p] # <<>>
    <3>1. Tail(subida[p]) \in Seq(Clics)
      BY <2>2, HeadTailProperties
    <3> QED  BY <1>2, <2>2, <3>1 DEF Sondear
  <2> QED  BY <2>1, <2>2
<1>3. ASSUME NEW p \in Paginas, PerderConexion(p) PROVE SubidaInv'
  BY <1>v, <1>3 DEF PerderConexion
<1>4. CASE ReinicioPlaca
  BY <1>v, <1>4 DEF ReinicioPlaca
<1>5. ASSUME NEW p \in Paginas, Cargar(p) \/ processCommand(p) \/ Conectar(p) PROVE SubidaInv'
  BY <1>5 DEF Cargar, processCommand, Conectar
<1>6. CASE Pasar \/ Difundir \/ UNCHANGED avars \/ \E valor \in Lecturas : Leer(valor)
  BY <1>6 DEF Pasar, Difundir, Leer, avars, pvars
<1> QED  BY <1>1, <1>2, <1>3, <1>4, <1>5, <1>6 DEF PNext

\* A step of the board with its pages is a step of the control loop.
LEMMA PanelStep == SubidaInv /\ [PNext]_avars => [Next]_vars
<1> SUFFICES ASSUME SubidaInv, [PNext]_avars PROVE [Next]_vars
  OBVIOUS
<1>1. ASSUME NEW p \in Paginas, Sondear(p) PROVE [Next]_vars
  <2>1. CASE subida[p] = <<>>
    BY <1>1, <2>1 DEF Sondear
  <2>2. CASE subida[p] # <<>>
    <3>1. Head(subida[p]) \in Mensajes
      BY <2>2, HeadTailProperties, PaginasAssumption DEF SubidaInv
    <3>2. webSocketEvent(Head(subida[p]))
      BY <1>1, <2>2 DEF Sondear
    <3> QED  BY <3>1, <3>2 DEF Next, Lazo
  <2> QED  BY <2>1, <2>2
<1>2. ASSUME NEW p \in Paginas, NEW m \in Clics, Clic(p, m) PROVE UNCHANGED vars
  BY <1>2 DEF Clic
<1>3. ASSUME NEW p \in Paginas, Cargar(p) \/ processCommand(p) \/ PerderConexion(p) \/ Conectar(p)
      PROVE  UNCHANGED vars
  BY <1>3 DEF Cargar, processCommand, PerderConexion, Conectar
<1>4. CASE Pasar \/ Difundir \/ ReinicioPlaca \/ \E valor \in Lecturas : Leer(valor)
  BY <1>4 DEF Pasar, Difundir, ReinicioPlaca, Leer, Next, Lazo
<1>5. UNCHANGED avars => UNCHANGED vars
  BY DEF avars
<1> QED  BY <1>1, <1>2, <1>3, <1>4, <1>5 DEF PNext

LEMMA PanelRefina == PSpec => Spec
<1>1. PInit => Init /\ SubidaInv
  BY DEF PInit, SubidaInv
<1> QED  BY <1>1, SubidaStep, PanelStep, PTL DEF PSpec, Spec

\* Line 429 reads the valve before the pass drives it.  From there to the tick the state
\* that was read as open is open still, because line 463 closes only what nobody holds
\* on; and if it was read as closed, the gas has not flowed since the last broadcast.
DifusionInv ==
  /\ gasContinuo => GasBajo
  /\ pc \in {"alto", "limpiar", "tick"} =>
       /\ estadoChimenea = "Encendida" => GasBajo
       /\ estadoChimenea = "Apagada" => ~gasContinuo

LEMMA DifusionStep == TypeOK /\ Valvulas /\ DifusionInv /\ [PNext]_avars => DifusionInv'
<1> SUFFICES ASSUME TypeOK, Valvulas, DifusionInv, [PNext]_avars PROVE DifusionInv'
  OBVIOUS
<1> USE DEF DifusionInv, modo, ciclo, reloj, valvulas, salidas, muestras
<1>1. ASSUME NEW p \in Paginas, Sondear(p) PROVE DifusionInv'
  <2>1. pc = "ws" /\ pc' = "ws" /\ gasContinuo' = (gasContinuo /\ GasBajo')
    BY <1>1 DEF Sondear, webSocketEvent, vars
  <2> QED  BY <2>1
<1>2. ASSUME NEW p \in Paginas, NEW m \in Clics, Clic(p, m) PROVE DifusionInv'
  BY <1>2 DEF Clic, vars
<1>3. ASSUME NEW p \in Paginas, Cargar(p) \/ processCommand(p) \/ PerderConexion(p) \/ Conectar(p)
      PROVE  DifusionInv'
  BY <1>3 DEF Cargar, processCommand, PerderConexion, Conectar, vars
<1>4. ASSUME NEW valor \in Lecturas, Leer(valor) PROVE DifusionInv'
  BY <1>4 DEF Leer, LeerSensor
<1>5. CASE Difundir
  BY <1>5 DEF Difundir, SegundoDeChispa, Segundo
<1>6. CASE ReinicioPlaca
  BY <1>6 DEF ReinicioPlaca, Reinicio
<1>7. CASE UNCHANGED avars
  BY <1>7 DEF avars, vars, pvars
<1>8. CASE Pasar
  <2>1. gasContinuo' = (gasContinuo /\ GasBajo')
    BY <1>8 DEF Pasar
  <2>2. CASE Llama
    BY <2>1, <2>2 DEF Llama
  <2>3. CASE Alto
    BY <2>1, <2>3 DEF Alto
  <2>4. CASE Limpiar
    BY <2>1, <2>4 DEF Limpiar, Valvulas, GasImplicaEncendida
  <2>5. CASE ~(Llama \/ Alto \/ Limpiar)
    <3>1. pc' \notin {"alto", "limpiar", "tick"}
      BY <1>8, <2>5 DEF Pasar, BotonEncendido, BotonApagado, ControlBajo, ControlAlto, ControlApagado,
                        PulsacionLarga, SoltarBoton, SinSegundo
    <3> QED  BY <2>1, <3>1
  <2> QED  BY <2>2, <2>3, <2>4, <2>5
<1> QED  BY <1>1, <1>2, <1>3, <1>4, <1>5, <1>6, <1>7, <1>8 DEF PNext

\* No broadcast says that the gas is open when it is closed, and two in a row cannot hide
\* gas that has been open since the first.
THEOREM DifusionAtrasadaUnaVezCorrect == PSpec => DifusionAtrasadaUnaVez
<1>1. PInit => DifusionInv
  BY DEF PInit, Init, DifusionInv
<1>2. DifusionInv => [Difundir => DifusionVeraz]_avars
  BY DEF DifusionInv, DifusionVeraz, Difundir, SegundoDeChispa, Segundo
<1> QED  BY <1>1, <1>2, PanelRefina, ValvulasInv, DifusionStep, PTL DEF PSpec, DifusionAtrasadaUnaVez
=============================================================================
