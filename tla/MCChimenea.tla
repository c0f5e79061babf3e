----------------------------- MODULE MCChimenea -----------------------------
\* Small instances of Chimenea for TLC: the frames and readings that
\* the instances of the other modules of the fireplace take too.
EXTENDS Chimenea

Vacio == [estado |-> "nada", setTemporizador |-> 0, sensorSet |-> 0, sensorTemp |-> 0]
Estado(e) == [Vacio EXCEPT !.estado = e]
Timer(v)  == [Vacio EXCEPT !.setTemporizador = v]
Sensor(v) == [Vacio EXCEPT !.sensorSet = v]
Temp(v)   == [Vacio EXCEPT !.sensorTemp = v]

\* Below, at and above the threshold 1 * 13; 256 is the first value a byte loses.
MCLecturas == {0, 13, 26}
MCEstados  == {Estado("on"), Estado("alto"), Estado("off")}
MCTimers   == {Timer(1), Timer(2)}

MCMensajes     == MCEstados \cup MCTimers \cup {Timer(-1), Sensor(1), Sensor(256)}
MCMensajesViva == MCEstados \cup MCTimers \cup {Timer(-1)}
=============================================================================
