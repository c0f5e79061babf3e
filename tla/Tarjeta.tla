------------------------------ MODULE Tarjeta ------------------------------
(***************************************************************************)
(* The board with the program it was flashed with: the provisioning of the  *)
(* fireplace, the first firmware, or one of two trial sketches.  Those have  *)
(* their network compiled in: their behaviours begin in station mode.        *)
(***************************************************************************)
EXTENDS PrimerFirmware, Pulsador, PaginaWeb

VARIABLE programa
tarjeta == <<programa, vars, primero, pulsador, web>>

EnMarcha ==
  /\ fase = "sta" /\ enlace = TRUE /\ archivos = CHOOSE c \in Validas : TRUE
  /\ ram = Leidas(archivos) /\ tarea = "libre" /\ param = 1
  /\ formulario = [c \in Campos |-> Vacio] /\ confirmada = Nada /\ perdida = FALSE

TarjetaInit ==
  /\ LuzInit /\ PulsadorInit /\ WebInit
  /\ \/ programa = "chimenea" /\ Init
     \/ programa = "primero" /\ FirmwareInit
     \/ programa \in {"pulsador", "web"} /\ EnMarcha

TarjetaNext ==
  /\ \/ programa = "chimenea" /\ Next         /\ UNCHANGED <<primero, pulsador, web>>
     \/ programa = "primero"  /\ FirmwareNext /\ UNCHANGED <<pulsador, web>>
     \/ programa = "pulsador" /\ PulsadorNext /\ UNCHANGED <<vars, primero, web>>
     \/ programa = "web"      /\ WebNext      /\ UNCHANGED <<vars, primero, pulsador>>
  /\ UNCHANGED programa

\* The programs advance while they have power; with no deadline to wait for, nothing
\* is asked of the button.
TarjetaJusticia ==
  /\ programa = "chimenea" => Fairness
  /\ programa = "primero" => P!Fairness
  /\ programa = "web" => WebJusticia
TarjetaSpec == TarjetaInit /\ [][TarjetaNext]_tarjeta /\ TarjetaJusticia

-----------------------------------------------------------------------------
\* What browsers are told of a light is how it is: in the first firmware by the page
\* that was answered last (ESP32_WiFi_Manager.ino:126-178), in web.ino once a request
\* is over (61-95), in test.ino when no task is switching it (158-247).
LuzContada ==
  /\ programa = "primero" => FirmwareContada
  /\ programa = "pulsador" => PulsadorContado
  /\ programa = "web" => WebContada

\* Every program gets to its loop, and web.ino back to it, however the link comes and
\* goes and browsers break off (ESP32_WiFi_Manager.ino:209-220, web.ino:52-85).
LlegaAlLazo ==
  /\ programa = "chimenea" => ArranqueTermina
  /\ programa = "primero" => P!ArranqueTermina
  /\ WebVuelve
=============================================================================
