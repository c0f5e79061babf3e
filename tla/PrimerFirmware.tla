--------------------------- MODULE PrimerFirmware ---------------------------
(***************************************************************************)
(* The first firmware of the board: the same provisioning with a form of    *)
(* three fields, and behind it a light that browsers switch with GET /on    *)
(* and GET /off.  Every answer is the page with the state of the light.     *)
(***************************************************************************)
EXTENDS WiFiManager

CONSTANTS
  Navegadores,   \* numbers of the browsers, from 1
  Validas3, Inicial3, Formularios3   \* as in WiFiManager, of three fields

ASSUME NavegadoresAssumption == 0 \notin Navegadores

VARIABLES
  luz,        \* digitalRead(ledPin)
  navegador,  \* what each browser asked for and what its page says
  ultimo      \* history: the browser that was answered last since setup(), or 0

primero == <<luz, navegador, ultimo>>

P == INSTANCE WiFiManager
       WITH Ultimo <- ip, Validas <- Validas3, Inicial <- Inicial3, Formularios <- Formularios3

Rutas == {"raiz", "on", "off"}
processor(l) == IF l THEN "ON" ELSE "OFF"

LuzInit ==
  /\ luz = FALSE /\ ultimo = 0
  /\ navegador = [n \in Navegadores |-> [espera |-> "", muestra |-> ""]]
FirmwareInit == P!Init /\ LuzInit

\* setup() puts the pin low before it reads the files, and a restart ends every
\* request that was under way.
Provisionar ==
  /\ P!Next
  /\ IF fase' = "leer"
     THEN /\ luz' = FALSE /\ ultimo' = 0
          /\ navegador' = [n \in Navegadores |-> [navegador[n] EXCEPT !.espera = ""]]
     ELSE UNCHANGED primero

\* A click, or a page that is loaded again, which repeats its order.
Visitar(n, ruta) ==
  /\ fase = "sta" /\ navegador[n].espera = ""
  /\ navegador' = [navegador EXCEPT ![n].espera = ruta]
  /\ UNCHANGED <<luz, ultimo, vars>>

\* The routes "/", "/on" and "/off": the page fits in the window, so processor()
\* fills both of its placeholders before the callback returns.  The mutant fills
\* the page first.
Atender_PaginaAntes(n) ==
  /\ fase = "sta" /\ navegador[n].espera # ""
  /\ luz' = IF navegador[n].espera = "raiz" THEN luz ELSE navegador[n].espera = "on"
  /\ navegador' = [navegador EXCEPT ![n] = [espera |-> "", muestra |-> processor(luz)]]
  /\ ultimo' = n
  /\ UNCHANGED vars
Atender(n) ==
  /\ fase = "sta" /\ navegador[n].espera # ""
  /\ luz' = IF navegador[n].espera = "raiz" THEN luz ELSE navegador[n].espera = "on"
  /\ navegador' = [navegador EXCEPT ![n] = [espera |-> "", muestra |-> processor(luz')]]
  /\ ultimo' = n
  /\ UNCHANGED vars

FirmwareNext ==
  \/ Provisionar
  \/ \E n \in Navegadores : Atender(n) \/ \E ruta \in Rutas : Visitar(n, ruta)

\* The light is only lit for who asked since the board started, in station mode, and
\* the last page that was answered says how it is (lines 126-178).
FirmwareContada ==
  /\ luz => fase = "sta" /\ ultimo # 0
  /\ ultimo # 0 => navegador[ultimo].muestra = processor(luz)
=============================================================================
