---------------------------- MODULE WiFiManager ----------------------------
(***************************************************************************)
(* How the board gets onto the network: setup() of ESP32_WiFi_Manager.ino  *)
(* reads four files from SPIFFS and tries to join the router for ten       *)
(* seconds; if it cannot, it opens the access point "CALIDEZ", whose form  *)
(* is stored by a POST handler that runs in the task of AsyncTCP and ends  *)
(* in a restart.  The power can fail between any two steps, also between   *)
(* the truncation of a file and the write that fills it.                   *)
(***************************************************************************)
EXTENDS Integers

CONSTANTS
  Ultimo,           \* the last field of the form: gateway, or ip in the first firmware
  Valores,          \* what a field of the form can hold
  Vacio,            \* the empty string: an empty field, file or missing file
  Cortados,         \* the values that hold a line break, and what they begin with
  Validas,          \* configurations with which the router lets the board in
  Inicial,          \* what the files may hold when the board is first powered
  Formularios       \* the forms somebody may send

\* The fields, in the order the form sends them.
ssid    == 1
pass    == 2
ip      == 3
gateway == 4
Campos  == ssid..Ultimo
Configs == [Campos -> Valores \cup {Vacio}]
Nada    == <<>>       \* no form has been confirmed since the last POST began

ASSUME ConfigsAssumption ==
  /\ Ultimo \in {ip, gateway}
  /\ Validas \subseteq Configs /\ Inicial \subseteq Configs /\ Formularios \subseteq Configs
  /\ \A c \in Validas : c[ssid] # Vacio /\ c[ip] # Vacio

ASSUME CortadosAssumption ==
  /\ DOMAIN Cortados \subseteq Valores
  /\ \A v \in DOMAIN Cortados : Cortados[v] \in (Valores \cup {Vacio}) \ DOMAIN Cortados

VARIABLES
  fase,       \* setup(): "leer", "estado", "plazo"; then "sta" or "ap"
  archivos,   \* the files in SPIFFS; survives a restart
  ram,        \* the globals ssid, pass, ip and gateway
  enlace,     \* WiFi.status() == WL_CONNECTED
  tarea,      \* POST handler: "libre", "abrir", "imprimir", "responder", "esperar"
  param, formulario,
  confirmada, \* history: the form whose "Done" was sent, until the next POST
  perdida     \* history: a file was not opened or not filled since that POST began

post   == <<tarea, param, formulario>>
diario == <<confirmada, perdida>>
vars   == <<fase, archivos, ram, enlace, post, diario>>

Init ==
  /\ fase = "leer" /\ enlace = FALSE
  /\ archivos \in Inicial /\ ram = [c \in Campos |-> Vacio]
  /\ tarea = "libre" /\ param = 1 /\ formulario = [c \in Campos |-> Vacio]
  /\ confirmada = Nada /\ perdida = FALSE

\* ESP.restart() or a power cut: the files are all that is left.
Arrancar ==
  /\ fase' = "leer" /\ enlace' = FALSE
  /\ ram' = [c \in Campos |-> Vacio]
  /\ tarea' = "libre" /\ param' = 1 /\ formulario' = [c \in Campos |-> Vacio]
  /\ UNCHANGED <<archivos, diario>>

CorteDeLuz == Arrancar

-----------------------------------------------------------------------------
\* setup(): lines 283-286 and initWiFi().

\* A file is read up to its first line break.
readFile(v) == IF v \in DOMAIN Cortados THEN Cortados[v] ELSE v
Leidas(c)   == [campo \in DOMAIN c |-> readFile(c[campo])]

\* Line 191; the mutant forgets its second half.
Completa_SoloSsid(c) == c[ssid] # Vacio
Completa(c) == c[ssid] # Vacio /\ c[ip] # Vacio

\* Incomplete files, or addresses that WiFi.config() refuses, end in the access
\* point without a call of WiFi.begin().
Leer ==
  /\ fase = "leer"
  /\ ram' = Leidas(archivos)
  /\ \/ Completa(ram') /\ fase' = "estado"
     \/ ram' \notin Validas /\ fase' = "ap"
  /\ UNCHANGED <<archivos, enlace, post, diario>>

\* Line 212 looks at the link and line 215 at the clock, one after the other:
\* a link that comes up between the two is not seen.
ConsultarEstado ==
  /\ fase = "estado"
  /\ fase' = IF enlace THEN "sta" ELSE "plazo"
  /\ UNCHANGED <<archivos, ram, enlace, post, diario>>

SeguirEsperando ==
  /\ fase = "plazo" /\ fase' = "estado"
  /\ UNCHANGED <<archivos, ram, enlace, post, diario>>

\* The mutant has no deadline.
Rendirse_SinPlazo ==
  /\ fase = "plazo" /\ fase' = "estado"
  /\ UNCHANGED <<archivos, ram, enlace, post, diario>>
Rendirse ==
  /\ fase = "plazo" /\ fase' = "ap"
  /\ UNCHANGED <<archivos, ram, enlace, post, diario>>

\* The station interface associates and drops by itself once WiFi.begin() has
\* been called, also behind the access point.  It keeps the settings of that
\* call, which ram still holds until a POST begins; from then on nothing looks
\* at the link before the restart.
Asociar ==
  /\ fase \in {"estado", "plazo", "ap", "sta"} /\ ~enlace
  /\ tarea = "libre" /\ ram \in Validas
  /\ enlace' = TRUE
  /\ UNCHANGED <<fase, archivos, ram, post, diario>>

Desasociar ==
  /\ enlace /\ enlace' = FALSE
  /\ UNCHANGED <<fase, archivos, ram, post, diario>>

-----------------------------------------------------------------------------
\* The POST handler: lines 322-364 and writeFile().  AsyncTCP serves one request
\* at a time, and this one never returns.

RecibirPost(f) ==
  /\ fase = "ap" /\ tarea = "libre"
  /\ tarea' = "abrir" /\ param' = ssid /\ formulario' = f
  /\ confirmada' = Nada /\ perdida' = FALSE
  /\ UNCHANGED <<fase, archivos, ram, enlace>>

\* The loop over the parameters of line 325; the mutant stops one early.
Siguiente_UnoMenos == /\ param' = param + 1
                      /\ tarea' = IF param = Ultimo - 1 THEN "responder" ELSE "abrir"
Siguiente == /\ param' = param + 1
             /\ tarea' = IF param = Ultimo THEN "responder" ELSE "abrir"

\* The global takes the value; FILE_WRITE truncates the file, unless it cannot
\* be opened, which is logged and passed over.
AbrirArchivo ==
  /\ tarea = "abrir"
  /\ ram' = [ram EXCEPT ![param] = formulario[param]]
  /\ \/ /\ archivos' = [archivos EXCEPT ![param] = Vacio]
        /\ tarea' = "imprimir" /\ UNCHANGED <<param, perdida>>
     \/ Siguiente /\ perdida' = TRUE /\ UNCHANGED archivos
  /\ UNCHANGED <<fase, enlace, formulario, confirmada>>

\* A failed write is logged and passed over as well.
ImprimirArchivo ==
  /\ tarea = "imprimir"
  /\ \/ archivos' = [archivos EXCEPT ![param] = formulario[param]] /\ UNCHANGED perdida
     \/ perdida' = TRUE /\ UNCHANGED archivos
  /\ Siguiente
  /\ UNCHANGED <<fase, ram, enlace, formulario, confirmada>>

\* "Done. ESP will restart, connect to your router and go to IP address: ..."
Responder ==
  /\ tarea = "responder" /\ tarea' = "esperar"
  /\ confirmada' = formulario
  /\ UNCHANGED <<fase, archivos, ram, enlace, param, formulario, perdida>>

\* delay(3000); ESP.restart();
Reiniciar == tarea = "esperar" /\ Arrancar

-----------------------------------------------------------------------------
Configurar == Leer \/ ConsultarEstado \/ SeguirEsperando \/ Rendirse
Guardar    == AbrirArchivo \/ ImprimirArchivo \/ Responder \/ Reiniciar

Next ==
  \/ Configurar \/ Asociar \/ Desasociar
  \/ \E f \in Formularios : RecibirPost(f)
  \/ Guardar
  \/ CorteDeLuz

Spec == Init /\ [][Next]_vars

\* The program advances while it has power, and the ten seconds pass.
Fairness == WF_vars(Configurar) /\ WF_vars(Guardar) /\ SF_vars(Rendirse)
FairSpec == Spec /\ Fairness

-----------------------------------------------------------------------------
\* Type invariant; "Done" is only due when every field has had its turn.
TypeOK ==
  /\ fase \in {"leer", "estado", "plazo", "sta", "ap"}
  /\ archivos \in Configs /\ ram \in Configs /\ formulario \in Configs
  /\ enlace \in BOOLEAN
  /\ tarea \in {"libre", "abrir", "imprimir", "responder", "esperar"}
  /\ param \in IF tarea \in {"responder", "esperar"} THEN {Ultimo + 1} ELSE Campos
  /\ confirmada \in Configs \cup {Nada} /\ perdida \in BOOLEAN

\* Once "Done" was sent, and until another form comes in, the files hold that
\* form whole, whenever the power fails, and initWiFi() runs with the first line of
\* every field of it (lines 147-164, 283-286 and 322-364), unless the flash refused
\* one of the writes.
ConfirmadaGuardada ==
  confirmada # Nada /\ ~perdida =>
    /\ archivos = confirmada
    /\ fase # "leer" => ram = IF tarea = "esperar" THEN confirmada ELSE Leidas(confirmada)

\* What station mode is tried and served with is what the files hold in their first
\* lines, name and address included: no write of the POST handler can be under way
\* or lost (lines 191 and 283-286).
EstacionGuardada ==
  fase \in {"estado", "plazo", "sta"} =>
    ram = Leidas(archivos) /\ ram[ssid] # Vacio /\ ram[ip] # Vacio

\* setup() ends, with the router or with the access point, however the link
\* comes and goes (lines 209-220), unless the power fails again and again.
ArranqueTermina ==
  <>[][CorteDeLuz => tarea = "esperar"]_vars => []<>(fase \in {"sta", "ap"})
=============================================================================
