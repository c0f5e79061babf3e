--------------------------- MODULE MCWiFiManager ---------------------------
\* Small instances of Tarjeta for TLC: the settings of two routers, A and B,
\* forms that leave out all fields or one, or paste a line break behind the name (AL), and requests of a line and of two.
EXTENDS Tarjeta

CONSTANTS A, B, AL
MCCortados == [v \in {AL} |-> A]
De(v) == [c \in Campos |-> v]
MCValidas == {De(A), De(B)}
MCFormularios == {De(A), De(B), De(Vacio), [De(A) EXCEPT ![ip] = Vacio], [De(A) EXCEPT ![ssid] = AL]}
MCInicial == {De(A), De(Vacio)}

De3(v) == [c \in ssid..ip |-> v]
MCValidas3 == {De3(A), De3(B)}
MCFormularios3 == {De3(A), De3(B), [De3(A) EXCEPT ![ip] = Vacio], [De3(A) EXCEPT ![ssid] = AL]}

MCPeticiones == {<<"encender", LF, "cabecera", LF, LF>>, <<"apagar", LF, LF>>, <<"otra", LF, LF>>}
=============================================================================
