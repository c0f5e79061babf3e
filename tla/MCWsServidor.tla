---------------------------- MODULE MCWsServidor ----------------------------
\* Small instances of WebSocketsLib for TLC: browsers that upgrade and speak
\* (or stop anywhere before) and a plain HTTP request.  "upgrade" stands for what the
\* lines GET, Connection, Upgrade, Sec-WebSocket-Version and -Key set.  The panel's
\* server has no setAuthorization(): it needs no field that stays in the slot.
EXTENDS WebSocketsLib

MCGuiones == {<<"suya", "fin", "trama">>, <<"fin">>}
MCFijan  == [suya |-> {"upgrade"}]

\* The codes of Tramas; TLC's coverage does not end if a constant that is given to an
\* instance refers to it.
TEXTO    == 1
BINARIO  == 2
PING     == 9
EIO_PING    == 2
EIO_MENSAJE == 4
SIO_CONNECT == 0
SinCorte == -1

\* Lengths of one, two and eight bytes, one that is too long; calls with a length and
\* without; a write of either end that is cut.
Bytes(n) == [i \in 1..n |-> 1 + ((5 * i) % 29)]
Texto(d) == [op |-> TEXTO, datos |-> d, largo |-> 0, fin |-> TRUE, reservado |-> FALSE]
Otra(op, d) == [Texto(d) EXCEPT !.op = op, !.largo = Len(d)]
MCEnvios ==
  [cl |-> {Texto(<<7, 8, 0, 9>>), [Texto(Bytes(15)) EXCEPT !.reservado = TRUE, !.largo = 15],
           Otra(BINARIO, Bytes(14)), Otra(PING, <<3, 0>>)},
   sv |-> {Otra(BINARIO, Bytes(16)), Otra(BINARIO, Bytes(17)),
           [Otra(BINARIO, <<6>>) EXCEPT !.fin = FALSE], Otra(PING, <<>>),
           Texto(<<EIO_PING, 11>>), Texto(<<EIO_MENSAJE, 2, 12>>), Texto(<<EIO_MENSAJE, SIO_CONNECT>>)}]
MCAvisos == {[tipo |-> 2, datos |-> <<7, 0, 8>>, largo |-> 0], [tipo |-> 2, datos |-> <<>>, largo |-> 0],
             [tipo |-> 3, datos |-> Bytes(12), largo |-> 12]}
Hasta(cl, sv) == [e \in {"cl", "sv"} |-> IF e = "cl" THEN cl ELSE sv]
MCCabidas == {Hasta(SinCorte, SinCorte), Hasta(9, SinCorte), Hasta(SinCorte, 5)}
MCClaves == {<<21, 10, 31, 1>>}
=============================================================================
