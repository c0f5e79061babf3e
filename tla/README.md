# Fireplace controller: TLA+ models, checks and proofs

This directory models the firmware of the gas fireplace board,
`src/ESP32_WiFi_Manager/ESP32_WiFi_Manager.ino` (an ESP32 program, called *the
sketch* below; plain line numbers refer to it), the pages it serves, the
libraries under it that the repository carries, and the earlier programs of the
same board. It holds TLA+ modules translated from the source, TLC
configurations that check them on small instances, and theorems that TLAPS
checks for every value of their constants.

## 1. The system

| Component | Source | State | Operations | Talks to | Here |
|---|---|---|---|---|---|
| Control loop | sketch, `loop()`, `webSocketEvent()` | flags, attempts, timer, readings, three output pins, two EEPROM bytes | one pass: frames, sensor, two buttons, three remote pins, drive the pins, once-a-second block | browsers, pins, EEPROM | `Chimenea*`, `CuentaRegresiva` |
| Boot and WiFi provisioning | sketch, `setup()`, `initWiFi()`, POST handler; `data/wifimanager.html` | four files in SPIFFS, four globals, the link, the handler | read, join or give up, store a form, restart | router, SPIFFS, AsyncTCP's task | `WiFiManager` |
| Web panel | `data/index.html`, `js.js`, `js2.js` | socket, what is painted | buttons, timer, two thresholds | WebSocket on port 81 | `PanelWeb` |
| WebSockets library | `src/Librerias/WebSockets` | server: slots; client: one connection | accept, upgrade, receive, ping, broadcast, drop; connect, ask, give up, connect again; either: send and read frames | runs inside `webSocket.loop()` | `WsServidor`, `WsCliente`, `Tramas` |
| AsyncTCP | `src/Librerias/AsyncTCP-master` | event queue, closed slots, clients | post, sweep, call back, close, end, reset | lwIP thread and its own task | `AsyncTcp` |
| ESPAsyncWebServer | `src/Librerias/ESPAsyncWebServer-master` | one request and response per connection; files; queues of the two handlers that keep a connection | parse packets, choose a handler, respond as the window allows, queue, broadcast, ack, time out | AsyncTCP's callbacks, the sketch's task | `PeticionAsync`, `RespuestaAsync`, `ServidorAsync`, `SitioAsync`, `AsyncWebSocket`, `AsyncEventSource`, `AsyncFlujos` |
| ArduinoJson | `src/Librerias/ArduinoJson` | a pool with strings and slots | read, write, edit, copy, move, compare | called by the sketch | `Json*`, `MsgPack`, `ArduinoJson` |
| WebServer of the ESP32 core | `src/Libreria ESP32/WebServer` | one client, its arguments, upload and response | `handleClient()` and the parser | blocking reads | `ServidorHttp`, `SitioHttp` |
| First firmware | `src/tarjeta/ESP32_WiFi_Manager` | as provisioning, a light | GET `/on`, `/off` | browsers | `PrimerFirmware` |
| Trial sketches | `src/ESP32_WiFi_Manager/no es pa eso`, `src/tarjeta/web` | a debounced button, two tasks; a page with a link | press, toggle; serve one client | browsers | `Pulsador`, `PaginaWeb` |
| Alexa experiments | `src/AlexaZ`, `src/tarjeta/AlexaZ.ino` | - | need a library that is not here; the callbacks left in the sketch only log | - | not modelled |
| Marketing site, board drawings | `src/paguina`, `src/Tarjeta Z` | none | none | - | not modelled |

What makes each of them hard, and what has to be right:

- *Control loop.* One thread, but **seven places of one pass write the same
  flags and pins** (a frame, two buttons, three remote pins, the flame
  detector, the once-a-second block), inputs change between any two statements
  and a restart can come at any of them. Three counters share the once-a-second
  block, with an early `return` (496) between them. Gas only while the
  controller is on; the high valve only over the low one; every burn starts in
  low; an order to stop lasts; gas without a flame is bounded; the timer counts
  what it says.
- *Provisioning.* A second task, files that are written one at a time, a wait
  with a deadline. What was confirmed is stored whole; station mode only runs
  with stored settings; `setup()` ends.
- *Panel.* Frames in flight both ways and a state that is read before it is
  driven and sent after. What the page shows is what the board settles on.
- *WebSockets.* Connections lost between any two steps, slots used again by the
  next client, a peer that answers by halves. A slot is freed once; a session's
  events come in order; the client comes back.
- *AsyncTCP.* Two threads, a queue that may fill, pcbs that lwIP frees under a
  call. No freed pcb is used, no event comes after its client.
- *ESPAsyncWebServer.* Packets and acks that cut anything anywhere; a buffer
  that several queues and two tasks share. What the handler gets is what was
  sent, and the peer gets what was meant, whole and once.
- *ArduinoJson.* A pool that may fill at any key or string, texts that are cut.
  A document is what the text says or an error says why.
- *WebServer.* A client that stops anywhere; a file that may hold pieces of its
  delimiter. Uploads are exact, arrays do not overflow, the next client is
  served.

`PROJECT.json` lists forty hazards, each at its line, with the properties that
would catch it going wrong.

## 2. Modules

### 2.1 The fireplace

| Module | What it is |
|---|---|
| `Chimenea` | the control loop, its invariants and its liveness, and the mapping of its registers to the countdown |
| `ChimeneaHistoria` | two history variables over it, the properties that need them, and two claims of the documentation that fail |
| `CuentaRegresiva` | abstract specification: a countdown in seconds |
| `PanelWeb` | the control loop together with the browsers |
| `WiFiManager` | boot and provisioning |
| `ChimeneaProofs`, `HistoriaProofs` | theorems (those of `WiFiManager` are in `TarjetaProofs`) |
| `MCChimenea`, `MCHistoria`, `MCPanel`, `MCWiFiManager` | instances for TLC |

**Chimenea.** `pc` names the statement of `loop()` that comes next, and there
is one action per statement that samples an input or changes state:

| `pc` | Action | Lines |
|---|---|---|
| `ws` | `webSocketEvent(m)`, any number of times; `LeerSensor` | 373-376, 539-622 |
| `encender` | `BotonEncendido` | 381-385 |
| `mantener` | `PulsacionLarga`, `SoltarBoton` | 387-391 |
| `apagar` | `BotonApagado` | 393-402 |
| `contBaj`, `contAlt`, `contAp` | `ControlBajo`, `ControlAlto`, `ControlApagado` | 405-426 |
| `llama` | `Llama` | 429-452 |
| `alto` | `Alto` | 454-461 |
| `limpiar` | `Limpiar` | 463-472 |
| `tick` | `SinSegundo`, `SegundoDeChispa`, `Segundo` | 474-536 |
| any | `Reinicio` | 248-279 and the initialisers |

Every input is read by the action of the statement that reads it; the on button
is read twice (381 and 387), and `PulsacionLarga` may follow a `BotonEncendido`
that saw it up. `Reinicio` covers power cuts, brown-outs and the
`ESP.restart()` of the POST handler; it keeps only the EEPROM. A frame is a
record of the four keys the handler reads, an absent key being `"nada"` or 0;
time is the choice between `SinSegundo` and the other two actions of `tick`.
The flame sensor and the threshold keep their numbers, because `<`, `=` and `>`
behave differently, with the byte width and the factor 13 of line 374; the
minute counter is unsigned modulo `ModContador`.

**ChimeneaHistoria.** `orden` records who had the last word (a request, an
order to stop, or the attempts that ran out); `secos` counts the once-a-second
blocks in a row that found the low valve open and no flame. They constrain
nothing: the disjuncts of `HNext` repeat those of `Next`, split by who causes
them. `secos` counts the intervals that the loop sees, not wall time: a stalled
loop sees fewer.

**CuentaRegresiva.** The abstract timer has `restan`
seconds left; orders set or cancel it in the first part of a turn, and one step
per turn may take one second off. `Contar` must not leave the gas open on the
second that reaches zero. `PrimerMinuto` is how long the first minute of a
timer may last. When a frame may say "off" it is as long as the counter is wide
(line 614 leaves `contadorMinuto` at 0, which the next decrement wraps: finding
`TiempoRestante`); without such frames it is no longer than the others. The
registers implement the countdown either way; the mapping is at the end of
`Chimenea`.

**PanelWeb.** Adds to the loop the broadcast (474-492), the frames in flight
in each direction and, per page, its socket and what it paints. A page of the
model paints what `js.js` and `js2.js` paint between them, and never opens its
socket again, which neither script does.

**WiFiManager.** `fase` is where `setup()` is: `leer` (283-286 and the first
test of `initWiFi()`), `estado` (the look at the link, 212), `plazo` (the look
at the clock, 215), then `sta` or `ap`. `tarea` is the POST handler. A file is
truncated (`AbrirArchivo`, 172) and then filled (`ImprimirArchivo`, 178), so
`CorteDeLuz` can leave it empty, and either may fail, which the code logs and
passes over: `perdida` is a history variable that says so. `confirmada` is the
form that "Done" was sent for, until the next POST begins. `readFile` gives the
first line of a file, so that the globals may hold less than the file does
(`Cortados` says of which values). The fields of a form
are numbered up to `Ultimo`, in the order of `wifimanager.html`. AsyncTCP serves
one request at a time and this handler never returns (it restarts the board), so
there is one.

### 2.2 The board's other programs

`PrimerFirmware` reuses the provisioning with three fields (`P ==` an instance)
and adds the LED of GET `/on` and `/off`. `Pulsador` is `test.ino`: `loop()`
debounces the button, AsyncTCP's task receives "toggle", and both switch
`led.on` and tell the pages, one step per access. `PaginaWeb` is `web.ino`: one
client at a time, byte by byte. `Tarjeta` is the board with one of the four
programs (`programa`); `TarjetaProofs` has the theorems. The sketches' own waits
for the router and `websockets.ino`, which keeps nothing, are left out.

### 2.3 The libraries that serve connections

**WsServidor** (`WebSocketsServer.cpp` with the parts of `WebSockets.cpp` that
it runs). `fase` and `ranura` say where the one thread is: accepting
(`handleNewClients`), then data, ping and timeout of each slot
(`handleClientData`), then the rest of the sketch, which may broadcast. A
connection is lost between any two steps. `pedidos` and `vista` are histories:
what a connection sent in its header, and what the sketch was told of a slot.
`Fijan` says which fields a line of a header sets, and `Quedan` which of them
`clientDisconnect()` leaves in the slot.
**WsCliente** is the other end: connecting, the request and its answer line by
line, the heartbeat, the deadline, Socket.IO's two requests, and connecting
again. **Tramas** is an open connection between the two, byte by byte: what
`sendTXT()` and its like write (header, length of one, three or nine bytes,
mask), what `write()` leaves out when lwIP takes no more, what the other end
reads and answers, and `SocketIOclient` over the client. The code asks for a few
bytes at a time and blocks until they come or `WEBSOCKETS_TCP_TIMEOUT` is up, so
a frame is read in one step, once the bytes that its header calls for are there,
and `Vencer` is the time that is up before. A write that is cut sets `rota`,
after which the two ends no longer agree where a frame begins. `Alto` (bit 7),
`Larga`, `Paquete` and `MaxDatos` are the code's limits, made small; the digits
of Engine.IO and Socket.IO stand for their characters; whether there is memory,
and the mask that `random()` makes, are chosen once for a behaviour.
**WebSocketsLib** is one of the three. Time advances by the pass: a unit
is the longest pass of `loop()`, so a sketch whose header of five lines or more
takes longer than the 5 s of `WEBSOCKETS_TCP_TIMEOUT`, at a line for each pass,
never connects and is not an instance of it.

**AsyncTcp.** The lwIP thread posts what happens (`_tcp_accept`, `_tcp_recv`,
`_tcp_error`, ...), the task takes the head of the queue, calls the client back
and calls lwIP through `tcp_api_call`; the sweep of a deleted client
(`_remove_events_with_arg`) goes event by event. A callback of lwIP runs whole
between two steps of the task, which is what its priority of 18 over 3 makes of
it on one core; but the two threads may also run on two (`RUNNING_CORE` -1), and
so the pcb and the slot that a call hands over are read in two steps (`Llamar`,
`LeerRanura`), the peer's FIN before, between or after them: between
lines 839 and 899 a call gets a pcb with no slot. The other places where two
cores could meet are not split: `_close()` and `_poll()` (which read `_pcb` more
than once, 798-812 and 947-978), `space()` (741), and the event posted after
`_lwip_fin()`. `usoLibre` (a freed pcb was used), `reinicio`, `desprotegida` (a
client without a slot of its own, or a call that read none) and `desorden` (an
event was posted in the middle of a sweep) are histories.

**PeticionAsync** and **RespuestaAsync** are the request parser and the
responses as operators on records; **ServidorAsync** is a connection that uses
them, with packets cut anywhere, acks and the timeouts of AsyncTCP's poll.
**SitioAsync** is what is behind: rewrites, the choice of a handler, static
files with their compressed copies, JSON bodies and the file editor, with
several connections that interleave and files that one reads while another
writes, or one connection of `ServidorAsync`. The query of a request's first
line goes through `urlDecode()` like a form (`_addGetParams`); a response comes
from a text, a file or what a handler prints into it (`Impresa`), also after it
was sent (`Tras`), and `_fillBuffer` is what each source gives of it. What
memory decides is an input: `basura` is the state read in a request that its
first line deleted, `azar` (of `Azares`) what lies behind the text of a JSON body
and whether the flash opens a file. A form may state a wrong length (`largo`),
longer or shorter than it is.

**AsyncWebSocket** and **AsyncEventSource** keep a connection after its
response. In the first, each client has a queue of control frames and one of
messages, cut by the window; `textAll()` runs in the sketch's task and stops
between two clients (`cursor`), while the callbacks of the clients run in
AsyncTCP's; `bufs` are the shared buffers with their lock. `par` is what the peer has
read. **AsyncFlujos** is one or the other.

**ServidorHttp.** The ESP32 core's WebServer: `paso` is where the parser or
the handler is, each read of a line, of a body or of a byte of a file is a
step, and the peer may be slow or vanish before it. A line that does not come
in time reads as the empty one. `desde` and `entregado` are histories: what was
still to come when the file began, and what the sketch was given of it. The
header of a part is up to three reads (`Parte`, `TipoDeParte`, `BlancoDeParte`),
each of which may give up and read the empty line; what comes late is then read
by whoever reads next, the upload included. `duda` is the history of the
two cases in which the code does not keep the file: a header that
ended early, and a boundary that `strstr()` found behind its buffer.
`Escribir` hands a sequence of bytes to `_uploadWriteByte()` one after another,
in closed form. **SitioHttp** is the same server seen by the sketch: handlers
in the order of `on()` and `serveStatic()`, patterns with braces, the arguments
of the URL and of an encoded body, the headers that `collectHeaders()` keeps,
files and their ".gz" copies, Basic and Digest passwords, and the response that
the calls of a handler make (`Llamada`). Requests follow one another on the same
members (`srv`): what one leaves behind is what the next may find. A
hash is the record of what went into it.

### 2.4 ArduinoJson

`JsonSerializador` has the memory (strings from the left of the pool, slots
from its right; strings kept in place over the text or copied) and the three
texts that are written; `JsonDeserializador` reads JSON one character ahead,
with the calls of the recursive functions as frames of `pila`; `MsgPack` reads
and writes the same documents as bytes. `JsonColeccion` is the memory with its
addresses, collections as chains of slots; `JsonDocumento` is a program that
edits two documents through proxies and references, one call per step;
`JsonIdeal` says what those calls promise of trees that take no room. The abstract tree is
followed step by step (`PasoFiel`). `ArduinoJson` is the use of either. What the
two readers do to the memory (`MemoriaEnOrden`) is proved in `JsonProofs`. Raw
text, the value of reals and the conversions of `as<T>()` are left out.

## 3. Runs

| Run | Instance | Checks | Distinct states |
|---|---|---|---|
| `historia` | 3 attempts, 3 seconds to the minute, counter modulo 6, readings below, at and above the threshold, all kinds of frames | `TypeOK`, `ValvulasEnOrden`, `ArranqueEnBajo`, `ApagadoDuradero`, `PurgaAcotada` | 853 626 |
| `viva` | 2 attempts, 2 seconds, counter modulo 4 | `SinLlamaSeCierra`, `TemporizadorApaga`, `ImplementaCuenta` | 44 068 |
| `panel` | 1 attempt, 1 page, 1 frame in flight each way | `DifusionAtrasadaUnaVez`, `PanelConverge`, `OffLlega` | 343 739 |
| `wifi` | the four programs of `Tarjeta`: two routers, five forms, one of them with a line break behind the name, two browsers, a button delay of 1 and a counter up to 7, three requests | `ConfirmadaGuardada`, `EstacionGuardada`, `UnaPorPulsacion`, `LuzContada`, `LlegaAlLazo` | 80 789 |
| `ws_servidor` | server: 2 slots, 2 connections; client: with Socket.IO and without; frames: two calls, payloads of 0 to 17 bytes where 14 is the first length in three bytes, 16 the first in nine and the longest that is read | `UnaRanuraPorConexion`, `SesionesEnOrden`, `ClienteEnOrden`, `TramaFiel`, `LadosVuelven` | 200 511 |
| `async_tcp` | 2 clients, 2 slots, a queue of 3, 2 events each | `PcbVivo`, `SinEventoTrasBorrar`, `OrdenDeEventos`, `CierreLibera` | 709 828 |
| `flujos` | 2 WebSocket clients, 2 messages of 3 or 8 bytes, a window of 13; one event source, 4 events | `BufferVivo`, `MensajesEnteros`, `FlujosAvanzan` | 394 682 |
| `http_async` | one connection byte by byte, window 13, with a query in the first line, a printed response and forms of wrong length among its requests; two connections to a site, two visits each | `PeticionFiel`, `RespuestaFiel`, `ConexionTermina` | 122 890 |
| `web_server` | requests without a form, forms of up to 3 fields, every file of up to 4 of the bytes CR, LF, - and b and four longer ones; 2 arguments, a buffer of 2; a site of several handlers and files, three requests | `CabenArgumentos`, `ArchivoIntegro`, `RespuestaBienFormada`, `SitioFiel`, `SinFormTermina` | 163 676 |
| `json` | generated texts and MessagePack inputs whole, cut and malformed, 4 filters, pools of 9, 22 and 90 bytes; programs of 3 calls on two documents | `DocumentoFiel`, `MemoriaEnOrden`, `PasoFiel`, `Termina` | 720 912 |
| `doc_TiempoRestante`, `doc_ApagadoTotal` | as `historia` | one claim each, refuted | - |

*Why the bounds are enough.* Three attempts give a first, a middle and a last
one; three seconds do the same for a minute, and timers of one and two minutes
reach both the reload and the end. `ModContador` is larger than a minute, so a
wrapped counter is distinguishable from a fresh one. The threshold bytes 0 and
1 give the readings 0, 13 and 26 all three comparisons; 256 is the first value
a byte loses; -1 is a timer that is none. `Tope` 7 takes a held button around
its counter. Two slots and two connections give a slot to two clients one
after another, with the other slot free, taken or lost; a server that is full
is left to the theorems. A count of missed pongs modulo 2 with a limit of 1
still has a pong that is missed and forgiven, one that is not, and one that
clears the count. In `Tramas` a cut after 9 bytes of the client or 5 of the
server falls in a header, in a payload or between two frames. A queue of three is
full while one event is handled and two wait. A window of 13 leaves room for
one frame, cuts a message of 8 with its header, and is smaller than an event of
13; counts of bytes are taken modulo 64. A buffer of 2 is filled and emptied
more than once by a file of 4 bytes; the boundary has two bytes, so that a
delimiter can break before, in and after it. Three calls of a document build,
change and compare. The bounds that cut what the code does not bound are
`MaxAbiertas`, `EventosMax`, `MensajesMax`, `ControlMax`, `VisitasMax`,
`PeticionesMax`, `EnviosMax`, `MaxLlamadas` (how many things happen), `MaxSubida`,
`MaxBajada` (frames in flight), `Conexiones` and `Clientes`; `ColaMax`,
`MaxClientes`, `NumRanuras`, `Ranuras`, `MaxArgs`, `BufLen`, `Alto`, `Larga`,
`Paquete`, `MaxDatos` and the windows are
limits of the code, made small. The code's own values (100 attempts, 60
seconds, 32 bits, 16 slots, 32 events, ...) are covered by the theorems of
section 5, which have these as parameters.

Deadlock is checked but in `flujos`, `async_tcp`, `http_async` and `wifi`,
where peers may stop for good once their bounded requests are made, and where
the threads of AsyncTCP may block each other (`Atasco`, below).

### 3.1 Disagreements between the code and what is said of it

| Property | Said at | What the code does |
|---|---|---|
| `TiempoRestante` | `index.html:26` | after a web "off" the first minute of a timer wraps (614, 507) |
| `ApagadoTotal` | header, line 8 | a running timer relights after the lockout (506) |

Each of these has a run that checks it and that TLC refutes. Others were met
while the modules were written; the properties above except them by name, or
the inputs leave them out:

*The fireplace.* A reading equal to the threshold never counts attempts
(443-447), so the header's "apagado total" (line 8) needs readings strictly
below it, which is what `SinLlamaSeCierra` supposes. An expired timer leaves the
spark on (515-522). A second press goes to low (384) where header line 14 says
up. A power cut mixes two forms (334-358). 100 attempts (525) where the header
says three; a threshold above 255 loses its high byte (577); the second that
ends a spark phase is not counted by the timer (496), which runs at half speed
during ignition; the remote's high pin pulses the high valve alone for part of a
pass (454), the exception of `Enclavamiento`; a flame lost in high is relit
with the high valve open; a failed write of a file is confirmed to the user
(173-185), which `ConfirmadaGuardada` excepts with `perdida`; a setting with a
line break is stored whole and read up to it (159-163), so that the board runs
with less than the form that it confirmed. `broadcastTXT`
(491) may block for the 5 s of a peer that does not read, and the clock of the
loop with it.

*Earlier programs.* `test.ino`: a bounce in the pass right after the one that
counted leaves `state` at 1, and every pass switches (`doble`); a press right
after the release, while `state` is `0xffff`, is swallowed; `loop()` and the
task of the server race on `led.on` (`cruzados`); a message without "action"
compares a null pointer and is not an input of the model. `web.ino`: the
deadline's clock only moves with a byte, so that a silent client holds `loop()`
for ever; a request cut after its first line changes `Estado`, and the pin
follows on someone else's request (`cortada`). First firmware: reloading `/on`
repeats the order, and old pages are stale after a restart; "/index.html" is
served without the processor that fills in the state.

*WebSockets.* `cIsWebsocket` starts true, so the client does not require the
Upgrade header on its first connection; `pongTimeoutCount` outlives a
reconnection; a refused Socket.IO session is asked for again at once; a failed
connect emits DISCONNECTED; a write that is cut (WebSockets.cpp:690) leaves the
connection open and its frames out of step, which `TramaFiel` excepts with
`rota`; `clientDisconnect()` leaves `base64Authorization` and `cExtensions` in
the slot (542-575), so that a server with `setAuthorization()` would take a
client for the one before, which `SesionesEnOrden` excepts with `Quedan` (the
panel has no credential: the run has none, the theorem is for any);
`SocketIOclient::send()` with `headerToPayload` sends nothing ("TODO implement",
SocketIOclient.cpp:124); the deadline `_lastHeaderSent + ... < millis()` wraps at
2^32.

*AsyncTCP.* A call whose `_pcb` was read before line 899 and whose `_closed_slot`
after 839 carries a pcb that is being closed and no slot, and lines 377, 397, 420
and 442 let it through, which `PcbVivo` excepts with `desprotegida`; a full queue
blocks both threads for good (`Atasco`); `_error`
touches a pcb that lwIP freed (863-872), excepted with `reinicio`; an event
posted in the middle of a sweep overtakes others, against the comment at
AsyncTCP.cpp:125 (`desorden`).

*ESPAsyncWebServer.* Requests: the head may be postponed; a placeholder value
longer than the room loses bytes (WebResponses.cpp:447-460); `send(NULL)`
disconnects twice (WebRequest.cpp:711-716); after an empty first line the
request is deleted and `_onData` reads its state on (124-127, 558); a form that
states a length that is too short is handled as soon as a packet ends there,
without what comes behind (`FormFiel` asks then for a beginning of it); whether a text/plain body is a
form depends on how packets are cut (148-154). Site: the ETag is the file's
size, so that a change of equal size or an upload under way gets a wrong 304
(`SinCambios` compares what the code compares); an upload leaves an old ".gz"
copy that is served first; a file cut while it is served leaves its response
waiting for ever; failed writes are answered "UPLOADED"; an empty upload
creates no file; a PUT whose file does not open gets 500; the exclude list ends at a blank line and cuts lines at 31
characters; a JSON body of exactly the limit gets 400, and an empty one is refused by the
length of the last (which of the two refusals is not claimed); a JSON text is
parsed without its length and without a terminator (AsyncJson.h:225, 245), so
that one that does not end is read on in the memory behind it, and its function
may get more than was sent: `JsonFiel` asks there for what was sent, at the
beginning; unmatched URLs get 500. WebSocket handler:
`_runQueue` sends a finished control frame again before its ack, and the extra
ack makes a message's `_acked == _ack` never true, so the queue stops for ever
(`descuadre`); a buffer of `makeBuffer()` is unlocked until `textAll()` and may
be deleted before; the opcode of a message is only set for frames that come in
pieces, against README.md:1016-1037; empty messages are never sent;
`cleanupClients()` only queues a close frame to the front client; `close(true)`
goes on in a deleted object. Event source: a short event overtakes one that
waits for room and its acks are counted for it, which may lose events
(`adelantado`); an event longer than the window is never sent.

*ArduinoJson.* Reading `doc[i][j]` adds elements (ElementProxy.hpp:149-151);
`{"a":null} == {"b":1}` but not the reverse (CollectionImpl.hpp:80-90);
`doc["a"] = doc["a"]` of a collection empties it and `doc = doc` loses the data;
a call that fails half-way keeps what it did; "the variant is already null"
(JsonDeserializer.hpp:486) is not so for a repeated key, as `{a:1,a:null}`
shows; strings with NUL are compared asymmetrically and never found as keys.
MsgPack: `readArray` with the filter "*" uses a null pointer (376-389), and no
input of the run has that filter over an array; repeated keys are kept.
`decodeHex` takes ":" to "?" and the grave accent for digits, and a number whose
exponent is too large is accepted with whatever letters follow (121-126).

*WebServer of the ESP32.* A line of a part's header that comes more than the
timeout after the one before is read as empty, the header ends there, and the
late line and the blank one become bytes of the file (377-404); `strstr()` reads
on behind `endBuf`, which has no terminator (490), and may end a file early;
`ArchivoIntegro` excepts both with `duda`. The arguments of the URL that find no
room behind the fields of a form are dropped without a word (526-533). `arg()` finds the fields of a form that an earlier
request left (Parsing.cpp:534-545); a form that is cut in a part without a
limit keeps the loop reading empty lines (409); `send_P()` with a length after
`setContentLength(CONTENT_LENGTH_UNKNOWN)` writes its head as a chunk; headers
of a handler that sends nothing leak into the next response; a header without a
space after ":" loses its first character on GET (224).

## 4. Fairness

*Control loop.* `WF(Avance)`: the processor runs `loop()`, frames do not arrive
for ever within one call of `webSocket.loop()` (it serves each slot once and
returns), and a held button is let go. `SF(SegundoDeChispa \/ Segundo)`: time
passes, so of the infinitely many passes that reach line 475 infinitely many
find that the interval has elapsed; weak fairness would not do, because the
choice is disabled between two visits. No fairness on any input: nobody has to
press anything, and no flame has to come. The liveness properties suppose that
requests stop, because a request starts the attempts again. A wrapped counter
makes `TemporizadorApaga` true only after 2^32 seconds: it promises an end, not
a moment. *Panel*: the same with `Difundir` for the second, and a page paints
what it receives.

*Provisioning.* `WF(Configurar)` and `WF(Guardar)`: both tasks run.
`SF(Rendirse)`: the clock reaches ten seconds while the loop of 212-220 goes
round. None on the link. Power cuts must stop for `setup()` to end for good.
`TarjetaJusticia` asks of each program only its own; of the button, nothing.

*Libraries.* `WebSocketsLib`: `loop()` of either end is called again and again
(`WF(Pasada)`), and between two calls the clock goes on again and again
(`SF(Reloj)`); nothing is asked of the peer but what `LadosVuelven` supposes
for the client (a network that becomes good). `AsyncTcp`: weak fairness of the task, of the
lwIP thread's calls and of its waits for room. `ServidorHttp`:
`WF(handleClient)`, because its reads give up, and `WF(FinDeManejar)`, because
a handler of the sketch ends. `PaginaWeb`: `WF(LeerLetra \/ Dejar)`.
In `ServidorAsync` (`Justicia`), `AsyncWebSocket` (`WsJusticia`),
`AsyncEventSource` (`SseJusticia`) and `ArduinoJson` weak fairness is written
out as "infinitely often disabled, or infinitely often taken", with what enables
the step spelled out, since TLC would compute whole responses and queues for
each ENABLED: lwIP polls, what is in flight is acked or lost, an ack is told,
the timeouts come, the sketch goes on with its broadcast, the parser runs. No
peer has to send, or leave.

## 5. Proofs

Eight modules hold theorems, each beside the module it is about. A theorem
holds for every value of the constants that their named assumptions allow: any
number of attempts, seconds, slots, clients, browsers, any window, any width of
a counter, any set of frames, forms, files or requests.

**`ChimeneaProofs`.** `TypeCorrect` comes from two lemmas, one for the flags
and pins (`FlagsStep`) and one for the counters and bytes (`DataStep`).
`ValvulasEnOrden` is not inductive: that the high valve has the low one under
it depends on how far the pass is. `Valvulas` adds what holds between
statements, above all `BajoTrasLlama`: line 442 has opened the low valve of a
fireplace that is on before the pass reaches lines 454 and 463. `ArranqueEnBajo`
follows from the same invariant.

**`HistoriaProofs`.** The history variables constrain nothing
(`HistoriaRefina`), so the invariants above carry over. `ApagadoDuradero` needs
`ApagadoInv`: after an order to stop the flag is off and no timer is left to
relight it (506), through all the places that write either.
`PurgaAcotada` needs `SecosInv`, `secos <= 2 * intentos + 1`, with `CicloInv`,
by which a fireplace that is on without a flame is in its ignition cycle from
line 454 to the tick, so that each pair of dry intervals costs an attempt. That the
registers implement `CuentaRegresiva` (`ImplementaCuenta`) needs `MinutoInv`:
between one second and `PrimerMinuto` remain of the minute under way. Each
action is then a step of the countdown or a stutter. The panels constrain the
loop no more than its frames do (`PanelRefina`, by `SubidaInv`: a page only
sends frames of its buttons). `DifusionAtrasadaUnaVez` needs `DifusionInv`: from
line 429 to the tick the valve that was read as open stays open, because line 463
closes only what nobody holds on; one that was read as closed shows that gas
has not flowed since the last broadcast.

**`TarjetaProofs`.** First the provisioning: `RamInv` ties the four globals to
the first lines of the files they were read from while no form is under way; `EscrituraStep`
follows a form through its fields, the one being written included, so that
"Done" is due only when each was stored or `perdida` says that one was not.
Then one invariant for each of the other programs. `PulsadorInv`: the counter
holds 1 in the pass that counts a press and never again until the level changes
unless it bounced, wherever it wraps. `LuzInv`: unless they crossed, one task at
a time is switching the light, and what it is about to tell the pages is how the
light is. `FirmwareInv`: station mode is left only by a restart,
which puts the light out. `WebInv`: outside its loop the server of `web.ino` has
the pin follow `Estado`, unless the request that changed it was cut.

**`AsyncTcpProofs`.** `PcbVivo` rests on `PcbInvs`: an event in the queue, in
the post or in hands of the task speaks of a client whose pcb is at least as
far as the event (`Sano`); a client alive that is not closing has an open pcb
and one slot, and one that is about to read the slot of its call, having read the
pcb, still has that pcb or lost the slot with it; a slot is closed exactly when
nobody owns it. The two properties of
the queue need its *logical* order: during a sweep the queue is a rotation of
itself, and `Corte(k)` says where. `ColaInv` says, of that order, that the
events of a client are increasing and newer than what was handled, and that
ahead of whatever is left of a deleted client is its CLEAR event, or the sweep
itself (`Barridas`). There is one lemma for each operation of the queue (append,
put in front, take, turn, end of a sweep) and one for each handler. The two
theorems are about runs without `desorden`: an event posted in the middle of a
sweep breaks the rotation, and with it the comment at AsyncTCP.cpp:125.

**`WebSocketsProofs`.** `RanurasInv` adds to the two properties what a slot and
a connection are when they are put together (`Limpias`: a slot without a
connection has no header, a connection without a slot has sent nothing that was
read), which is what each of the several ways to drop a client has to restore,
but for the fields of `Quedan`, for every choice of those.
For the client, `EnOrden` says that without a connection the last failure is
not before the last attempt. `LadosCorrect` puts the parts together.
`CabeceraLeida` is about the codec of frames: for any payload shorter than
2^32 (four digits of base 256, or of the smaller base of an instance), masked or
not, with any opcode, mask and FIN bit, the operators by which the reader finds
length, mask, key and start of the payload give what `createHeader()` was given.
It rests on `LugaresValen` (the bytes of a number give it back), on the three
forms of a length (`Mide`), and on where the parts of a frame lie in it
(`Juntas`). That the payload itself is unmasked as it was is a fold over bits,
which only the run checks.

**`FlujosProofs`.** Of the queue of a client only the first message is under
way, and what the peer has of the message that it is reading is what the first
one sent (`EnCola`, `EnPar`). `CursorInv` says that the clients from the cursor
of `textAll()` on have not got its message; `BuferesInv` that its buffer is
locked while the cursor walks and exists while a queue holds it. `Sigue` is the
relation between a client before and after any operation of its queue: the
peer forgets nothing, nothing new comes but the message given, and a message
goes only when it is empty or the peer has all of it. It is transitive, so that
a callback that does several of them is done by its parts.

**`ServidorHttpProofs`.** `Orden` follows the thread: a response is chunked
exactly while it is being sent in pieces, a client is let go with nothing under
way, and between two fields there is room for one more. `Fichero` is about the
bytes of a file: the delimiter has its CR in front and nowhere else
(`FronteraAssumption`), so that at most one place of what was read can still be
its start; the bytes kept back are those from there on (`Guardado`), and what
was handed over, the buffer and the bytes kept back are what was read
(`Leido`). `ArchivoIntegro` is what that gives when the delimiter is whole; that
`desde` is where the file begins is kept through the three reads of the header,
each of which may be late, or else `duda` says that it is not.
`UsoCorrect` carries the three invariants to the server with its site, whose
steps leave the reader alone.

**`JsonProofs`.** `MemoriaEnOrden` for both readers: any texts (bytes 0 to 255),
filters, nesting limits and sizes of the pool, a pool of size 0 included, strings
copied or in place. It is not inductive: that a string of the document is never
written over depends on where the one that is being read lies. `MemoriaInv` adds
the types and, in place, that writing stays behind the character that was *not
taken* yet (`Sitio`), one behind what the latch has loaded; `Escribible` that a
copied string begins where the free zone does; `PasoInv` at which steps that
is so, that the latch is empty wherever a character is written without looking
at it, and that the key of a member is whole when its slot is taken (or the
frame skips). An escape of six characters writes at most four
(`Utf8Bien`), a terminator goes where the closing quote was (`FinalDeCadena` for
MessagePack, whose last octet has been read by then). `Respeta(m, n, q)` is what
every operation of the memory leaves alone: what is kept in the pool, what is
kept in the text, and the text beyond `q`; it is transitive, and `EnteraQueda`
takes a kept string over it. There is one lemma for each operation of the memory
and one for each of the 28 actions, which also says that the step respects what is
kept (`Conserva`). From that, `CadenasIntactas`, an action property that no run
checks: a string of the document says the same, byte for byte and with its
terminator, after every step. The theorems are about `Lectura`, the two
readers; the steps that `ArduinoJson` adds for its run, the calls on documents,
leave all of their variables alone, and that module is out of the prover's reach
because its trees are recursive operators.

*Assumptions.* The named `ASSUME`s of the constants, which every run evaluates.
The grain of the actions, which the modules state and the proofs inherit: a
callback of lwIP runs whole between two steps of AsyncTCP's task (priorities 18
and 3 on one core; the reads of a call's pcb and slot are steps of their own),
the queue's operations are atomic, a unit of time of `WebSocketsLib` is no
shorter than a pass; in `AsyncWebSocket` the 101 response is acked whole, the
header of a frame arrives whole, lwIP takes what `space()` offers, and the
client under the cursor of `textAll()` is not removed from the list; JSON
strings have no NUL and a `realloc()` that shrinks does not fail.

*Only model-checked.* The liveness properties, which need fairness and ENABLED
(`SinLlamaSeCierra`, `TemporizadorApaga`, `LlegaAlLazo`, `PanelConverge`,
`OffLlega`, `LadosVuelven`, `CierreLibera`, `FlujosAvanzan`,
`ConexionTermina`, `SinFormTermina`, `Termina`). `SitioFiel`
of `SitioHttp`, `PeticionFiel` and `RespuestaFiel` of `SitioAsync`, `TramaFiel`
of `Tramas` (all of it but the header), and `DocumentoFiel` and `PasoFiel` of
`ArduinoJson`: what they compare is computed by recursion or folds
over texts, chunks and trees, and a proof would be by induction over that data.
`EventosEnOrden`, the safety half of what `FlujosAvanzan` says of events, for the
same reason. The counterexamples of section 3.1.

## 6. Not modelled, and what is left

- *WebServer*: `begin()`, `close()` and `stop()`, the names of the status codes.
- *WebSockets*: passwords, the check of cookies, TLS.
- *AsyncTCP*: outgoing connections and DNS, `abort()`.
- *ESPAsyncWebServer*: authentication, the data frames that `AsyncWebSocket`
  receives (the sketch uses the other library), templates beyond a placeholder.
- *ArduinoJson*: conversions, raw text, the value of reals, printing to
  streams.
- *Panel*: `js3.js`, which no page loads.
- *Alexa experiments, trial sketches' waits, marketing site, board drawings*:
  pure waiting, logging or no program at all.

Next: parts of `ServidorAsync` that do not need induction (the state of a
response against what was handed to lwIP), and the order of events of
`AsyncEventSource` along the lines of `FlujosProofs`.

## 7. Running

    tlc -workers 2 -config MCViva.cfg MCChimenea
    tlapm ChimeneaProofs.tla

Module and configuration of each run are in `PROJECT.json`, as are the source
lines of each definition, the mutants that show that each property can fail,
the hazards and the theorems. `Doc*.cfg` end in a counterexample. The longest
runs, `json`, `async_tcp` and `ws_servidor`, take two to four minutes each with two workers;
`AsyncTcpProofs`, `FlujosProofs` and `JsonProofs` are the longest proofs.
