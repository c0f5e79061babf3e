--------------------------- MODULE PeticionAsync ---------------------------
(***************************************************************************)
(* The request parser of ESPAsyncWebServer (WebRequest.cpp) as operators on *)
(* a record that stands for an AsyncWebServerRequest.  The peer's bytes come *)
(* in packets cut anywhere; OnData is the whole of _onData for one packet.   *)
(* A line of the head but the first is one symbol and "LF"; the body is a    *)
(* sequence of symbols for its bytes, in which a line of a part's head is one *)
(* symbol too.                                                             *)
(***************************************************************************)
EXTENDS Integers, Sequences, SequencesExt

CONSTANTS
  Frontera,   \* the boundary of a multipart form, a sequence of symbols
  BufSubida   \* size of _itemBuffer (1460)

ASSUME PeticionAssumption ==
  Len(Frontera) > 0 /\ "CR" \notin Range(Frontera) /\ BufSubida \in Nat \ {0}

\* An upload call of the handler whose index is not the number of bytes that the
\* handler already has of that file sets enOrden to FALSE.
Nueva ==
  [parseState |-> "START", temp |-> <<>>, contentType |-> "otro", contentLength |-> 0,
   expectingContinue |-> FALSE, parsedLength |-> 0, isPlainPost |-> FALSE,
   multiState |-> "EXPECT_BOUNDARY", visto |-> 0,
   itemName |-> "", itemIsFile |-> FALSE, itemValue |-> <<>>, itemSize |-> 0, itemBuffer |-> <<>>,
   params |-> <<>>, archivos |-> <<>>, entregado |-> <<>>, cuerpo |-> <<>>,
   enOrden |-> TRUE, manejos |-> 0, continua |-> FALSE, borrada |-> FALSE]

Manejar(r) == [r EXCEPT !.parseState = "END", !.manejos = @ + 1]

-----------------------------------------------------------------------------
\* urlDecode(): "%26" stands for what a browser makes of "&".
urlDecode(s) == [i \in DOMAIN s |-> CASE s[i] = "+" -> " " [] s[i] = "%26" -> "&" [] OTHER -> s[i]]
\* Of a name only its first symbol is kept.
Par(nombre, valor) ==
  [nombre |-> IF nombre = <<>> THEN "" ELSE Head(urlDecode(nombre)), valor |-> urlDecode(valor)]

\* _addGetParams(): one parameter for each piece that ends with "&", and one for
\* what is left.
DeConsulta(p) ==
  LET i == SelectInSeq(p, LAMBDA x : x = "=")
  IN  IF i = 0 THEN Par(p, <<>>) ELSE Par(SubSeq(p, 1, i - 1), SubSeq(p, i + 1, Len(p)))
_addGetParams(consulta) ==
  LET paso(a, c) == IF c = "&" THEN [pieza |-> <<>>, params |-> Append(a.params, DeConsulta(a.pieza))]
                    ELSE [a EXCEPT !.pieza = Append(@, c)]
      a == FoldLeft(paso, [pieza |-> <<>>, params |-> <<>>], consulta)
  IN  IF a.pieza = <<>> THEN a.params ELSE Append(a.params, DeConsulta(a.pieza))

\* The first line: one symbol is its method and its path, and the query follows the
\* first "?" that does not begin it.
_parseReqHead(r) ==
  LET i == SelectInSeq(r.temp, LAMBDA x : x = "?")
  IN  [r EXCEPT !.params = IF i > 1 THEN @ \o _addGetParams(SubSeq(r.temp, i + 1, Len(r.temp))) ELSE @,
                !.temp = <<>>]

\* _parseReqHeader(): what another line of the head, named for its effect, leaves in
\* the request.
_parseReqHeader(r, linea, largo) ==
  [r EXCEPT !.contentType = IF linea \in {"multipart", "encoded", "texto"} THEN linea ELSE @,
            !.contentLength = IF linea = "largo" THEN largo ELSE @,
            !.expectingContinue = @ \/ linea = "expect",
            !.temp = <<>>]

\* An empty first line closes the connection, which deletes the request: _onData reads
\* its state from freed memory if the packet goes on.  The empty line after the head
\* attaches the handler and, without a body, calls it.
_parseLine(r, largo, basura) ==
  IF r.parseState = "START"
  THEN IF r.temp = <<>> THEN [r EXCEPT !.parseState = basura, !.borrada = TRUE]
       ELSE [_parseReqHead(r) EXCEPT !.parseState = "HEADERS"]
  ELSE IF r.temp # <<>> THEN _parseReqHeader(r, Head(r.temp), largo)
  ELSE LET s == [r EXCEPT !.continua = r.expectingContinue]
       IN  IF r.contentLength > 0 THEN [s EXCEPT !.parseState = "BODY"] ELSE Manejar(s)

-----------------------------------------------------------------------------
\* _parsePlainPostChar()
_parsePlainPostChar(r, c) ==
  LET s == [r EXCEPT !.parsedLength = @ + 1, !.temp = IF c # "&" THEN Append(@, c) ELSE @]
      i == IF "=" \in Range(s.temp) THEN SelectInSeq(s.temp, LAMBDA x : x = "=") ELSE 0
      par == IF i > 1 THEN Par(SubSeq(s.temp, 1, i - 1), SubSeq(s.temp, i + 1, Len(s.temp)))
                      ELSE Par(<<"body">>, s.temp)
  IN  IF c = "&" \/ s.parsedLength = s.contentLength
      THEN [s EXCEPT !.params = Append(@, par), !.temp = <<>>] ELSE s

\* handleUpload() with what is in the buffer.
Subir(r, final) ==
  LET dado == r.entregado \o r.itemBuffer
      s == [r EXCEPT !.enOrden = @ /\ r.itemSize - Len(r.itemBuffer) = Len(r.entregado),
                     !.itemBuffer = <<>>]
  IN  IF final
      THEN [s EXCEPT !.archivos = Append(@, [nombre |-> r.itemName, bytes |-> dado]),
                     !.entregado = <<>>]
      ELSE [s EXCEPT !.entregado = dado]

\* itemWriteByte(): a full buffer is handed over, and so is the last byte of the
\* packet.
itemWriteByte(r, b, last) ==
  LET s == [r EXCEPT !.itemSize = @ + 1]
  IN  IF ~r.itemIsFile THEN [s EXCEPT !.itemValue = Append(@, b)]
      ELSE LET t == [s EXCEPT !.itemBuffer = Append(@, b)]
           IN  IF last \/ Len(t.itemBuffer) = BufSubida THEN Subir(t, FALSE) ELSE t

Delimitador == <<"CR", "LF", "-", "-">> \o Frontera
Apertura    == <<"-", "-">> \o Frontera \o <<"CR", "LF">>

\* A byte of the value that does not go on with the delimiter: what had been taken
\* for its beginning belongs to the value, and the byte is looked at again.
\* The mutant takes the byte for one of the value.
Recaer_SinMirar(r, visto, b, last) ==
  LET s == FoldLeft(LAMBDA q, c : itemWriteByte(q, c, last), r, visto)
  IN  [itemWriteByte(s, b, last) EXCEPT !.multiState = "VALUE", !.visto = 0]
Recaer(r, visto, b, last) ==
  LET s == [FoldLeft(LAMBDA q, c : itemWriteByte(q, c, last), r, visto)
              EXCEPT !.multiState = "VALUE"]
  IN  IF b = "CR" THEN [s EXCEPT !.visto = 1]
                  ELSE [itemWriteByte(s, b, last) EXCEPT !.visto = 0]

\* The delimiter is complete: a field is added, a file that is not empty is handed
\* over for the last time.
FinDeItem(r) ==
  LET s == [r EXCEPT !.multiState = "DASH3_OR_RETURN2", !.visto = 0]
      par == [nombre |-> r.itemName, valor |-> r.itemValue]
  IN  IF ~r.itemIsFile THEN [s EXCEPT !.params = Append(@, par)]
      ELSE IF r.itemSize > 0 THEN Subir(s, TRUE) ELSE s

\* A line of the head of a part, or the empty one that ends it.
LineaDeParte(r, b) ==
  IF b # "LF" THEN [r EXCEPT !.temp = Append(@, b)]
  ELSE IF r.temp = <<>>
       THEN [r EXCEPT !.multiState = "VALUE", !.visto = 0, !.itemSize = 0,
                      !.itemValue = <<>>, !.itemBuffer = <<>>]
  ELSE LET linea == Head(r.temp)
       IN  [r EXCEPT !.temp = <<>>,
                     !.itemIsFile = @ \/ linea \in {"archivo", "tipo"},
                     !.itemName = IF linea = "tipo" THEN @ ELSE linea]

\* After the delimiter: "-" ends the form, whose length is corrected to the four
\* symbols that follow, and CR LF begins another part.  A form that goes on with
\* anything else holds its own delimiter, and no such form is sent.  The mutant
\* counts one symbol less.
TrasDelimitador_UnoMenos(r, b, last) ==
  LET s == IF b = "-" THEN [r EXCEPT !.contentLength = r.parsedLength + 3] ELSE r
  IN  IF b = "CR" THEN [s EXCEPT !.multiState = "EXPECT_FEED2"]
      ELSE IF b = "-" THEN [s EXCEPT !.multiState = "PARSING_FINISHED"]
      ELSE Recaer(s, Delimitador, b, last)
TrasDelimitador(r, b, last) ==
  LET s == IF b = "-" THEN [r EXCEPT !.contentLength = r.parsedLength + 4] ELSE r
  IN  IF b = "CR" THEN [s EXCEPT !.multiState = "EXPECT_FEED2"]
      ELSE IF b = "-" THEN [s EXCEPT !.multiState = "PARSING_FINISHED"]
      ELSE Recaer(s, Delimitador, b, last)

\* _parseMultipartPostByte(), and the count of its caller.
_parseMultipartPostByte(r, b, last) ==
  LET n == r.parsedLength
      s == CASE r.multiState = "EXPECT_BOUNDARY" ->
                  IF b # Apertura[n + 1] THEN [r EXCEPT !.multiState = "PARSE_ERROR"]
                  ELSE IF n + 1 = Len(Apertura)
                  THEN [r EXCEPT !.multiState = "PARSE_HEADERS", !.itemIsFile = FALSE]
                  ELSE r
             [] r.multiState = "PARSE_HEADERS" -> LineaDeParte(r, b)
             [] r.multiState = "VALUE" ->
                  IF b # Delimitador[r.visto + 1]
                  THEN Recaer(r, SubSeq(Delimitador, 1, r.visto), b, last)
                  ELSE IF r.visto + 1 = Len(Delimitador) THEN FinDeItem(r)
                  ELSE [r EXCEPT !.visto = @ + 1]
             [] r.multiState = "DASH3_OR_RETURN2" -> TrasDelimitador(r, b, last)
             [] r.multiState = "EXPECT_FEED2" ->
                  IF b = "LF" THEN [r EXCEPT !.multiState = "PARSE_HEADERS", !.itemIsFile = FALSE]
                  ELSE Recaer(r, Append(Delimitador, "CR"), b, last)
             [] r.multiState \in {"PARSING_FINISHED", "PARSE_ERROR"} -> r
  IN  [s EXCEPT !.parsedLength = @ + 1]

-----------------------------------------------------------------------------
\* A text/plain body is taken for a form if its first packet holds a name and
\* "=", with more after it.
EsParam(c) == c \notin {"=", "&", "{", "["}
PareceForm(paq) ==
  \E i \in 1..(Len(paq) - 1) : i > 1 /\ paq[i] = "=" /\ \A j \in 1..(i - 1) : EsParam(paq[j])

\* The part of _onData for a body; a handler without a function has nothing parsed.
Cuerpo(r, paq, trivial) ==
  LET n == Len(paq)
      p == IF r.parsedLength > 0 THEN r
           ELSE [r EXCEPT !.isPlainPost = \/ r.contentType = "encoded"
                                          \/ r.contentType = "texto" /\ PareceForm(paq)]
      s == IF r.contentType = "multipart" /\ ~trivial
           THEN FoldLeft(LAMBDA q, i : _parseMultipartPostByte(q, paq[i], i = n), r, [i \in 1..n |-> i])
           ELSE IF r.contentType # "multipart" /\ ~p.isPlainPost
           THEN [p EXCEPT !.enOrden = @ /\ p.parsedLength = Len(p.cuerpo),
                          !.cuerpo = @ \o paq, !.parsedLength = @ + n]
           ELSE IF r.contentType # "multipart" /\ ~trivial
           THEN FoldLeft(_parsePlainPostChar, p, paq)
           ELSE [p EXCEPT !.parsedLength = @ + n]
  IN  IF s.parsedLength = s.contentLength THEN Manejar(s) ELSE s

\* The part of _onData for the head: as many symbols as belong to it.
Cabeza(r, paq, largo, basura) ==
  FoldLeft(LAMBDA a, c : IF a.r.parseState \notin {"START", "HEADERS"} THEN a
                         ELSE [r |-> IF c = "LF" THEN _parseLine(a.r, largo, basura)
                                     ELSE [a.r EXCEPT !.temp = Append(@, c)],
                               k |-> a.k + 1],
           [r |-> r, k |-> 0], paq)

_onData(r, paq, largo, trivial, basura) ==
  LET a == Cabeza(r, paq, largo, basura)
      resto == SubSeq(paq, a.k + 1, Len(paq))
  IN  IF a.r.parseState = "BODY" /\ resto # <<>> THEN Cuerpo(a.r, resto, trivial) ELSE a.r
=============================================================================
