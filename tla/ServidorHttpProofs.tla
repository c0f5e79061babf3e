------------------------- MODULE ServidorHttpProofs -------------------------
(*************************************************************************)
(* Proofs about the WebServer library of the ESP32 core (ServidorHttp):  *)
(* its responses are well formed, the fields of a form fit their array,  *)
(* and an uploaded file reaches the sketch whole.                        *)
(*                                                                       *)
(* Orden follows the thread: a response is chunked exactly while it is   *)
(* being sent in pieces, a client is let go with nothing under way, and  *)
(* between two fields of a form there is room for one more.              *)
(*                                                                       *)
(* Fichero is about the bytes of a file.  The delimiter has its CR at    *)
(* the front and nowhere else, so at most one place of what has been     *)
(* read may still be the start of it; the bytes kept back (retenido) are *)
(* exactly those from that place on, and if there is none nothing is     *)
(* kept (Guardado).  What was handed to the sketch, the buffer and what  *)
(* is kept back are then the bytes that were read (Leido), whatever the  *)
(* boundary, the file and the length of the buffer are.                  *)
(*************************************************************************)
EXTENDS SitioHttp, SequenceTheorems, TLAPS

\* What a peer sends, and whose a field is.
Simbolos == Lineas \cup Bytes
Origenes == {"esta", "otra"}

-----------------------------------------------------------------------------
(* The response.                                                           *)
RespuestaInv ==
  /\ salida \in {"nada", "trozos", "cierre", "largo", "terminada"}
  /\ chunked \in BOOLEAN /\ (chunked <=> salida = "trozos")
  /\ chunked => paso \in {"manejar", "finalizar"}
HiloInv ==
  /\ estado \in {"HC_NONE", "HC_WAIT_READ"}
  /\ red = "sin" => estado = "HC_NONE"
  /\ estado = "HC_NONE" => paso = "reposo" /\ subida = Nada
AvisoInv ==
  aviso \in {"START", "WRITE"} => paso = "subir" /\ pet.manejador = "fnSubida"
EnForma == {"parte", "tipoCampo", "tipoArchivo", "blancoCampo", "blancoArchivo", "valor", "subir", "trasArchivo"}
CamposInv ==
  /\ postArgs \in Seq(Origenes) /\ Len(postArgs) <= MaxArgs
  /\ paso \in EnForma => Len(postArgs) < MaxArgs
\* The request, and the arguments of its URL.
ArgumentosInv ==
  /\ red # "sin" => pet \in Peticiones
  /\ leido \in Nat /\ args \in Seq(Origenes)
Orden == RespuestaInv /\ HiloInv /\ AvisoInv /\ CamposInv

\* At the start there are no arguments.
LEMMA ArgumentosInit == Init => ArgumentosInv
<1> SUFFICES ASSUME Init PROVE ArgumentosInv
  OBVIOUS
<1>1. red = "sin" /\ leido = 0 /\ args = <<>>
  BY DEF Init
<1> QED  BY <1>1 DEF ArgumentosInv

\* n arguments.
LEMMA ArgumentosTipo == \A n \in Nat : Argumentos(n) \in Seq(Origenes)
  BY DEF Argumentos, Origenes

\* The arguments are those of the URL and the body, or what a form has joined.
LEMMA ArgumentosStep == Orden /\ ArgumentosInv /\ [Next]_vars => ArgumentosInv'
<1> SUFFICES ASSUME Orden, ArgumentosInv, [Next]_vars PROVE ArgumentosInv'
  OBVIOUS
<1> USE DEF ArgumentosInv
<1>1. ASSUME UNCHANGED <<pet, leido, args>>, red' = red \/ red # "sin" PROVE ArgumentosInv'
  BY <1>1
<1>2. ASSUME Soltar PROVE ArgumentosInv'
  <2>1. red' = "sin" /\ leido' = 0 /\ args' = <<>>
    BY <1>2 DEF Soltar
  <2> QED  BY <2>1
<1>3. paso # "reposo" => red # "sin"
  BY DEF Orden, HiloInv
<1>4. ASSUME NEW p \in Peticiones, Conectar(p) PROVE ArgumentosInv'
  BY <1>4 DEF Conectar
<1>5. CASE Cortar
  BY <1>1, <1>5 DEF Cortar, cuerpo
<1>6. CASE Aceptar
  BY <1>1, <1>6 DEF Aceptar, entradas, cuerpo
<1>7. CASE EsperarDatos
  <2>1. CASE ~Soltar
    BY <1>1, <1>7, <2>1 DEF EsperarDatos, entradas
  <2> QED  BY <1>2, <2>1
<1>8. ASSUME NEW entera \in BOOLEAN, LineaDePeticion(entera) PROVE ArgumentosInv'
  <2>1. CASE ~Soltar
    BY <1>1, <1>8, <2>1 DEF LineaDePeticion, Rechazar, cuerpo
  <2> QED  BY <1>2, <2>1
<1>9. ASSUME NEW l, Cabeceras(l) PROVE ArgumentosInv'
  <2>1. paso = "cabeceras" /\ UNCHANGED <<red, pet, leido>> /\ (args' = args \/ args' = Argumentos(pet.query))
    BY <1>9 DEF Cabeceras
  <2>2. pet \in Peticiones
    BY <1>3, <2>1
  <2>3. Argumentos(pet.query) \in Seq(Origenes)
    BY <2>2, ArgumentosTipo, PeticionesAssumption
  <2> QED  BY <2>1, <2>3
<1>10. ASSUME NEW k \in 1..Len(entrada), Cuerpo(k) PROVE ArgumentosInv'
  <2>1. /\ paso = "cuerpo" /\ UNCHANGED <<red, pet>> /\ leido' = leido + k
        /\ \/ args' = args
           \/ args' = Argumentos(pet.query + IF pet.tipo = "encoded" THEN leido' ELSE 1)
    BY <1>10 DEF Cuerpo
  <2>2. pet \in Peticiones /\ leido' \in Nat
    BY <1>3, <2>1
  <2>3. pet.query + (IF pet.tipo = "encoded" THEN leido' ELSE 1) \in Nat
    BY <2>2, PeticionesAssumption
  <2>4. args' \in Seq(Origenes)
    BY <2>1, <2>3, ArgumentosTipo
  <2> QED  BY <2>1, <2>2, <2>4
<1>11. CASE CuerpoTarde
  BY <1>2, <1>11 DEF CuerpoTarde, Rechazar
<1>12. ASSUME NEW l, Form(l) PROVE ArgumentosInv'
  <2>1. CASE ~Soltar
    BY <1>1, <1>12, <2>1 DEF Form, Rechazar
  <2> QED  BY <1>2, <2>1
<1>13. ASSUME NEW l, Parte(l) \/ TipoDeParte(l) \/ BlancoDeParte(l) \/ TrasArchivo(l) PROVE ArgumentosInv'
  <2>1. UNCHANGED <<red, pet, cuerpo>>
    BY <1>13 DEF Parte, TipoDeParte, BlancoDeParte, TrasArchivo
  <2> QED  BY <1>1, <2>1 DEF cuerpo
<1>14. ASSUME NEW l, Valor(l) PROVE ArgumentosInv'
  <2>1. CASE ~Soltar
    BY <1>1, <1>14, <2>1 DEF Valor
  <2> QED  BY <1>2, <2>1
<1>15. CASE UnirArgumentos
  BY <1>1, <1>15 DEF UnirArgumentos, entradas
<1>16. CASE CopiarArgumentos
  BY <1>16 DEF CopiarArgumentos, entradas, Orden, CamposInv
<1>17. ASSUME NEW strstr, Subir(strstr) PROVE ArgumentosInv'
  BY <1>1, <1>17 DEF Subir, cuerpo
<1>18. CASE SubidaRota
  BY <1>2, <1>18 DEF SubidaRota
<1>19. ASSUME NEW desconocido \in BOOLEAN, NEW n \in {0, 1}, send(desconocido, n) PROVE ArgumentosInv'
  BY <1>1, <1>19 DEF send, entradas, cuerpo
<1>20. ASSUME NEW n \in {0, 1}, sendContent(n) PROVE ArgumentosInv'
  BY <1>1, <1>20 DEF sendContent, entradas, cuerpo
<1>21. CASE FinDeManejar
  BY <1>1, <1>21 DEF FinDeManejar, entradas, cuerpo
<1>22. CASE _finalizeResponse
  BY <1>2, <1>22 DEF _finalizeResponse
<1>23. CASE UNCHANGED vars
  BY <1>1, <1>23 DEF vars, entradas, cuerpo
<1> QED
  BY <1>4, <1>5, <1>6, <1>7, <1>8, <1>9, <1>10, <1>11, <1>12, <1>13, <1>14, <1>15, <1>16, <1>17, <1>18,
     <1>19, <1>20, <1>21, <1>22, <1>23 DEF Next, handleClient

\* No response, upload or form is under way at the start.
LEMMA OrdenInit == Init => Orden
<1> SUFFICES ASSUME Init PROVE Orden
  OBVIOUS
<1>1. MaxArgs \in Nat /\ MaxArgs > 0
  BY LimitesAssumption
<1>2. postArgs = <<>> /\ Len(postArgs) = 0 /\ postArgs \in Seq(Origenes) /\ paso = "reposo"
  BY DEF Init
<1>3. CamposInv
  BY <1>1, <1>2 DEF CamposInv, EnForma
<1>4. RespuestaInv /\ HiloInv /\ AvisoInv
  BY DEF Init, RespuestaInv, HiloInv, AvisoInv
<1> QED  BY <1>3, <1>4 DEF Orden

\* What one step does to the path of the thread.
LEMMA OrdenStep == Orden /\ ArgumentosInv /\ [Next]_vars => Orden'
<1> SUFFICES ASSUME Orden, ArgumentosInv, [Next]_vars PROVE Orden'
  OBVIOUS
<1> USE DEF Orden, EnForma
<1>1. ASSUME NEW p \in Peticiones, Conectar(p) PROVE Orden'
  <2>1. PICK n \in Nat : n = Len(postArgs) /\ DOMAIN postArgs = 1..n
    BY DEF CamposInv
  <2>2. postArgs' = [i \in 1..n |-> "otra"]
    BY <1>1, <2>1 DEF Conectar
  <2>3. postArgs' \in Seq(Origenes) /\ Len(postArgs') = n
    <3>1. "otra" \in Origenes
      BY DEF Origenes
    <3> QED  BY <2>2, <3>1
  <2>4. estado' = "HC_NONE" /\ paso' = "reposo" /\ subida' = Nada /\ red' = "viva"
    BY <1>1 DEF Conectar, HiloInv
  <2>5. ~chunked /\ chunked' = chunked /\ salida' = "nada" /\ aviso' = "nada"
    BY <1>1 DEF Conectar, HiloInv, RespuestaInv
  <2>6. RespuestaInv' /\ HiloInv' /\ AvisoInv'
    BY <2>4, <2>5 DEF RespuestaInv, HiloInv, AvisoInv, Nada
  <2> QED  BY <2>1, <2>3, <2>4, <2>6 DEF CamposInv
<1>2. CASE Cortar
  BY <1>2 DEF Cortar, RespuestaInv, HiloInv, AvisoInv, CamposInv, cuerpo, archivo, respuesta, Nada
<1>3. ASSUME Soltar, postArgs' \in Seq(Origenes), Len(postArgs') <= MaxArgs, respuesta' = respuesta, ~chunked,
             aviso' \notin {"START", "WRITE"}
      PROVE  Orden'
  BY <1>3 DEF Soltar, RespuestaInv, HiloInv, AvisoInv, CamposInv, respuesta, Nada
<1>4. ASSUME Rechazar, paso \notin {"manejar", "finalizar", "subir"} PROVE Orden'
  <2>1. aviso' \notin {"START", "WRITE"} /\ ~chunked
    BY <1>4 DEF Rechazar, AvisoInv, RespuestaInv
  <2> QED  BY <1>3, <1>4, <2>1 DEF Rechazar, respuesta, CamposInv
<1>5. ASSUME UNCHANGED <<estado, red, subida, aviso, pet, respuesta>>, estado = "HC_WAIT_READ", ~chunked,
             paso # "subir",
             postArgs' \in Seq(Origenes), Len(postArgs') <= MaxArgs,
             paso' \in EnForma => Len(postArgs') < MaxArgs
      PROVE  Orden'
  BY <1>5 DEF RespuestaInv, HiloInv, AvisoInv, CamposInv, respuesta
<1>6. paso # "reposo" => estado = "HC_WAIT_READ"
  BY DEF HiloInv
<1>7. CASE Aceptar
  BY <1>7 DEF Aceptar, RespuestaInv, HiloInv, AvisoInv, CamposInv, entradas, cuerpo, archivo, respuesta
<1>8. CASE EsperarDatos
  <2>1. aviso' \notin {"START", "WRITE"} /\ ~chunked
    BY <1>8 DEF EsperarDatos, AvisoInv, RespuestaInv
  <2>2. CASE Soltar
    BY <1>3, <1>8, <2>1, <2>2 DEF EsperarDatos, respuesta, CamposInv
  <2>3. CASE ~Soltar
    BY <1>5, <1>8, <2>1, <2>3 DEF EsperarDatos, respuesta, entradas, CamposInv
  <2> QED  BY <2>2, <2>3
<1>9. ASSUME NEW entera \in BOOLEAN, LineaDePeticion(entera) PROVE Orden'
  <2>1. CASE pet.metodo = "otro" \/ ~entera
    BY <1>4, <1>9, <2>1 DEF LineaDePeticion
  <2>2. CASE ~(pet.metodo = "otro" \/ ~entera)
    <3>1. ~chunked /\ estado = "HC_WAIT_READ" /\ paso = "reposo" /\ paso' = "cabeceras" /\ chunked' = chunked
      BY <1>9, <2>2 DEF LineaDePeticion, RespuestaInv
    <3> QED  BY <1>5, <1>9, <2>2, <3>1 DEF LineaDePeticion, cuerpo, archivo, respuesta, CamposInv
  <2> QED  BY <2>1, <2>2
<1>10. ASSUME NEW l, Cabeceras(l) PROVE Orden'
  <2>1. paso = "cabeceras" /\ paso' \in {"form", "cuerpo", "manejar"}
    BY <1>10 DEF Cabeceras
  <2>2. ~chunked
    BY <2>1 DEF RespuestaInv
  <2> QED  BY <1>5, <1>6, <1>10, <2>1, <2>2 DEF Cabeceras, archivo, respuesta, CamposInv
<1>11. ASSUME NEW k \in 1..Len(entrada), Cuerpo(k) PROVE Orden'
  <2>1. paso = "cuerpo" /\ paso' \in {"cuerpo", "manejar"}
    BY <1>11 DEF Cuerpo
  <2>2. ~chunked
    BY <2>1 DEF RespuestaInv
  <2> QED  BY <1>5, <1>6, <1>11, <2>1, <2>2 DEF Cuerpo, archivo, respuesta, CamposInv
<1>12. CASE CuerpoTarde
  BY <1>4, <1>12 DEF CuerpoTarde
<1>13. ASSUME NEW l, Form(l) PROVE Orden'
  <2>1. CASE l # "abre"
    BY <1>4, <1>13, <2>1 DEF Form
  <2>2. CASE l = "abre"
    <3>1. postArgs' = <<>> /\ Len(postArgs') = 0 /\ MaxArgs > 0 /\ paso = "form" /\ paso' = "parte"
      BY <1>13, <2>2, LimitesAssumption DEF Form
    <3>2. postArgs' \in Seq(Origenes)
      BY <3>1
    <3>4. ~chunked
      BY <3>1 DEF RespuestaInv
    <3>3. MaxArgs \in Nat
      BY LimitesAssumption
    <3> QED  BY <1>5, <1>6, <1>13, <2>2, <3>1, <3>2, <3>3, <3>4 DEF Form, archivo, respuesta
  <2> QED  BY <2>1, <2>2
<1>14. ASSUME NEW l, Parte(l) PROVE Orden'
  <2>1. paso = "parte" /\ paso' \in {"parte", "tipoCampo", "tipoArchivo"}
    BY <1>14 DEF Parte
  <2>2. ~chunked
    BY <2>1 DEF RespuestaInv
  <2> QED  BY <1>5, <1>6, <1>14, <2>1, <2>2 DEF Parte, cuerpo, respuesta, CamposInv
<1>14a. ASSUME NEW l, EmpezarParte(l), paso \in {"tipoCampo", "tipoArchivo", "blancoCampo", "blancoArchivo"},
               UNCHANGED <<estado, red, pet, postArgs, respuesta>>
        PROVE  Orden'
  <2>1. ~chunked /\ estado = "HC_WAIT_READ" /\ aviso \notin {"START", "WRITE"}
    BY <1>6, <1>14a DEF RespuestaInv, AvisoInv
  <2>2. paso' \in {"valor", "subir"}
    BY <1>14a DEF EmpezarParte
  <2>3. aviso' = aviso \/ (paso' = "subir" /\ aviso' = "START" /\ pet.manejador = "fnSubida")
    BY <1>14a DEF EmpezarParte, Avisar
  <2> QED  BY <1>14a, <2>1, <2>2, <2>3 DEF RespuestaInv, HiloInv, AvisoInv, CamposInv, respuesta
<1>14b. ASSUME NEW l, TipoDeParte(l) PROVE Orden'
  <2>1. paso \in {"tipoCampo", "tipoArchivo"} /\ UNCHANGED <<estado, red, pet, postArgs, respuesta>>
    BY <1>14b DEF TipoDeParte, cuerpo
  <2>2. CASE l = "tipo"
    <3>1. paso' \in {"blancoCampo", "blancoArchivo"} /\ UNCHANGED <<subida, aviso>> /\ ~chunked
      BY <1>14b, <2>1, <2>2 DEF TipoDeParte, RespuestaInv
    <3> QED  BY <1>5, <1>6, <2>1, <3>1 DEF CamposInv
  <2>3. CASE l # "tipo"
    BY <1>14a, <1>14b, <2>1, <2>3 DEF TipoDeParte
  <2> QED  BY <2>2, <2>3
<1>14c. ASSUME NEW l, BlancoDeParte(l) PROVE Orden'
  BY <1>14a, <1>14c DEF BlancoDeParte, cuerpo
<1>15. ASSUME NEW l, Valor(l) PROVE Orden'
  <2>0. paso = "valor" /\ ~chunked
    BY <1>15 DEF Valor, RespuestaInv
  <2>1. Len(postArgs) < MaxArgs /\ postArgs \in Seq(Origenes) /\ MaxArgs \in Nat
    BY <2>0, LimitesAssumption DEF CamposInv
  <2>2. postArgs' = IF l \in {"abre", "cierra"} THEN Append(postArgs, "esta") ELSE postArgs
    BY <1>15 DEF Valor
  <2>3. postArgs' \in Seq(Origenes) /\ Len(postArgs') <= MaxArgs
        /\ (l \notin {"abre", "cierra"} => Len(postArgs') < MaxArgs)
    <3>1. "esta" \in Origenes
      BY DEF Origenes
    <3>2. Append(postArgs, "esta") \in Seq(Origenes) /\ Len(Append(postArgs, "esta")) = Len(postArgs) + 1
      BY <2>1, <3>1, AppendProperties
    <3>3. Len(postArgs) \in Nat
      BY <2>1
    <3> QED  BY <2>1, <2>2, <3>2, <3>3
  <2>4. CASE l = "abre" /\ Len(postArgs') >= MaxArgs
    <3>1. Soltar /\ aviso' = aviso /\ respuesta' = respuesta
      BY <1>15, <2>4 DEF Valor, respuesta
    <3>2. aviso' \notin {"START", "WRITE"}
      BY <2>0, <3>1 DEF AvisoInv
    <3> QED  BY <1>3, <2>0, <2>3, <3>1, <3>2
  <2>5. CASE ~(l = "abre" /\ Len(postArgs') >= MaxArgs)
    <3>3. Len(postArgs') \in Nat
      BY <2>3
    <3>4. paso' = CASE l = "cierra" -> "finForm" [] l = "abre" -> "parte" [] OTHER -> paso
      BY <1>15, <2>5 DEF Valor
    <3>1. paso' \in EnForma => Len(postArgs') < MaxArgs
      <4>1. CASE l = "cierra"
        <5>1. paso' = "finForm"
          BY <3>4, <4>1
        <5> QED  BY <5>1
      <4>2. CASE l = "abre"
        BY <2>1, <2>5, <3>3, <4>2
      <4>3. CASE l \notin {"abre", "cierra"}
        BY <2>3, <4>3
      <4> QED  BY <4>1, <4>2, <4>3
    <3>2. paso' \in {"parte", "valor", "finForm"}
      BY <2>0, <3>4
    <3> QED  BY <1>5, <1>6, <1>15, <2>0, <2>3, <2>5, <3>1, <3>2 DEF Valor, archivo, respuesta
  <2> QED  BY <2>4, <2>5
<1>16. ASSUME NEW l, TrasArchivo(l) PROVE Orden'
  <2>1. paso = "trasArchivo" /\ paso' \in {"finForm", "parte"}
    BY <1>16 DEF TrasArchivo
  <2>2. ~chunked
    BY <2>1 DEF RespuestaInv
  <2> QED  BY <1>5, <1>6, <1>16, <2>1, <2>2 DEF TrasArchivo, cuerpo, archivo, respuesta, CamposInv
<1>17. CASE UnirArgumentos
  <2>1. paso = "finForm" /\ paso' = "copiar" /\ ~chunked
    BY <1>17 DEF UnirArgumentos, RespuestaInv
  <2>2. PICK a \in Nat, n \in Nat : a = Len(args) /\ n = Len(postArgs) /\ n <= MaxArgs
    BY DEF ArgumentosInv, CamposInv
  <2>3. MaxArgs \in Nat
    BY LimitesAssumption
  <2>4. PICK k \in Nat : k = Min({a, MaxArgs - n}) /\ k <= a /\ k <= MaxArgs - n
    <3>1. (IF a <= MaxArgs - n THEN a ELSE MaxArgs - n) = Min({a, MaxArgs - n})
      BY <2>2, <2>3 DEF Min
    <3> QED  BY <2>2, <2>3, <3>1
  <2>5. SubSeq(args, 1, k) \in Seq(Origenes) /\ Len(SubSeq(args, 1, k)) = k
    <3>1. \A i \in 1..k : args[i] \in Origenes
      BY <2>2, <2>4 DEF ArgumentosInv
    <3>2. SubSeq(args, 1, k) \in Seq(Origenes) /\ Len(SubSeq(args, 1, k)) = IF 1 <= k THEN k - 1 + 1 ELSE 0
      BY <3>1, SubSeqProperties
    <3> QED  BY <3>2
  <2>6. postArgs' = postArgs \o SubSeq(args, 1, k)
    BY <1>17, <2>2, <2>4 DEF UnirArgumentos
  <2>7. postArgs' \in Seq(Origenes) /\ Len(postArgs') = n + k
    BY <2>2, <2>5, <2>6, ConcatProperties DEF CamposInv
  <2>8. Len(postArgs') <= MaxArgs
    BY <2>2, <2>3, <2>4, <2>7
  <2> QED  BY <1>5, <1>6, <1>17, <2>1, <2>7, <2>8 DEF UnirArgumentos, entradas, archivo, respuesta
<1>17a. CASE CopiarArgumentos
  <2>1. paso = "copiar" /\ paso' = "manejar" /\ postArgs' = <<>> /\ ~chunked
    BY <1>17a DEF CopiarArgumentos, RespuestaInv
  <2>2. postArgs' \in Seq(Origenes) /\ Len(postArgs') <= MaxArgs
    BY <2>1, LimitesAssumption
  <2> QED  BY <1>5, <1>6, <1>17a, <2>1, <2>2 DEF CopiarArgumentos, entradas, archivo, respuesta
<1>18. ASSUME NEW strstr, Subir(strstr) PROVE Orden'
  <2>1. paso = "subir" /\ paso' \in {"subir", "trasArchivo"} /\ UNCHANGED <<estado, red, pet, postArgs, respuesta>>
    BY <1>18 DEF Subir, cuerpo
  <2>2. paso' = "trasArchivo" => aviso' = "END" \/ (aviso' = aviso /\ pet.manejador # "fnSubida")
    BY <1>18 DEF Subir, Avisar
  <2>3. paso' = "subir" => aviso' = aviso \/ (aviso' = "WRITE" /\ pet.manejador = "fnSubida")
    BY <1>18 DEF Subir, Avisar
  <2>4. AvisoInv'
    BY <2>1, <2>2, <2>3 DEF AvisoInv
  <2> QED  BY <1>6, <2>1, <2>4 DEF RespuestaInv, HiloInv, CamposInv, respuesta
<1>19. CASE SubidaRota
  <2>1. paso = "subir" /\ Soltar /\ ~chunked /\ aviso' = (IF pet.manejador = "fnSubida" THEN "ABORTED" ELSE aviso)
    BY <1>19 DEF SubidaRota, Avisar, RespuestaInv
  <2>2. aviso' \notin {"START", "WRITE"}
    BY <2>1 DEF AvisoInv
  <2> QED  BY <1>3, <1>19, <2>1, <2>2 DEF SubidaRota, CamposInv
<1>20. ASSUME NEW desconocido \in BOOLEAN, NEW n \in {0, 1}, send(desconocido, n) PROVE Orden'
  <2>1. paso = "manejar" /\ salida = "nada" /\ UNCHANGED <<estado, red, paso, pet, postArgs, subida, aviso>>
    BY <1>20 DEF send, entradas, cuerpo, archivo
  <2>2. chunked' \in BOOLEAN /\ chunked' = (desconocido /\ pet.version = 1)
    BY <1>20 DEF send
  <2>3. salida' = IF chunked' THEN "trozos" ELSE IF desconocido THEN "cierre" ELSE "largo"
    BY <1>20 DEF send, Trozo
  <2>4. RespuestaInv'
    BY <2>1, <2>2, <2>3 DEF RespuestaInv
  <2> QED  BY <2>1, <2>4 DEF HiloInv, AvisoInv, CamposInv, Nada
<1>21. ASSUME NEW n \in {0, 1}, sendContent(n) PROVE Orden'
  <2>1. /\ paso = "manejar" /\ salida \in {"trozos", "cierre"}
        /\ UNCHANGED <<estado, red, paso, pet, postArgs, subida, aviso>>
    BY <1>21 DEF sendContent, entradas, cuerpo, archivo
  <2>2. salida' = (IF salida = "trozos" THEN IF n = 0 THEN "terminada" ELSE "trozos" ELSE salida)
    BY <1>21, <2>1 DEF sendContent, Trozo
  <2>3. chunked' = (chunked /\ n > 0) /\ (n > 0 <=> n # 0) /\ chunked \in BOOLEAN /\ (chunked <=> salida = "trozos")
    BY <1>21 DEF sendContent, RespuestaInv
  <2>4. chunked' \in BOOLEAN /\ (chunked' <=> salida' = "trozos")
    BY <2>1, <2>2, <2>3, Zenon
  <2>5. salida' \in {"trozos", "cierre", "terminada"}
    BY <2>1, <2>2
  <2>6. RespuestaInv'
    BY <2>1, <2>4, <2>5, Zenon DEF RespuestaInv
  <2> QED  BY <2>1, <2>6 DEF HiloInv, AvisoInv, CamposInv, Nada
<1>22. CASE FinDeManejar
  BY <1>6, <1>22 DEF FinDeManejar, RespuestaInv, HiloInv, AvisoInv, CamposInv, entradas, cuerpo, archivo, respuesta
<1>23. CASE _finalizeResponse
  <2>1. paso = "finalizar" /\ Soltar /\ chunked' = FALSE /\ UNCHANGED <<postArgs, aviso>>
        /\ salida' = (IF chunked THEN Trozo(0, salida) ELSE salida)
    BY <1>23 DEF _finalizeResponse
  <2>2. aviso' \notin {"START", "WRITE"}
    BY <2>1 DEF AvisoInv
  <2>3. salida' = (IF salida = "trozos" THEN "terminada" ELSE salida)
    BY <2>1 DEF Trozo, RespuestaInv
  <2>4. RespuestaInv'
    BY <2>1, <2>3 DEF RespuestaInv
  <2> QED  BY <2>1, <2>2, <2>4 DEF Soltar, HiloInv, AvisoInv, CamposInv
<1>24. CASE UNCHANGED vars
  BY <1>24 DEF vars, RespuestaInv, HiloInv, AvisoInv, CamposInv, entradas, cuerpo, archivo, respuesta, Nada
<1> QED
  BY <1>1, <1>2, <1>7, <1>8, <1>9, <1>10, <1>11, <1>12, <1>13, <1>14, <1>14b, <1>14c, <1>15, <1>16, <1>17,
     <1>17a, <1>18, <1>19, <1>20, <1>21, <1>22, <1>23, <1>24 DEF Next, handleClient

-----------------------------------------------------------------------------
(* The file.  The delimiter may begin at p of what has been read, n bytes; *)
(* re are the bytes kept back.                                             *)
Casa(de, n, p) == \A q \in p..n : q - p < Len(Delimitador) => de[q] = Delimitador[q - p + 1]
Guardado(de, n, re) ==
  /\ Len(re) <= n /\ Len(re) < Len(Delimitador)
  /\ re = SubSeq(de, n - Len(re) + 1, n)
  /\ \A p \in 1..n : Casa(de, n, p) => n - p + 1 = Len(re)

\* The boundary has no CR: the delimiter has one, its first byte.
LEMMA DelimitadorTipo ==
  /\ Delimitador \in Seq(Simbolos) /\ Len(Delimitador) > 4 /\ Len(Delimitador) \in Nat
  /\ Delimitador[1] = "CR" /\ Delimitador[2] = "LF" /\ Delimitador[3] = "-" /\ Delimitador[4] = "-"
  /\ \A i \in 2..Len(Delimitador) : Delimitador[i] # "CR"
<1> DEFINE cuatro == <<"CR", "LF", "-", "-">>
<1>1. /\ cuatro \in Seq(Simbolos) /\ Len(cuatro) = 4
      /\ cuatro[1] = "CR" /\ cuatro[2] = "LF" /\ cuatro[3] = "-" /\ cuatro[4] = "-"
  BY DEF Simbolos, Bytes
<1>2. Frontera \in Seq(Simbolos) /\ Len(Frontera) > 0 /\ \A i \in 1..Len(Frontera) : Frontera[i] # "CR"
  <2>1. Frontera \in Seq(Bytes) /\ Len(Frontera) > 0 /\ "CR" \notin Range(Frontera)
    BY FronteraAssumption
  <2>2. DOMAIN Frontera = 1..Len(Frontera) /\ Bytes \subseteq Simbolos
    BY <2>1 DEF Simbolos
  <2>3. \A i \in 1..Len(Frontera) : Frontera[i] # "CR"
    BY <2>1, <2>2 DEF Range
  <2>4. Frontera \in Seq(Simbolos)
    BY <2>1, <2>2, SeqMonotonic
  <2> QED  BY <2>1, <2>3, <2>4
<1>3. Delimitador = cuatro \o Frontera
  BY DEF Delimitador
<1> HIDE DEF cuatro
<1>4. /\ cuatro \o Frontera \in Seq(Simbolos) /\ Len(cuatro \o Frontera) = 4 + Len(Frontera)
      /\ \A i \in 1..(4 + Len(Frontera)) :
           (cuatro \o Frontera)[i] = IF i <= 4 THEN cuatro[i] ELSE Frontera[i - 4]
  <2>1. /\ cuatro \o Frontera \in Seq(Simbolos) /\ Len(cuatro \o Frontera) = Len(cuatro) + Len(Frontera)
        /\ \A i \in 1..(Len(cuatro) + Len(Frontera)) :
             (cuatro \o Frontera)[i] = IF i <= Len(cuatro) THEN cuatro[i] ELSE Frontera[i - Len(cuatro)]
    BY <1>1, <1>2, ConcatProperties
  <2> QED  BY <1>1, <2>1
<1>5. Len(Frontera) \in Nat
  BY <1>2
<1>7. \A i \in 1..4 : Delimitador[i] = cuatro[i]
  BY <1>3, <1>4, <1>5
<1>8. Delimitador \in Seq(Simbolos) /\ Len(Delimitador) = 4 + Len(Frontera)
  BY <1>3, <1>4
<1>6. ASSUME NEW i \in 2..Len(Delimitador) PROVE Delimitador[i] # "CR"
  <2>1. CASE i > 4
    <3>1. i - 4 \in 1..Len(Frontera) /\ Delimitador[i] = Frontera[i - 4]
      BY <1>3, <1>4, <1>5, <2>1
    <3> QED  BY <1>2, <3>1
  <2>2. CASE i \in {2, 3, 4}
    BY <1>1, <1>3, <1>4, <1>5, <2>2
  <2> QED  BY <2>1, <2>2
<1> QED  BY <1>1, <1>2, <1>5, <1>6, <1>7, <1>8

\* A byte completes the delimiter, or what is kept back after it is again where the
\* delimiter may begin, and the rest of what was kept is written; unless the search
\* finds what is not there.
LEMMA SueltaGuarda ==
  ASSUME NEW de \in Seq(Simbolos), NEW n \in Nat, n < Len(de), NEW strstr,
         retenido \in Seq(Simbolos), Guardado(de, n, retenido),
         Append(retenido, de[n + 1]) = Delimitador => strstr # "NULL",
         Len(Suelta(de[n + 1], strstr).guarda) = Len(Delimitador) => Suelta(de[n + 1], strstr).guarda = Delimitador
  PROVE  LET s == Suelta(de[n + 1], strstr)
             visto == SubSeq(de, n - Len(retenido) + 1, n + 1)
         IN  \/ s.guarda = Delimitador /\ visto = Delimitador
             \/ /\ s.guarda # Delimitador /\ s.guarda \in Seq(Simbolos)
                /\ Guardado(de, n + 1, s.guarda) /\ Len(s.guarda) <= Len(retenido) + 1
                /\ s.escribe = SubSeq(de, n - Len(retenido) + 1, n + 1 - Len(s.guarda))
<1>1. PICK b \in Simbolos : b = de[n + 1]
  OBVIOUS
<1>2. PICK r \in Nat : r = Len(retenido) /\ r <= n /\ r < Len(Delimitador)
  BY DEF Guardado
<1>3. retenido = SubSeq(de, n - r + 1, n) /\ \A p \in 1..n : Casa(de, n, p) => n - p + 1 = r
  BY <1>2 DEF Guardado
<1>4. PICK d \in Nat : d = Len(Delimitador) /\ d > 4 /\ r < d
  BY <1>2, DelimitadorTipo
<1>5. PICK visto \in Seq(Simbolos) : visto = SubSeq(de, n - r + 1, n + 1)
  <2>1. \A i \in n - r + 1..n + 1 : de[i] \in Simbolos
    BY <1>2
  <2>2. n - r + 1 \in Int /\ n + 1 \in Int
    BY <1>2
  <2>3. SubSeq(de, n - r + 1, n + 1) \in Seq(Simbolos)
    BY <2>1, <2>2, SubSeqProperties
  <2> QED  BY <2>3
<1>6. Append(retenido, b) = visto /\ Len(visto) = r + 1
  <2>1. \A i \in n - r + 1..n + 1 : de[i] \in Simbolos
    BY <1>2
  <2>2. Len(visto) = r + 1 /\ \A i \in 1..r + 1 : visto[i] = de[n - r + i]
    BY <1>2, <1>5, <2>1, SubSeqProperties
  <2>3. Len(retenido) = r /\ \A i \in 1..r : retenido[i] = de[n - r + i]
    <3>1. n - (n - r + 1) + 1 = r /\ \A i \in 1..r : n - r + 1 + i - 1 = n - r + i
      BY <1>2
    <3>2. \A i \in 1..n - (n - r + 1) + 1 : SubSeq(de, n - r + 1, n)[i] = de[n - r + 1 + i - 1]
      BY <1>2, <2>1, SubSeqProperties
    <3> QED  BY <1>2, <1>3, <3>1, <3>2
  <2>4. Append(retenido, b) \in Seq(Simbolos) /\ Len(Append(retenido, b)) = r + 1
        /\ \A i \in 1..r + 1 : Append(retenido, b)[i] = IF i = r + 1 THEN b ELSE retenido[i]
    BY <1>2, AppendProperties
  <2>5. \A i \in 1..r + 1 : Append(retenido, b)[i] = visto[i]
    BY <1>1, <1>2, <2>2, <2>3, <2>4
  <2> QED  BY <2>2, <2>4, <2>5, SeqEqual
\* A place in the file at which the delimiter may begin, and may still after b.
<1>7. ASSUME NEW p \in 1..n + 1, Casa(de, n + 1, p)
      PROVE  \/ p = n + 1 /\ b = "CR"
             \/ p = n - r + 1 /\ r > 0 /\ b = Delimitador[r + 1]
  <2>1. CASE p = n + 1
    <3>1. n + 1 \in p..n + 1 /\ (n + 1) - p < d
      BY <1>4, <2>1
    <3>2. de[n + 1] = Delimitador[(n + 1) - p + 1]
      BY <1>4, <1>7, <3>1 DEF Casa
    <3> QED  BY <1>1, <2>1, <3>2, DelimitadorTipo
  <2>2. CASE p # n + 1
    <3>1. p \in 1..n
      BY <2>2
    <3>2. Casa(de, n, p)
      BY <1>7, <3>1 DEF Casa
    <3>3. n - p + 1 = r
      BY <1>3, <3>1, <3>2
    <3>4. n + 1 \in p..n + 1 /\ (n + 1) - p < d /\ (n + 1) - p + 1 = r + 1
      BY <1>4, <3>1, <3>3
    <3>6. de[n + 1] = Delimitador[(n + 1) - p + 1]
      BY <1>4, <1>7, <3>4 DEF Casa
    <3>5. de[n + 1] = Delimitador[r + 1]
      BY <3>4, <3>6
    <3> QED  BY <1>1, <3>1, <3>3, <3>5
  <2> QED  BY <2>1, <2>2
<1> DEFINE sigue == IF r + 1 <= 4 THEN b = Delimitador[r + 1] ELSE b # "CR"
           s == Suelta(b, strstr)
<1>8. s = IF ~sigue
          THEN IF b = "CR" THEN [escribe |-> retenido, guarda |-> <<b>>]
               ELSE [escribe |-> visto, guarda |-> <<>>]
          ELSE IF r + 1 = d /\ strstr = "NULL" THEN [escribe |-> visto, guarda |-> <<>>]
               ELSE [escribe |-> <<>>, guarda |-> visto]
  BY <1>4, <1>6, Zenon DEF Suelta
<1>9. Len(<<>>) = 0 /\ <<>> \in Seq(Simbolos) /\ SubSeq(de, n + 2, n + 1) = <<>>
      /\ (r = 0 => b = "CR" \/ ~sigue)
  BY SubSeqEmpty, DelimitadorTipo
\* What is kept back is none of the file, one byte, or one more.
<1>10. ASSUME s.guarda = <<>>, s.escribe = visto, \A p \in 1..n + 1 : ~Casa(de, n + 1, p)
       PROVE  /\ s.guarda # Delimitador /\ s.guarda \in Seq(Simbolos) /\ Guardado(de, n + 1, s.guarda)
              /\ Len(s.guarda) <= r + 1
              /\ s.escribe = SubSeq(de, n - r + 1, n + 1 - Len(s.guarda))
  <2>1. Len(s.guarda) = 0 /\ s.guarda \in Seq(Simbolos)
    BY <1>9, <1>10
  <2>2. s.guarda # Delimitador /\ Len(s.guarda) <= r + 1
    BY <1>2, <1>4, <2>1
  <2>3. Guardado(de, n + 1, s.guarda)
    BY <1>4, <1>9, <1>10, <2>1 DEF Guardado
  <2>4. s.escribe = SubSeq(de, n - r + 1, n + 1 - Len(s.guarda))
    BY <1>5, <1>10, <2>1
  <2> QED  BY <2>1, <2>2, <2>3, <2>4
<1>11. CASE ~sigue /\ b = "CR"
  <2>1. s.guarda = <<b>> /\ s.escribe = retenido
    BY <1>8, <1>11
  <2>2. <<b>> \in Seq(Simbolos) /\ Len(<<b>>) = 1 /\ <<b>> = SubSeq(de, n + 1, n + 1)
    BY <1>1
  <2>3. r > 0 /\ b # Delimitador[r + 1]
    BY <1>2, <1>4, <1>11, DelimitadorTipo
  <2>4. \A p \in 1..n + 1 : Casa(de, n + 1, p) => n + 1 - p + 1 = 1
    BY <1>7, <2>3
  <2>5. Guardado(de, n + 1, <<b>>)
    BY <1>4, <2>2, <2>4 DEF Guardado
  <2>8. Len(<<b>>) = 1
    OBVIOUS
  <2>6. Len(<<b>>) # Len(Delimitador)
    BY <2>8, DelimitadorTipo
  <2>7. n + 1 - Len(<<b>>) = n
    BY <2>2
  <2>9. 1 <= r + 1
    BY <1>2
  <2> QED  BY <1>1, <1>2, <1>3, <2>1, <2>2, <2>5, <2>6, <2>7, <2>8, <2>9
<1>12. CASE ~sigue /\ b # "CR"
  <2>1. s.guarda = <<>> /\ s.escribe = visto
    BY <1>8, <1>12
  <2>2. b # Delimitador[r + 1]
    BY <1>12
  <2>3. \A p \in 1..n + 1 : ~Casa(de, n + 1, p)
    BY <1>7, <1>12, <2>2
  <2> QED  BY <1>1, <1>2, <1>5, <1>10, <2>1, <2>3
<1>13. CASE sigue /\ r + 1 = d /\ strstr = "NULL"
  <2>0. visto # Delimitador
    BY <1>1, <1>6, <1>13
  <2>1. s.guarda = <<>> /\ s.escribe = visto
    BY <1>8, <1>13
  <2>2. b # "CR"
    BY <1>4, <1>13
  <2>3. ASSUME NEW p \in 1..n + 1, Casa(de, n + 1, p) PROVE FALSE
    <3>1. p = n - r + 1
      BY <1>7, <2>2, <2>3
    <3>2. \A i \in 1..d : visto[i] = Delimitador[i]
      <4> SUFFICES ASSUME NEW i \in 1..d PROVE visto[i] = Delimitador[i]
        OBVIOUS
      <4>1. n - r + i \in p..n + 1 /\ (n - r + i) - p < d /\ (n - r + i) - p + 1 = i
        BY <1>2, <1>13, <3>1
      <4>2. de[n - r + i] = Delimitador[i]
        BY <1>4, <2>3, <4>1 DEF Casa
      <4>3. \A j \in n - r + 1..n + 1 : de[j] \in Simbolos
        BY <1>2
      <4>4. visto[i] = de[n - r + i]
        BY <1>2, <1>5, <1>13, <4>3, SubSeqProperties
      <4> QED  BY <4>2, <4>4
    <3>3. Len(visto) = Len(Delimitador)
      BY <1>4, <1>6, <1>13
    <3>4. \A i \in 1..Len(visto) : visto[i] = Delimitador[i]
      BY <1>4, <3>2, <3>3
    <3>5. Delimitador \in Seq(Simbolos)
      BY DelimitadorTipo
    <3>6. visto = Delimitador
      BY <3>3, <3>4, <3>5, SeqEqual
    <3> QED  BY <2>0, <3>6
  <2> QED  BY <1>1, <1>2, <1>5, <1>10, <2>1, <2>3
<1>14. CASE sigue /\ r + 1 = d /\ strstr # "NULL"
  <2>1. s.guarda = visto
    BY <1>8, <1>14
  <2>2. visto = Delimitador
    BY <1>1, <1>4, <1>6, <1>14, <2>1
  <2> QED  BY <1>1, <1>2, <1>5, <2>1, <2>2
<1>15. CASE sigue /\ r + 1 # d
  <2>1. s.guarda = visto /\ s.escribe = <<>>
    BY <1>8, <1>15
  <2>2. b = "CR" => r = 0
    BY <1>2, <1>4, <1>15, DelimitadorTipo
  <2>3. \A p \in 1..n + 1 : Casa(de, n + 1, p) => n + 1 - p + 1 = r + 1
    BY <1>2, <1>7, <2>2
  <2>4. Guardado(de, n + 1, visto)
    <3>1. n + 1 - Len(visto) + 1 = n - r + 1 /\ Len(visto) <= n + 1 /\ Len(visto) < d
      BY <1>2, <1>4, <1>6, <1>15
    <3> QED  BY <1>4, <1>5, <1>6, <2>3, <3>1 DEF Guardado
  <2>5. SubSeq(de, n - r + 1, n - r) = <<>> /\ n + 1 - (r + 1) = n - r
    BY <1>2, SubSeqEmpty
  <2>6. s.guarda # Delimitador /\ Len(s.guarda) = r + 1 /\ r + 1 <= r + 1
    BY <1>2, <1>4, <1>6, <1>15, <2>1
  <2>7. s.escribe = SubSeq(de, n - r + 1, n + 1 - Len(s.guarda))
    BY <2>1, <2>5, <2>6
  <2> QED  BY <1>1, <1>2, <1>5, <2>1, <2>4, <2>6, <2>7
<1> QED  BY <1>11, <1>12, <1>13, <1>14, <1>15

\* Where the delimiter ends, the file ended before it: there is none further on the left.
LEMMA FinDeFichero ==
  ASSUME desde \in Seq(Simbolos), retenido \in Seq(Simbolos), NEW n \in Nat, n < Len(desde),
         Guardado(desde, n, retenido), SubSeq(desde, n - Len(retenido) + 1, n + 1) = Delimitador
  PROVE  Archivo = SubSeq(desde, 1, n - Len(retenido))
<1>a. Len(retenido) \in Nat /\ Len(desde) \in Nat
  OBVIOUS
<1>b. Len(retenido) <= n /\ \A p \in 1..n : Casa(desde, n, p) => n - p + 1 = Len(retenido)
  BY DEF Guardado
<1>1. PICK r \in Nat : r = Len(retenido) /\ r <= n
  BY <1>a, <1>b
<1>2. PICK d \in Nat : d = Len(Delimitador) /\ d > 4
  BY DelimitadorTipo
<1>c. PICK l \in Nat : l = Len(desde) /\ n < l
  BY <1>a
<1>3. r + 1 = d
  <2>1. \A i \in n - r + 1..n + 1 : desde[i] \in Simbolos
    BY <1>1
  <2>2. n - r + 1 \in Int /\ n + 1 \in Int /\ n - r + 1 <= n + 1 /\ (n + 1) - (n - r + 1) + 1 = r + 1
    BY <1>1
  <2>3. Len(SubSeq(desde, n - r + 1, n + 1)) = r + 1
    BY <2>1, <2>2, SubSeqProperties
  <2> QED  BY <1>1, <1>2, <2>3
<1>4. PICK k0 \in 0..(Len(desde) - d) : k0 = n - r
  <2>1. n - r \in 0..(l - d)
    BY <1>1, <1>2, <1>3, <1>c
  <2> QED  BY <1>c, <2>1
<1>5. SubSeq(desde, k0 + 1, k0 + d) = Delimitador
  <2>0. k0 = n - r /\ d = r + 1
    BY <1>3, <1>4
  <2>1. k0 + 1 = n - r + 1 /\ k0 + d = n + 1
    BY <1>1, <2>0
  <2> QED  BY <1>1, <2>1
<1>6. ASSUME NEW j \in 0..(k0 - 1), SubSeq(desde, j + 1, j + d) = Delimitador PROVE FALSE
  <2>0. j \in Nat /\ k0 \in Nat /\ j < k0 /\ k0 = n - r
    BY <1>c, <1>4
  <2>1. j + d <= n /\ j + 1 \in 1..n
    BY <1>1, <1>2, <1>3, <2>0
  <2>2. \A i \in 1..d : Delimitador[i] = desde[j + i]
    <3>1. \A i \in j + 1..j + d : desde[i] \in Simbolos
      <4>1. j + 1..j + d \subseteq 1..l
        BY <1>c, <1>2, <2>0, <2>1
      <4> QED  BY <1>c, <4>1
    <3>2. (j + d) - (j + 1) + 1 = d /\ \A i \in 1..d : (j + 1) + i - 1 = j + i
      BY <1>2
    <3>3. \A i \in 1..(j + d) - (j + 1) + 1 : SubSeq(desde, j + 1, j + d)[i] = desde[(j + 1) + i - 1]
      BY <3>1, SubSeqProperties
    <3> QED  BY <1>6, <3>2, <3>3
  <2>3. Casa(desde, n, j + 1)
    <3> SUFFICES ASSUME NEW q \in j + 1..n, q - (j + 1) < d PROVE desde[q] = Delimitador[q - (j + 1) + 1]
      BY <1>2 DEF Casa
    <3>1. q - (j + 1) + 1 \in 1..d /\ j + (q - (j + 1) + 1) = q
      BY <1>2
    <3> QED  BY <2>2, <3>1
  <2>4. n - (j + 1) + 1 = r
    BY <1>b, <1>1, <2>1, <2>3
  <2> QED  BY <1>1, <2>0, <2>4
<1> DEFINE P(k) == /\ SubSeq(desde, k + 1, k + d) = Delimitador
                   /\ \A j \in 0..(k - 1) : SubSeq(desde, j + 1, j + d) # Delimitador
<1>7. P(k0)
  BY <1>5, <1>6
<1>8. ASSUME NEW k \in 0..(Len(desde) - d), P(k) PROVE k = k0
  <2>1. ~(k \in 0..(k0 - 1))
    BY <1>6, <1>8
  <2>2. ~(k0 \in 0..(k - 1))
    BY <1>5, <1>8
  <2> QED  BY <2>1, <2>2
<1>9. Archivo = SubSeq(desde, 1, CHOOSE k \in 0..(Len(desde) - d) : P(k))
  BY <1>2 DEF Archivo
<1> HIDE DEF P
<1>10. (CHOOSE k \in 0..(Len(desde) - d) : P(k)) = k0
  BY <1>7, <1>8
<1> QED  BY <1>1, <1>4, <1>9, <1>10

\* The buffer of an upload hands over what does not fit, in order.
LEMMA EscribirBien ==
  ASSUME subida.buf \in Seq(Simbolos), subida.total \in Int, NEW bytes \in Seq(Simbolos)
  PROVE  LET u == Escribir(bytes)
         IN  /\ u.buf \in Seq(Simbolos) /\ u.dado \in Seq(Simbolos) /\ u.total \in Int
             /\ Len(u.buf) <= BufLen /\ u.dado \o u.buf = subida.buf \o bytes
             /\ u.total = subida.total + Len(u.dado)
<1>1. PICK todo \in Seq(Simbolos) : todo = subida.buf \o bytes
  BY ConcatProperties
<1>2. PICK l \in Nat : l = Len(todo)
  BY <1>1
<1>3. BufLen \in Nat /\ BufLen > 0
  BY LimitesAssumption
<1>4. PICK q \in 0..l : q = (IF l <= BufLen THEN l ELSE 1 + ((l - 1) % BufLen)) /\ q <= BufLen
  <2>1. (l - 1) % BufLen \in 0..(BufLen - 1)
    BY <1>3
  <2> QED  BY <1>2, <1>3, <2>1
<1>5. PICK a \in 0..l : a = l - q
  OBVIOUS
<1>5a. a \in Nat /\ a <= l /\ l - a = q /\ a + 1 \in Int /\ l \in Int
  BY <1>2, <1>4, <1>5
<1>5b. (\A i \in a + 1..l : todo[i] \in Simbolos) /\ (\A i \in 1..a : todo[i] \in Simbolos)
  <2>1. a + 1..l \subseteq 1..l /\ 1..a \subseteq 1..l
    BY <1>5a
  <2> QED  BY <1>2, <2>1
<1>6. PICK b \in Seq(Simbolos) : b = SubSeq(todo, a + 1, l) /\ Len(b) = q
  <2>1. SubSeq(todo, a + 1, l) \in Seq(Simbolos)
    BY <1>5a, <1>5b, SubSeqProperties
  <2>2. Len(SubSeq(todo, a + 1, l)) = IF a + 1 <= l THEN l - (a + 1) + 1 ELSE 0
    BY <1>5a, <1>5b, SubSeqProperties
  <2>3. (IF a + 1 <= l THEN l - (a + 1) + 1 ELSE 0) = q
    BY <1>5a
  <2> QED  BY <2>1, <2>2, <2>3
<1>7. PICK x \in Seq(Simbolos) : x = SubSeq(todo, 1, a) /\ Len(x) = a
  <2>1. SubSeq(todo, 1, a) \in Seq(Simbolos)
    BY <1>5a, <1>5b, SubSeqProperties
  <2>2. Len(SubSeq(todo, 1, a)) = IF 1 <= a THEN a - 1 + 1 ELSE 0
    BY <1>5a, <1>5b, SubSeqProperties
  <2>3. (IF 1 <= a THEN a - 1 + 1 ELSE 0) = a
    BY <1>5a
  <2> QED  BY <2>1, <2>2, <2>3
<1>9. x \o b = todo
  <2>0. 1 \in 1..Len(todo) + 1 /\ a \in 1 - 1..Len(todo) /\ l \in a..Len(todo)
    BY <1>2, <1>5a
  <2>1. SubSeq(todo, 1, a) \o SubSeq(todo, a + 1, l) = SubSeq(todo, 1, l)
    BY <2>0, ConcatAdjacentSubSeq
  <2>2. SubSeq(todo, 1, l) = todo
    BY <1>2, SubSeqFull
  <2> QED  BY <1>6, <1>7, <2>1, <2>2
<1> DEFINE queda == IF Len(todo) <= BufLen THEN Len(todo) ELSE 1 + ((Len(todo) - 1) % BufLen)
<1>8. Escribir(bytes) = [buf |-> b, total |-> subida.total + a, dado |-> x]
  <2>1. Escribir(bytes) =
          [buf |-> SubSeq(todo, (Len(todo) - queda) + 1, Len(todo)),
           total |-> subida.total + (Len(todo) - queda),
           dado |-> SubSeq(todo, 1, Len(todo) - queda)]
    BY <1>1, Zenon DEF Escribir
  <2>2. Len(todo) - queda = a
    BY <1>2, <1>4, <1>5
  <2> QED  BY <1>2, <1>6, <1>7, <2>1, <2>2, Zenon
<1> HIDE DEF queda
<1>10. PICK u : u = Escribir(bytes)
  OBVIOUS
<1>11. u.buf = b /\ u.total = subida.total + a /\ u.dado = x
  BY <1>8, <1>10
<1>12. u.total \in Int /\ Len(u.buf) <= BufLen /\ u.total = subida.total + Len(u.dado)
  BY <1>4, <1>5a, <1>6, <1>7, <1>11
<1> QED  BY <1>1, <1>6, <1>7, <1>9, <1>10, <1>11, <1>12

\* What the sketch has of the file and what is still to come.
Dudas == {"ninguna", "cabecera", "strstr"}
SinDuda == duda = "ninguna"
TiposInv ==
  /\ entrada \in Seq(Simbolos) /\ desde \in Seq(Simbolos)
  /\ entregado \in Seq(Simbolos) /\ retenido \in Seq(Simbolos)
  /\ subida \in [buf : Seq(Simbolos), total : Int] /\ Len(subida.buf) <= BufLen
  /\ paso # "subir" => retenido = <<>>
  /\ duda \in Dudas
Leido(n) ==
  /\ entrada = SubSeq(desde, n + 1, Len(desde)) /\ Guardado(desde, n, retenido)
  /\ pet.manejador = "fnSubida" =>
       entregado \o subida.buf = SubSeq(desde, 1, n - Len(retenido)) /\ subida.total = Len(entregado)
\* The header of the file is read in its order: what comes after it is the file.
CabeceraInv ==
  /\ paso = "tipoArchivo" /\ red = "viva" => desde = TrasCabecera(entrada)
  /\ paso = "blancoArchivo" /\ red = "viva" /\ entrada # <<>> => desde = Tail(entrada)
FicheroInv ==
  /\ CabeceraInv
  /\ paso = "subir" /\ red = "viva" /\ duda = "ninguna" => \E n \in 0..Len(desde) : Leido(n)
  /\ paso = "trasArchivo" /\ pet.manejador = "fnSubida" /\ duda = "ninguna" =>
       entregado = Archivo /\ subida.total = Len(Archivo)

\* Concatenation, under a name: the same bytes in the same order.
Mas(a, b) == a \o b
\* It is associative.
LEMMA MasAsociativa ==
  ASSUME NEW a \in Seq(Simbolos), NEW b \in Seq(Simbolos), NEW c \in Seq(Simbolos)
  PROVE  Mas(Mas(a, b), c) = Mas(a, Mas(b, c))
  BY ConcatAssociative DEF Mas
\* A prefix in front of two equal concatenations.
LEMMA MismaSuma ==
  ASSUME NEW a \in Seq(Simbolos), NEW b \in Seq(Simbolos), NEW c \in Seq(Simbolos),
         NEW x \in Seq(Simbolos), NEW y \in Seq(Simbolos), Mas(x, y) = Mas(b, c)
  PROVE  Mas(Mas(a, x), y) = Mas(Mas(a, b), c)
  BY MasAsociativa

\* What is kept back and what is written are bytes that were read.
LEMMA SueltaTipo ==
  ASSUME retenido \in Seq(Simbolos), NEW b \in Simbolos, NEW strstr
  PROVE  Suelta(b, strstr).guarda \in Seq(Simbolos) /\ Suelta(b, strstr).escribe \in Seq(Simbolos)
<1>1. PICK v \in Seq(Simbolos) : v = Append(retenido, b)
  BY AppendProperties
<1>2. <<>> \in Seq(Simbolos) /\ <<b>> \in Seq(Simbolos)
  OBVIOUS
<1>3. \/ Suelta(b, strstr) = [escribe |-> retenido, guarda |-> <<b>>]
      \/ Suelta(b, strstr) = [escribe |-> v, guarda |-> <<>>]
      \/ Suelta(b, strstr) = [escribe |-> <<>>, guarda |-> v]
  BY <1>1, Zenon DEF Suelta
<1>4. CASE Suelta(b, strstr) = [escribe |-> retenido, guarda |-> <<b>>]
  BY <1>2, <1>4
<1>5. CASE Suelta(b, strstr) = [escribe |-> v, guarda |-> <<>>]
  BY <1>2, <1>5
<1>6. CASE Suelta(b, strstr) = [escribe |-> <<>>, guarda |-> v]
  BY <1>2, <1>6
<1> QED  BY <1>3, <1>4, <1>5, <1>6

\* A byte is read, of the file or of what is taken for it.
LEMMA SubirTipos ==
  ASSUME TiposInv, NEW strstr, Subir(strstr)
  PROVE  TiposInv'
<1>1. /\ entrada \in Seq(Simbolos) /\ desde \in Seq(Simbolos) /\ entregado \in Seq(Simbolos)
      /\ retenido \in Seq(Simbolos) /\ subida.buf \in Seq(Simbolos) /\ subida.total \in Int
      /\ subida = [buf |-> subida.buf, total |-> subida.total] /\ Len(subida.buf) <= BufLen
      /\ duda \in Dudas
  BY DEF TiposInv
<1>2. entrada # <<>>
  BY DEF Subir, HayByte
<1>3. Tail(entrada) \in Seq(Simbolos) /\ Head(entrada) \in Simbolos
  BY <1>1, <1>2, HeadTailProperties
<1> DEFINE s == Suelta(Head(entrada), strstr)
           u == Escribir(s.escribe)
<1>4. /\ desde' = desde /\ entrada' = Tail(entrada)
      /\ IF Len(s.guarda) = Len(Delimitador)
         THEN /\ entregado' = Entregar(subida.buf) /\ subida' = [subida EXCEPT !.total = @ + Len(subida.buf)]
              /\ retenido' = <<>> /\ duda' = IF s.guarda = Delimitador THEN duda ELSE "strstr"
         ELSE /\ entregado' = Entregar(u.dado) /\ subida' = [buf |-> u.buf, total |-> u.total]
              /\ retenido' = s.guarda /\ duda' = duda /\ paso' = paso
  BY DEF Subir
<1>5. PICK g \in Seq(Simbolos), e \in Seq(Simbolos) : g = s.guarda /\ e = s.escribe
  BY <1>1, <1>3, SueltaTipo
<1>6. PICK v : v = u
  OBVIOUS
<1>6a. v = Escribir(e)
  BY <1>5, <1>6, Zenon
<1> HIDE DEF s, u
<1>7. v.buf \in Seq(Simbolos) /\ v.dado \in Seq(Simbolos) /\ v.total \in Int /\ Len(v.buf) <= BufLen
  BY <1>1, <1>6a, EscribirBien
<1>8. ASSUME NEW x \in Seq(Simbolos) PROVE Entregar(x) \in Seq(Simbolos)
  <2>1. entregado \o x \in Seq(Simbolos)
    BY <1>1, ConcatProperties
  <2> QED  BY <1>1, <2>1 DEF Entregar
<1>9. CASE Len(s.guarda) = Len(Delimitador)
  <2>1. subida' = [buf |-> subida.buf, total |-> subida.total + Len(subida.buf)] /\ Len(subida.buf) \in Nat
    BY <1>1, <1>4, <1>9
  <2>2. subida' \in [buf : Seq(Simbolos), total : Int] /\ subida'.buf = subida.buf
    BY <1>1, <2>1
  <2>3. entregado' \in Seq(Simbolos) /\ retenido' = <<>> /\ retenido' \in Seq(Simbolos) /\ duda' \in Dudas
    BY <1>1, <1>4, <1>8, <1>9 DEF Dudas
  <2> QED  BY <1>1, <1>3, <1>4, <2>2, <2>3 DEF TiposInv
<1>10. CASE Len(s.guarda) # Len(Delimitador)
  <2>1. subida' = [buf |-> v.buf, total |-> v.total] /\ retenido' = g /\ duda' = duda /\ paso' = "subir"
    BY <1>4, <1>5, <1>6, <1>10 DEF Subir
  <2>2. subida' \in [buf : Seq(Simbolos), total : Int] /\ subida'.buf = v.buf
    BY <1>7, <2>1
  <2>3. entregado' \in Seq(Simbolos)
    BY <1>4, <1>6, <1>7, <1>8, <1>10
  <2> QED  BY <1>1, <1>3, <1>4, <1>7, <2>1, <2>2, <2>3 DEF TiposInv
<1> QED  BY <1>9, <1>10

\* A byte of the file is read, and its end is found where it is.
LEMMA SubirStep ==
  ASSUME TiposInv, FicheroInv, NEW strstr, Subir(strstr), SinDuda'
  PROVE  FicheroInv'
<1>0. duda = "ninguna"
  BY DEF Subir, SinDuda
<1>1. /\ entrada \in Seq(Simbolos) /\ desde \in Seq(Simbolos) /\ entregado \in Seq(Simbolos)
      /\ retenido \in Seq(Simbolos) /\ subida.buf \in Seq(Simbolos) /\ subida.total \in Int
      /\ subida = [buf |-> subida.buf, total |-> subida.total] /\ Len(subida.buf) <= BufLen
  BY DEF TiposInv
<1>2. PICK l \in Nat : l = Len(desde)
  BY <1>1
<1>3. PICK n \in 0..l : Leido(n)
  BY <1>0, <1>2 DEF Subir, HayByte, FicheroInv
<1>4. n < l /\ Head(entrada) = desde[n + 1] /\ Tail(entrada) = SubSeq(desde, n + 2, l)
      /\ Tail(entrada) \in Seq(Simbolos)
  <2>1. entrada = SubSeq(desde, n + 1, l) /\ entrada # <<>>
    BY <1>2, <1>3 DEF Leido, Subir, HayByte
  <2>2. n < l
    <3>1. CASE n >= l
      BY <1>3, <2>1, <3>1, SubSeqEmpty
    <3> QED  BY <1>2, <3>1
  <2>3. \A i \in n + 1..l : desde[i] \in Simbolos
    BY <1>1, <1>2
  <2>4. Len(entrada) = l - n /\ \A i \in 1..l - n : entrada[i] = desde[n + i]
    <3>1. n + 1 \in Int /\ l \in Int /\ n + 1 <= l /\ l - (n + 1) + 1 = l - n
      BY <1>2, <2>2
    <3>2. Len(SubSeq(desde, n + 1, l)) = l - (n + 1) + 1
          /\ \A i \in 1..l - (n + 1) + 1 : SubSeq(desde, n + 1, l)[i] = desde[(n + 1) + i - 1]
      BY <2>3, <3>1, SubSeqProperties
    <3>3. \A i \in 1..l - n : (n + 1) + i - 1 = n + i
      BY <1>2
    <3> QED  BY <2>1, <3>1, <3>2, <3>3
  <2>5. Tail(entrada) \in Seq(Simbolos) /\ Len(Tail(entrada)) = l - n - 1
        /\ \A i \in 1..l - n - 1 : Tail(entrada)[i] = entrada[i + 1]
    <3>1. Tail(entrada) \in Seq(Simbolos)
      BY <1>1, <2>1, HeadTailProperties
    <3>2. Len(Tail(entrada)) = Len(entrada) - 1 /\ \A i \in 1..Len(entrada) - 1 : Tail(entrada)[i] = entrada[i + 1]
      BY <1>1, <2>1, HeadTailProperties
    <3> QED  BY <2>4, <3>1, <3>2
  <2>6. \A i \in n + 2..l : desde[i] \in Simbolos
    BY <1>1, <1>2
  <2>7. SubSeq(desde, n + 2, l) \in Seq(Simbolos) /\ Len(SubSeq(desde, n + 2, l)) = l - n - 1
        /\ \A i \in 1..l - n - 1 : SubSeq(desde, n + 2, l)[i] = desde[n + 1 + i]
    <3>1. n + 2 \in Int /\ l \in Int /\ l - (n + 2) + 1 = l - n - 1
          /\ (IF n + 2 <= l THEN l - (n + 2) + 1 ELSE 0) = l - n - 1
      BY <1>2, <2>2
    <3>2. /\ SubSeq(desde, n + 2, l) \in Seq(Simbolos)
          /\ Len(SubSeq(desde, n + 2, l)) = IF n + 2 <= l THEN l - (n + 2) + 1 ELSE 0
          /\ \A i \in 1..l - (n + 2) + 1 : SubSeq(desde, n + 2, l)[i] = desde[(n + 2) + i - 1]
      BY <2>6, <3>1, SubSeqProperties
    <3>3. \A i \in 1..l - n - 1 : (n + 2) + i - 1 = n + 1 + i
      BY <1>2
    <3> QED  BY <3>1, <3>2, <3>3
  <2>8. \A i \in 1..l - n - 1 : Tail(entrada)[i] = SubSeq(desde, n + 2, l)[i]
    <3> SUFFICES ASSUME NEW i \in 1..l - n - 1 PROVE Tail(entrada)[i] = SubSeq(desde, n + 2, l)[i]
      OBVIOUS
    <3>1. i + 1 \in 1..l - n /\ n + (i + 1) = n + 1 + i
      BY <1>2
    <3>2. entrada[i + 1] = desde[n + 1 + i]
      BY <2>4, <3>1
    <3> QED  BY <2>5, <2>7, <3>2
  <2>9. Tail(entrada) = SubSeq(desde, n + 2, l)
    BY <2>5, <2>7, <2>8, SeqEqual
  <2>10. Head(entrada) = desde[n + 1]
    BY <1>2, <2>1, <2>2, <2>4
  <2> QED  BY <2>2, <2>5, <2>9, <2>10
<1>5. Guardado(desde, n, retenido)
  BY <1>3 DEF Leido
<1>6. pet.manejador = "fnSubida" =>
        entregado \o subida.buf = SubSeq(desde, 1, n - Len(retenido)) /\ subida.total = Len(entregado)
  BY <1>3 DEF Leido
<1> DEFINE s == Suelta(desde[n + 1], strstr)
           u == Escribir(s.escribe)
<1>7. /\ UNCHANGED <<red, pet, desde>> /\ entrada' = Tail(entrada)
      /\ IF Len(s.guarda) = Len(Delimitador)
         THEN /\ entregado' = Entregar(subida.buf) /\ subida' = [subida EXCEPT !.total = @ + Len(subida.buf)]
              /\ retenido' = <<>> /\ paso' = "trasArchivo"
         ELSE /\ entregado' = Entregar(u.dado) /\ subida' = [buf |-> u.buf, total |-> u.total]
              /\ retenido' = s.guarda /\ paso' = "subir"
  BY <1>4 DEF Subir
<1>7a. /\ Append(retenido, desde[n + 1]) = Delimitador => strstr # "NULL"
       /\ Len(s.guarda) = Len(Delimitador) => s.guarda = Delimitador
  BY <1>4 DEF Subir, SinDuda
<1>8. \/ s.guarda = Delimitador /\ SubSeq(desde, n - Len(retenido) + 1, n + 1) = Delimitador
      \/ /\ s.guarda # Delimitador /\ s.guarda \in Seq(Simbolos)
         /\ Guardado(desde, n + 1, s.guarda) /\ Len(s.guarda) <= Len(retenido) + 1
         /\ s.escribe = SubSeq(desde, n - Len(retenido) + 1, n + 1 - Len(s.guarda))
  <2>1. n \in Nat /\ n < Len(desde) /\ desde \in Seq(Simbolos) /\ retenido \in Seq(Simbolos)
    BY <1>1, <1>2, <1>3, <1>4
  <2>2. LET v == Suelta(desde[n + 1], strstr)
            visto == SubSeq(desde, n - Len(retenido) + 1, n + 1)
        IN  \/ v.guarda = Delimitador /\ visto = Delimitador
            \/ /\ v.guarda # Delimitador /\ v.guarda \in Seq(Simbolos)
               /\ Guardado(desde, n + 1, v.guarda) /\ Len(v.guarda) <= Len(retenido) + 1
               /\ v.escribe = SubSeq(desde, n - Len(retenido) + 1, n + 1 - Len(v.guarda))
    BY <1>5, <1>7a, <2>1, SueltaGuarda
  <2> QED  BY <2>2
<1> HIDE DEF s
<1>9. CASE s.guarda = Delimitador
  <2>1. SubSeq(desde, n - Len(retenido) + 1, n + 1) = Delimitador
    BY <1>8, <1>9
  <2>2. Archivo = SubSeq(desde, 1, n - Len(retenido))
    <3>1. n \in Nat /\ n < Len(desde)
      BY <1>2, <1>3, <1>4
    <3> QED  BY <1>1, <1>5, <2>1, <3>1, FinDeFichero
  <2>3. Archivo' = Archivo
    BY <1>7 DEF Archivo
  <2>4. subida' = [buf |-> subida.buf, total |-> subida.total + Len(subida.buf)] /\ Len(subida.buf) \in Nat
    BY <1>1, <1>7, <1>9
  <2>5. entregado' = (IF pet.manejador = "fnSubida" THEN entregado \o subida.buf ELSE entregado)
    BY <1>7, <1>9 DEF Entregar
  <2>6. entregado \o subida.buf \in Seq(Simbolos)
        /\ Len(entregado \o subida.buf) = Len(entregado) + Len(subida.buf)
    BY <1>1, ConcatProperties
  <2>8. subida' \in [buf : Seq(Simbolos), total : Int] /\ subida'.buf = subida.buf
        /\ subida'.total = subida.total + Len(subida.buf)
    BY <1>1, <2>4
  <2>9. retenido' = <<>> /\ retenido' \in Seq(Simbolos) /\ paso' = "trasArchivo"
    BY <1>7, <1>9
  <2>11. pet'.manejador = "fnSubida" => entregado' = Archivo' /\ subida'.total = Len(Archivo')
    BY <1>6, <1>7, <2>2, <2>3, <2>5, <2>6, <2>8
  <2> QED  BY <2>9, <2>11 DEF FicheroInv, CabeceraInv
<1>10. CASE s.guarda # Delimitador
  <2>0. Len(s.guarda) # Len(Delimitador)
    BY <1>7a, <1>10
  <2>1. PICK g \in Seq(Simbolos) : g = s.guarda /\ Guardado(desde, n + 1, g)
    BY <1>8, <1>10
  <2>2. PICK r \in Nat : r = Len(retenido) /\ r <= n
    <3>1. Len(retenido) \in Nat
      BY <1>1
    <3>2. Len(retenido) <= n
      BY <1>5 DEF Guardado
    <3> QED  BY <3>1, <3>2
  <2>3. PICK m \in Nat : m = Len(g) /\ m <= n + 1
    <3>1. Len(g) \in Nat
      BY <2>1
    <3>2. Len(g) <= n + 1
      BY <2>1 DEF Guardado
    <3> QED  BY <3>1, <3>2
  <2>4. s.escribe = SubSeq(desde, n - r + 1, n + 1 - m)
    BY <1>8, <1>10, <2>1, <2>2, <2>3
  <2>5. PICK e \in Seq(Simbolos) : e = s.escribe
    <3>1. n - r + 1 \in Int /\ n + 1 - m \in Int /\ n - r + 1..n + 1 - m \subseteq 1..l
      BY <1>2, <1>4, <2>2, <2>3
    <3>3. \A i \in 1..l : desde[i] \in Simbolos
      BY <1>1, <1>2
    <3>2. \A i \in n - r + 1..n + 1 - m : desde[i] \in Simbolos
      BY <3>1, <3>3, Zenon
    <3> QED  BY <2>4, <3>1, <3>2, SubSeqProperties
  <2>6. u = Escribir(e)
    BY <2>5
  <2> HIDE DEF u
  <2>7. /\ u.buf \in Seq(Simbolos) /\ u.dado \in Seq(Simbolos) /\ u.total \in Int
        /\ Len(u.buf) <= BufLen /\ u.dado \o u.buf = subida.buf \o e
        /\ u.total = subida.total + Len(u.dado)
    BY <1>1, <2>6, EscribirBien
  <2>8. entregado' = (IF pet.manejador = "fnSubida" THEN entregado \o u.dado ELSE entregado)
    BY <1>7, <2>0 DEF Entregar
  <2>9. entregado \o u.dado \in Seq(Simbolos) /\ Len(entregado \o u.dado) = Len(entregado) + Len(u.dado)
    BY <1>1, <2>7, ConcatProperties
  <2>10. /\ subida' \in [buf : Seq(Simbolos), total : Int] /\ subida'.buf = u.buf /\ subida'.total = u.total
         /\ entregado' \in Seq(Simbolos) /\ retenido' = g /\ paso' = "subir"
    BY <1>1, <1>7, <2>0, <2>1, <2>7, <2>8, <2>9
  <2>12. ASSUME pet.manejador = "fnSubida"
         PROVE  entregado' \o u.buf = SubSeq(desde, 1, n + 1 - m) /\ u.total = Len(entregado')
    <3>1. (entregado \o u.dado) \o u.buf = (entregado \o subida.buf) \o e
      <4>1. PICK x \in Seq(Simbolos), y \in Seq(Simbolos) : x = u.dado /\ y = u.buf
        BY <2>7
      <4>2. PICK a \in Seq(Simbolos), b \in Seq(Simbolos) : a = entregado /\ b = subida.buf
        BY <1>1
      <4>3. Mas(x, y) = Mas(b, e)
        BY <2>7, <4>1, <4>2 DEF Mas
      <4>4. Mas(Mas(a, x), y) = Mas(Mas(a, b), e)
        BY <4>3, MismaSuma
      <4>5. (a \o x) \o y = (a \o b) \o e
        BY <4>4, Zenon DEF Mas
      <4> QED  BY <4>1, <4>2, <4>5
    <3>3. entregado \o subida.buf = SubSeq(desde, 1, n - r) /\ subida.total = Len(entregado)
      BY <1>6, <2>2, <2>12
    <3>4. SubSeq(desde, 1, n - r) \o SubSeq(desde, n - r + 1, n + 1 - m) = SubSeq(desde, 1, n + 1 - m)
      <4>1. 1 \in 1..Len(desde) + 1 /\ n - r \in 1 - 1..Len(desde)
        BY <1>2, <1>4, <2>2
      <4>2. m <= r + 1
        BY <1>8, <1>10, <2>1, <2>2, <2>3
      <4>3. n + 1 - m \in n - r..Len(desde)
        BY <1>2, <1>4, <2>2, <2>3, <4>2
      <4> QED  BY <1>1, <4>1, <4>3, ConcatAdjacentSubSeq
    <3> QED  BY <2>4, <2>5, <2>7, <2>8, <2>9, <2>12, <3>1, <3>3, <3>4
  <2>13. n + 1 \in 0..Len(desde') /\ entrada' = SubSeq(desde', (n + 1) + 1, Len(desde'))
         /\ Guardado(desde', n + 1, retenido')
    <3>1. (n + 1) + 1 = n + 2 /\ n + 1 \in 0..l
      BY <1>2, <1>3, <1>4
    <3> QED  BY <1>2, <1>4, <1>7, <2>1, <2>10, <3>1
  <2>14. Leido(n + 1)'
    <3>1. pet'.manejador = "fnSubida" =>
            entregado' \o subida'.buf = SubSeq(desde', 1, n + 1 - Len(retenido')) /\ subida'.total = Len(entregado')
      BY <1>7, <2>3, <2>10, <2>12
    <3> QED  BY <2>13, <3>1 DEF Leido
  <2> QED  BY <2>10, <2>13, <2>14 DEF FicheroInv, CabeceraInv
<1> QED  BY <1>9, <1>10

Fichero == TiposInv /\ FicheroInv

\* No file at the start.
LEMMA FicheroInit == Init => Fichero
<1> SUFFICES ASSUME Init PROVE Fichero
  OBVIOUS
<1>1. /\ entrada = <<>> /\ desde = <<>> /\ entregado = <<>> /\ retenido = <<>>
      /\ subida = [buf |-> <<>>, total |-> -1] /\ paso = "reposo" /\ duda = "ninguna"
  BY DEF Init, Nada
<1>2. BufLen \in Nat /\ <<>> \in Seq(Simbolos) /\ Len(<<>>) = 0 /\ -1 \in Int
  BY LimitesAssumption
<1>3. subida \in [buf : Seq(Simbolos), total : Int] /\ subida.buf = <<>>
  BY <1>1, <1>2
<1>4. TiposInv
  BY <1>1, <1>2, <1>3 DEF TiposInv, Dudas
<1> QED  BY <1>1, <1>4 DEF Fichero, FicheroInv, CabeceraInv

\* What is left after a line that was read, or was not.
LEMMA RestoTipo ==
  ASSUME entrada \in Seq(Simbolos), NEW l, Lee(l), NEW r \in Restos(l)
  PROVE  r \in Seq(Simbolos)
<1>1. CASE l # ""
  <2>1. entrada # <<>> /\ r = Tail(entrada)
    BY <1>1, Zenon DEF Lee, Restos
  <2> QED  BY <2>1, HeadTailProperties
<1>2. CASE l = "" /\ \E k \in 0..FinDeLinea : r = SubSeq(entrada, k + 1, Len(entrada))
  <2>1. PICK k \in 0..FinDeLinea : r = SubSeq(entrada, k + 1, Len(entrada))
    BY <1>2
  <2>2. k \in Nat /\ Len(entrada) \in Nat
    OBVIOUS
  <2>3. \A i \in k + 1..Len(entrada) : entrada[i] \in Simbolos
    BY <2>2
  <2> QED  BY <2>1, <2>2, <2>3, SubSeqProperties
<1>3. CASE l = "" /\ entrada # <<>> /\ r = <<"cola">> \o Tail(entrada)
  <2>1. Tail(entrada) \in Seq(Simbolos)
    BY <1>3, HeadTailProperties
  <2>2. "cola" \in Simbolos
    BY DEF Simbolos, Lineas
  <2>3. <<"cola">> \in Seq(Simbolos)
    BY <2>2
  <2> QED  BY <1>3, <2>1, <2>3, ConcatProperties
<1> QED  BY <1>1, <1>2, <1>3 DEF Restos

\* Only the bytes of a file and the line before it change what the sketch has.
LEMMA FicheroStep == Orden /\ Fichero /\ [Next]_vars => Fichero'
<1> SUFFICES ASSUME Orden, Fichero, [Next]_vars PROVE Fichero'
  OBVIOUS
<1>0. TiposInv /\ FicheroInv /\ entrada \in Seq(Simbolos)
  BY DEF Fichero, TiposInv
<1>1. ASSUME UNCHANGED <<subida, retenido, entregado, desde, duda>>, entrada' \in Seq(Simbolos),
             paso # "subir", paso' \notin {"subir", "tipoArchivo", "blancoArchivo"},
             paso' = "trasArchivo" => paso = "trasArchivo" /\ pet' = pet
      PROVE  Fichero'
  <2>1. Archivo' = Archivo
    BY <1>1 DEF Archivo
  <2>2. TiposInv'
    BY <1>0, <1>1 DEF TiposInv
  <2>3. FicheroInv'
    BY <1>0, <1>1, <2>1 DEF FicheroInv, CabeceraInv
  <2> QED  BY <2>2, <2>3 DEF Fichero
<1>2. ASSUME Soltar PROVE Fichero'
  <2>1. /\ entrada' = <<>> /\ desde' = <<>> /\ entregado' = <<>> /\ retenido' = <<>>
        /\ subida' = [buf |-> <<>>, total |-> -1] /\ paso' = "reposo" /\ duda' = "ninguna"
    BY <1>2 DEF Soltar, Nada
  <2>2. BufLen \in Nat /\ <<>> \in Seq(Simbolos) /\ Len(<<>>) = 0 /\ -1 \in Int
    BY LimitesAssumption
  <2>3. subida' \in [buf : Seq(Simbolos), total : Int] /\ subida'.buf = <<>> /\ duda' \in Dudas
    BY <2>1, <2>2 DEF Dudas
  <2>4. TiposInv'
    BY <2>1, <2>2, <2>3 DEF TiposInv
  <2> QED  BY <2>1, <2>4 DEF Fichero, FicheroInv, CabeceraInv
<1>3. paso # "reposo" => estado = "HC_WAIT_READ"
  BY DEF Orden, HiloInv
<1>4. ASSUME NEW l, Lee(l), entrada' \in Restos(l) PROVE entrada' \in Seq(Simbolos)
  BY <1>0, <1>4, RestoTipo
<1>5. ASSUME NEW p \in Peticiones, Conectar(p) PROVE Fichero'
  <2>1. paso = "reposo" /\ UNCHANGED <<paso, subida, retenido, entregado, desde, duda>>
    BY <1>5 DEF Conectar, Orden, HiloInv
  <2>2. <<"linea", "cabeceras">> \in Seq(Simbolos)
    BY DEF Simbolos, Lineas
  <2>3. p.texto \in Seq(Simbolos)
    BY PeticionesAssumption DEF Simbolos
  <2>4. entrada' \in Seq(Simbolos)
    <3>1. <<"linea", "cabeceras">> \o p.texto \in Seq(Simbolos) /\ <<>> \in Seq(Simbolos)
      BY <2>2, <2>3, ConcatProperties
    <3>2. entrada' = IF p.metodo = "mudo" THEN <<>> ELSE <<"linea", "cabeceras">> \o p.texto
      BY <1>5 DEF Conectar
    <3> QED  BY <3>1, <3>2, Zenon
  <2> QED  BY <1>1, <2>1, <2>4
<1>6. CASE Cortar
  <2>1. /\ entrada' = <<>> /\ entrada' \in Seq(Simbolos) /\ red' = "cortada"
        /\ UNCHANGED <<paso, pet, subida, retenido, entregado, desde, duda>>
    BY <1>6 DEF Cortar, archivo
  <2>2. Archivo' = Archivo
    BY <2>1 DEF Archivo
  <2>3. TiposInv'
    BY <1>0, <2>1 DEF TiposInv
  <2>4. FicheroInv'
    BY <1>0, <2>1, <2>2 DEF FicheroInv, CabeceraInv
  <2> QED  BY <2>3, <2>4 DEF Fichero
<1>7. CASE Aceptar
  <2>1. paso = "reposo" /\ UNCHANGED <<paso, entrada, subida, retenido, entregado, desde, duda>>
    BY <1>7 DEF Aceptar, Orden, HiloInv, entradas, archivo
  <2> QED  BY <1>0, <1>1, <2>1
<1>8. CASE EsperarDatos
  <2>1. CASE Soltar
    BY <1>2, <2>1
  <2>2. CASE ~Soltar
    <3>1. paso = "reposo" /\ UNCHANGED <<paso, entrada, subida, retenido, entregado, desde, duda>>
      BY <1>8, <2>2 DEF EsperarDatos, entradas
    <3> QED  BY <1>0, <1>1, <3>1
  <2> QED  BY <2>1, <2>2
<1>9. ASSUME NEW entera \in BOOLEAN, LineaDePeticion(entera) PROVE Fichero'
  <2>1. CASE Soltar
    BY <1>2, <2>1
  <2>2. CASE ~Soltar
    <3>1. /\ paso = "reposo" /\ paso' = "cabeceras" /\ entrada # <<>> /\ entrada' = Tail(entrada)
          /\ UNCHANGED <<subida, retenido, entregado, desde, duda>>
      BY <1>9, <2>2 DEF LineaDePeticion, Rechazar, archivo
    <3>2. entrada' \in Seq(Simbolos)
      BY <1>0, <3>1, HeadTailProperties
    <3> QED  BY <1>1, <3>1, <3>2
  <2> QED  BY <2>1, <2>2
<1>10. ASSUME NEW l, Cabeceras(l) PROVE Fichero'
  <2>1. /\ paso = "cabeceras" /\ paso' \in {"form", "cuerpo", "manejar"} /\ Lee(l) /\ entrada' \in Restos(l)
        /\ UNCHANGED <<subida, retenido, entregado, desde, duda>>
    BY <1>10 DEF Cabeceras, archivo
  <2> QED  BY <1>1, <1>4, <2>1
<1>11. ASSUME NEW k \in 1..Len(entrada), Cuerpo(k) PROVE Fichero'
  <2>1. /\ paso = "cuerpo" /\ paso' \in {"cuerpo", "manejar"}
        /\ entrada' = SubSeq(entrada, k + 1, Len(entrada))
        /\ UNCHANGED <<subida, retenido, entregado, desde, duda>>
    BY <1>11 DEF Cuerpo, archivo
  <2>2. k + 1 \in Int /\ Len(entrada) \in Int /\ \A i \in k + 1..Len(entrada) : entrada[i] \in Simbolos
    BY <1>0
  <2>3. entrada' \in Seq(Simbolos)
    BY <2>1, <2>2, SubSeqProperties
  <2> QED  BY <1>1, <2>1, <2>3
<1>12. CASE CuerpoTarde
  BY <1>2, <1>12 DEF CuerpoTarde, Rechazar
<1>13. ASSUME NEW l, Form(l) PROVE Fichero'
  <2>1. CASE Soltar
    BY <1>2, <2>1
  <2>2. CASE ~Soltar
    <3>1. /\ paso = "form" /\ paso' = "parte" /\ Lee(l) /\ entrada' \in Restos(l)
          /\ UNCHANGED <<subida, retenido, entregado, desde, duda>>
      BY <1>13, <2>2 DEF Form, Rechazar, archivo
    <3> QED  BY <1>1, <1>4, <3>1
  <2> QED  BY <2>1, <2>2
<1>14. ASSUME NEW l, Parte(l) PROVE Fichero'
  <2>1. /\ paso = "parte" /\ Lee(l) /\ entrada' \in Restos(l) /\ duda' = "ninguna"
        /\ UNCHANGED <<red, pet, subida, retenido, entregado>>
        /\ desde' = IF l = "archivo" THEN TrasCabecera(entrada') ELSE desde
        /\ paso' = CASE l = "campo" -> "tipoCampo" [] l = "archivo" -> "tipoArchivo" [] OTHER -> "parte"
    BY <1>14 DEF Parte
  <2>2. entrada' \in Seq(Simbolos)
    BY <1>4, <2>1
  <2>3. TrasCabecera(entrada') \in Seq(Simbolos)
    <3>1. PICK e \in Seq(Simbolos) : e = entrada'
      BY <2>2
    <3>2. PICK t \in Seq(Simbolos) : t = IF e # <<>> /\ Head(e) = "tipo" THEN Tail(e) ELSE e
      BY HeadTailProperties
    <3>3. TrasCabecera(e) = IF t # <<>> THEN Tail(t) ELSE t
      BY <3>2, Zenon DEF TrasCabecera
    <3>4. t # <<>> => Tail(t) \in Seq(Simbolos)
      BY <3>2, HeadTailProperties
    <3> QED  BY <3>1, <3>2, <3>3, <3>4
  <2>4. desde' \in Seq(Simbolos) /\ paso' \in {"parte", "tipoCampo", "tipoArchivo"}
        /\ (paso' = "tipoArchivo" => desde' = TrasCabecera(entrada'))
    <3>1. desde \in Seq(Simbolos)
      BY <1>0 DEF TiposInv
    <3>2. CASE l = "archivo"
      BY <2>1, <2>3, <3>2
    <3>3. CASE l # "archivo"
      <4>1. paso' \in {"parte", "tipoCampo"}
        BY <2>1, <3>3
      <4> QED  BY <2>1, <3>1, <3>3, <4>1
    <3> QED  BY <3>2, <3>3
  <2>5. TiposInv'
    BY <1>0, <2>1, <2>2, <2>4 DEF TiposInv, Dudas
  <2>6. TrasCabecera(entrada') = TrasCabecera(entrada)'
    BY DEF TrasCabecera
  <2>7. FicheroInv'
    BY <2>4, <2>6 DEF FicheroInv, CabeceraInv
  <2> QED  BY <2>5, <2>7 DEF Fichero
\* A file whose header was read as it is begins where its peer says.
<1>14a. ASSUME NEW l, EmpezarParte(l), paso \in {"tipoCampo", "tipoArchivo", "blancoCampo", "blancoArchivo"},
               UNCHANGED <<red, pet, retenido, desde>>, entrada' \in Seq(Simbolos),
               paso \in {"tipoArchivo", "blancoArchivo"} /\ l = "vacia" => desde = entrada'
        PROVE  Fichero'
  <2>1. CASE paso \in {"tipoCampo", "blancoCampo"}
    <3>1. paso' = "valor" /\ UNCHANGED <<subida, entregado, duda>>
      BY <1>14a, <2>1 DEF EmpezarParte
    <3> QED  BY <1>1, <1>14a, <3>1
  <2>2. CASE paso \in {"tipoArchivo", "blancoArchivo"}
    <3>1. /\ paso' = "subir" /\ subida' = [buf |-> <<>>, total |-> 0]
          /\ entregado' = <<>> /\ duda' = IF l = "vacia" THEN "ninguna" ELSE "cabecera"
      BY <1>14a, <2>2 DEF EmpezarParte
    <3>2. retenido' = <<>>
      BY <1>0, <1>14a DEF TiposInv
    <3>3. BufLen \in Nat /\ <<>> \in Seq(Simbolos) /\ Len(<<>>) = 0 /\ 0 \in Int
      BY LimitesAssumption
    <3>4. subida' \in [buf : Seq(Simbolos), total : Int] /\ subida'.buf = <<>> /\ subida'.total = 0
      BY <3>1, <3>3
    <3>5. PICK de \in Seq(Simbolos) : de = desde'
      BY <1>0, <1>14a DEF TiposInv
    <3>6. TiposInv'
      BY <1>14a, <3>1, <3>2, <3>3, <3>4, <3>5 DEF TiposInv, Dudas
    <3>7. 0 \in 0..Len(de) /\ de = SubSeq(de, 0 + 1, Len(de)) /\ SubSeq(de, 1, 0) = <<>>
      BY SubSeqFull, SubSeqEmpty
    <3>8. Guardado(de, 0, <<>>)
      <4>1. SubSeq(de, 0 - 0 + 1, 0) = <<>> /\ Len(Delimitador) > 0
        BY <3>7, DelimitadorTipo
      <4> QED  BY <3>3, <4>1 DEF Guardado
    <3>9. <<>> \o <<>> = <<>> /\ 0 - Len(<<>>) = 0
      <4>1. <<>> \o <<>> = <<>>
        BY <3>3, ConcatEmptySeq
      <4>2. \A z : z = 0 => 0 - z = 0
        OBVIOUS
      <4> QED  BY <3>3, <4>1, <4>2, Zenon
    <3>10. duda' = "ninguna" => entrada' = de
      BY <1>14a, <2>2, <3>1, <3>5
    <3>11. duda' = "ninguna" => Leido(0)'
      BY <3>1, <3>2, <3>3, <3>4, <3>5, <3>7, <3>8, <3>9, <3>10 DEF Leido
    <3>12. FicheroInv'
      BY <3>1, <3>5, <3>7, <3>11 DEF FicheroInv, CabeceraInv
    <3> QED  BY <3>6, <3>12 DEF Fichero
  <2> QED  BY <1>14a, <2>1, <2>2
<1>14b. ASSUME NEW l, TipoDeParte(l) PROVE Fichero'
  <2>1. /\ paso \in {"tipoCampo", "tipoArchivo"} /\ Lee(l) /\ entrada' \in Restos(l)
        /\ UNCHANGED <<red, pet, retenido, desde>>
    BY <1>14b DEF TipoDeParte
  <2>2. entrada' \in Seq(Simbolos)
    BY <1>4, <2>1
  <2>3. l # "" => entrada # <<>> /\ red = "viva" /\ l = Head(entrada) /\ entrada' = Tail(entrada)
    BY <2>1, Zenon DEF Lee, Restos
  <2>4. CASE l = "tipo"
    <3>1. /\ paso' = (IF paso = "tipoCampo" THEN "blancoCampo" ELSE "blancoArchivo")
          /\ UNCHANGED <<subida, entregado, duda>>
      BY <1>14b, <2>4 DEF TipoDeParte
    <3>2. CASE paso = "tipoCampo"
      BY <1>1, <2>1, <2>2, <3>1, <3>2
    <3>3. CASE paso = "tipoArchivo"
      <4>1. desde = IF entrada' # <<>> THEN Tail(entrada') ELSE entrada'
        <5>1. desde = TrasCabecera(entrada)
          BY <1>0, <2>3, <2>4, <3>3 DEF FicheroInv, CabeceraInv
        <5> QED  BY <2>3, <2>4, <5>1, Zenon DEF TrasCabecera
      <4>2. TiposInv'
        BY <1>0, <2>1, <2>2, <3>1, <3>3 DEF TiposInv
      <4>3. FicheroInv'
        BY <2>1, <3>1, <3>3, <4>1 DEF FicheroInv, CabeceraInv
      <4> QED  BY <4>2, <4>3 DEF Fichero
    <3> QED  BY <2>1, <3>2, <3>3
  <2>5. CASE l # "tipo"
    <3>1. ASSUME paso = "tipoArchivo", l = "vacia" PROVE desde = entrada'
      <4>1. desde = TrasCabecera(entrada)
        BY <1>0, <2>3, <3>1 DEF FicheroInv, CabeceraInv
      <4>2. entrada # <<>> /\ Head(entrada) # "tipo" /\ entrada' = Tail(entrada)
        BY <2>3, <3>1
      <4> QED  BY <4>1, <4>2, Zenon DEF TrasCabecera
    <3>2. EmpezarParte(l)
      BY <1>14b, <2>5 DEF TipoDeParte
    <3> QED  BY <1>14a, <2>1, <2>2, <3>1, <3>2
  <2> QED  BY <2>4, <2>5
<1>14c. ASSUME NEW l, BlancoDeParte(l) PROVE Fichero'
  <2>1. /\ paso \in {"blancoCampo", "blancoArchivo"} /\ Lee(l) /\ entrada' \in Restos(l)
        /\ EmpezarParte(l) /\ UNCHANGED <<red, pet, retenido, desde>>
    BY <1>14c DEF BlancoDeParte
  <2>2. entrada' \in Seq(Simbolos)
    BY <1>4, <2>1
  <2>3. l # "" => entrada # <<>> /\ red = "viva" /\ entrada' = Tail(entrada)
    BY <2>1, Zenon DEF Lee, Restos
  <2>4. paso = "blancoArchivo" /\ l = "vacia" => desde = entrada'
    BY <1>0, <2>3 DEF FicheroInv, CabeceraInv
  <2> QED  BY <1>14a, <2>1, <2>2, <2>4
<1>15. ASSUME NEW l, Valor(l) PROVE Fichero'
  <2>1. CASE Soltar
    BY <1>2, <2>1
  <2>2. CASE ~Soltar
    <3>1. /\ paso = "valor" /\ paso' \in {"finForm", "parte", "valor"} /\ Lee(l) /\ entrada' \in Restos(l)
          /\ UNCHANGED <<subida, retenido, entregado, desde, duda>>
      BY <1>15, <2>2 DEF Valor, archivo
    <3> QED  BY <1>1, <1>4, <3>1
  <2> QED  BY <2>1, <2>2
<1>16. ASSUME NEW l, TrasArchivo(l) PROVE Fichero'
  <2>1. /\ paso = "trasArchivo" /\ paso' \in {"finForm", "parte"} /\ Lee(l) /\ entrada' \in Restos(l)
        /\ UNCHANGED <<subida, retenido, entregado, desde, duda>>
    BY <1>16 DEF TrasArchivo, archivo
  <2> QED  BY <1>1, <1>4, <2>1
<1>17. CASE UnirArgumentos
  <2>1. /\ paso = "finForm" /\ paso' = "copiar"
        /\ UNCHANGED <<entrada, subida, retenido, entregado, desde, duda>>
    BY <1>17 DEF UnirArgumentos, entradas, archivo
  <2> QED  BY <1>0, <1>1, <2>1
<1>17a. CASE CopiarArgumentos
  <2>1. /\ paso = "copiar" /\ paso' = "manejar"
        /\ UNCHANGED <<entrada, subida, retenido, entregado, desde, duda>>
    BY <1>17a DEF CopiarArgumentos, entradas, archivo
  <2> QED  BY <1>0, <1>1, <2>1
<1>18. ASSUME NEW strstr, Subir(strstr) PROVE Fichero'
  <2>1. TiposInv'
    BY <1>0, <1>18, SubirTipos
  <2>2. CASE duda' # "ninguna"
    <3>1. paso' \in {"subir", "trasArchivo"}
      BY <1>18 DEF Subir
    <3>2. FicheroInv'
      BY <2>2, <3>1 DEF FicheroInv, CabeceraInv
    <3> QED  BY <2>1, <3>2 DEF Fichero
  <2>3. CASE duda' = "ninguna"
    BY <1>0, <1>18, <2>1, <2>3, SubirStep DEF Fichero, SinDuda
  <2> QED  BY <2>2, <2>3
<1>19. CASE SubidaRota
  BY <1>2, <1>19 DEF SubidaRota
<1>20. ASSUME paso \in {"manejar", "finalizar"}, paso' \in {"manejar", "finalizar"},
              UNCHANGED <<entrada, subida, retenido, entregado, desde, duda>>
       PROVE  Fichero'
  BY <1>0, <1>1, <1>20
<1>21. ASSUME NEW desconocido \in BOOLEAN, NEW n \in {0, 1}, send(desconocido, n) PROVE Fichero'
  BY <1>20, <1>21 DEF send, entradas, archivo
<1>22. ASSUME NEW n \in {0, 1}, sendContent(n) PROVE Fichero'
  BY <1>20, <1>22 DEF sendContent, entradas, archivo
<1>23. CASE FinDeManejar
  BY <1>20, <1>23 DEF FinDeManejar, entradas, archivo
<1>24. CASE _finalizeResponse
  BY <1>2, <1>24 DEF _finalizeResponse
<1>25. CASE UNCHANGED vars
  <2>1. UNCHANGED <<paso, red, pet, entrada, subida, retenido, entregado, desde, duda>>
    BY <1>25 DEF vars, entradas, archivo
  <2>2. Archivo' = Archivo
    BY <2>1 DEF Archivo
  <2>3. TiposInv'
    BY <1>0, <2>1 DEF TiposInv
  <2>4. FicheroInv'
    BY <1>0, <2>1, <2>2 DEF FicheroInv, Leido, CabeceraInv
  <2> QED  BY <2>3, <2>4 DEF Fichero
<1> QED
  BY <1>5, <1>6, <1>7, <1>8, <1>9, <1>10, <1>11, <1>12, <1>13, <1>14, <1>14b, <1>14c, <1>15, <1>16, <1>17,
     <1>17a, <1>18, <1>19, <1>21, <1>22, <1>23, <1>24, <1>25 DEF Next, handleClient

-----------------------------------------------------------------------------
\* The inductive invariant.
THEOREM FicheroCorrect == Spec => [](Orden /\ ArgumentosInv /\ Fichero)
<1>1. Init => Orden /\ ArgumentosInv /\ Fichero
  BY OrdenInit, ArgumentosInit, FicheroInit
<1>2. Orden /\ ArgumentosInv /\ Fichero /\ [Next]_vars => (Orden /\ ArgumentosInv /\ Fichero)'
  BY OrdenStep, ArgumentosStep, FicheroStep
<1> QED  BY <1>1, <1>2, PTL DEF Spec

\* A chunked response is ended by its empty chunk once and last, also when the
\* sketch leaves that to _finalizeResponse() (WebServer.cpp).
THEOREM RespuestaBienFormadaCorrect == Spec => []RespuestaBienFormada
<1>1. Orden => RespuestaBienFormada
  BY DEF Orden, RespuestaInv, HiloInv, RespuestaBienFormada
<1> QED  BY <1>1, FicheroCorrect, PTL

\* Neither the array of the fields of a form, with the arguments of the URL that join
\* them, nor the buffer of an upload overflows (Parsing.cpp 303-311, 416-427, 526-533),
\* for every form.
THEOREM CabenArgumentosCorrect == Spec => []CabenArgumentos
<1>1. Orden /\ Fichero => CabenArgumentos
  BY DEF Orden, CamposInv, Fichero, TiposInv, CabenArgumentos
<1> QED  BY <1>1, FicheroCorrect, PTL

\* An upload whose header was read as it is, and whose delimiter was found where it
\* is, handed over the bytes of the file in their order, whatever pieces of the
\* delimiter they contain and however long the buffer is (Parsing.cpp 396-405,
\* 440-519); and no upload that began is left without its end.
THEOREM ArchivoIntegroCorrect == Spec => []ArchivoIntegro
<1>1. ASSUME Orden, Fichero PROVE ArchivoIntegro
  <2>1. paso = "trasArchivo" /\ pet.manejador = "fnSubida" /\ duda = "ninguna" =>
          entregado = Archivo /\ subida.total = Len(Archivo)
    BY <1>1 DEF Fichero, FicheroInv
  <2>2. estado = "HC_NONE" => aviso \notin {"START", "WRITE"} /\ subida = Nada
    BY <1>1 DEF Orden, HiloInv, AvisoInv
  <2> QED  BY <2>1, <2>2 DEF ArchivoIntegro
<1> QED  BY <1>1, FicheroCorrect, PTL

\* The library in use reads a request as ServidorHttp does, or answers one of a site
\* and reads none: what is said of the reader holds of both together.
LEMMA UsoRefina == UsoSpec => Spec
<1>1. UsoInit => Init
  BY DEF UsoInit
<1>2. [UsoNext]_<<vars, sitio>> => [Next]_vars
  BY DEF UsoNext, SitioQuieto
<1> QED  BY <1>1, <1>2, PTL DEF UsoSpec, Spec

\* The three promises of the reader, in every use of the library: fields and buffers
\* fit, uploads are whole, responses end once (Parsing.cpp, WebServer.cpp).
THEOREM UsoCorrect == UsoSpec => [](CabenArgumentos /\ ArchivoIntegro /\ RespuestaBienFormada)
BY UsoRefina, CabenArgumentosCorrect, ArchivoIntegroCorrect, RespuestaBienFormadaCorrect, PTL
=============================================================================
