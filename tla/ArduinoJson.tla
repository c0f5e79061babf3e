---------------------------- MODULE ArduinoJson ----------------------------
(***************************************************************************)
(* ArduinoJson in use: a document is read, from a text or from MessagePack,   *)
(* into one and the same memory; or two documents are built and edited in     *)
(* their pools.  And what must come of it.                                   *)
(***************************************************************************)
EXTENDS MsgPack, JsonIdeal

ASSUME UnaRanura == Bytes = Ancho

\* While something is read there are no documents, and the other way round.
SinDocumentos == docs = <<>> /\ hecho = Ninguna /\ vez = 0
SinTexto ==
  /\ caso = [texto |-> <<>>, filtro |-> Nunca, clase |-> "ninguna"] /\ limite = 0
  /\ mem = Memoria(<<NUL>>, FALSE, 0) /\ lat = [lleno |-> FALSE, c |-> NUL, lee |-> 1]
  /\ doc = <<Ranura0>> /\ destino = [v |-> 1, f |-> Nunca, lim |-> 0, salta |-> FALSE]
  /\ pila = <<>> /\ cita = [n |-> 0, clave |-> FALSE]
  /\ paso = "fin" /\ error = "Ok"

LecturaNext == (Next \/ MpNext) /\ UNCHANGED docVars
EdicionNext == caso.clase = "ninguna" /\ DocNext /\ UNCHANGED vars
Quieto == paso = "fin" /\ UNCHANGED <<vars, docVars>>

\* The parser runs until it returns: weak fairness of its step, which is only
\* disabled (but for stuttering) at the end, as the check for deadlock shows.
Justicia == []<>(paso = "fin") \/ []<><<LecturaNext>>_vars
JsonSpec ==
  /\ \/ (Init \/ MpInit) /\ SinDocumentos
     \/ SinTexto /\ DocInit
  /\ [][LecturaNext \/ EdicionNext \/ Quieto]_<<vars, docVars>>
  /\ Justicia

-----------------------------------------------------------------------------
\* A text without the blanks that are outside its strings.
Apretado(t) ==
  FoldLeft(LAMBDA r, c :
             [s |-> IF ~r.cita /\ c \in {13, 10, 32} THEN r.s ELSE Append(r.s, c),
              cita |-> IF c = 34 /\ ~r.barra THEN ~r.cita ELSE r.cita, barra |-> c = 92 /\ ~r.barra],
           [s |-> <<>>, cita |-> FALSE, barra |-> FALSE], t).s

\* Of an input that is well formed either parser makes the document that was meant,
\* as far as the filter lets it, or says that it is too deep or too large; written
\* again it is the same text, plain or with lines and blanks, and the same bytes (JsonDeserializer.hpp,
\* MsgPackDeserializer.hpp, with the strings where the pool or the input holds them).
\* The pool holds what the document needs and no more, and is only said to be full when
\* it cannot (MemoryPool.hpp; a copied key is in the free zone before it is known whether
\* it is kept).  One that was cut anywhere is never taken for a whole one.  However a
\* document is edited, copied, shrunk or moved, every pointer in it is to what it was
\* meant for (VariantSlot.hpp, CollectionImpl.hpp, BasicJsonDocument.hpp).  Of two
\* documents without nulls, those are equal that say the same, and a number or a string
\* compares the other way round from the other side (VariantCompare.hpp, CollectionImpl.hpp).
Clara == paso = "fin" /\ caso.clase = "clara"
Necesita == caso.ranuras * Ancho + (IF mem.copia THEN caso.cadenas ELSE 0)
DocumentoFiel ==
  /\ Clara => /\ error \in {"Ok", "NoMemory", "TooDeep"}
              /\ error = "Ok" => /\ Serializado(mem, doc) = caso.salida
                                 /\ Apretado(Bonito(mem, doc)) = caso.salida
                                 /\ Empaquetado(mem, doc) = caso.paquete
                                 /\ caso.fondo <= limite /\ Usado(mem) = Necesita
              /\ error = "TooDeep" => caso.fondo > limite
              /\ error = "NoMemory" => Len(mem.bytes) < Necesita + (IF mem.copia THEN caso.larga + 1 ELSE 0)
  /\ paso = "fin" /\ caso.clase = "cortada" => error # "Ok"
  /\ \A d \in DOMAIN docs : Sano(docs[d])
  /\ docs # <<>> => Comparadas(Arbol(docs[1], RAIZ), Arbol(docs[2], RAIZ))

\* Each call makes of the document what the same call makes of a tree, and leaves the
\* other document alone; short of room it has done the first part of it, disturbed
\* nothing else and said so (JsonDocument.hpp, MemberProxy.hpp, ElementProxy.hpp,
\* ArrayRef.hpp, ObjectRef.hpp).
PasoFiel == [][vez' > vez => PasoDe(hecho')]_docVars

\* The parser returns, whatever the text.
Termina == <>(paso = "fin")
=============================================================================
