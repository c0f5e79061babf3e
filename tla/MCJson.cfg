SPECIFICATION JsonSpec
CONSTANTS
  Ancho = 4
  MaxEntero = 255
  MantisaMax = 1000000
  Capacidades = {9, 22, 90}
  Limites = {1, 3}
  Casos <- MCCasos
  CasosMp <- MCCasosMp
  Bytes = 4
  Alineo = 2
  Largo <- MCLargo
  Bases = {100, 200, 300}
  Inicial <- MCInicial
  Llamadas <- MCLlamadas
  MaxLlamadas = 3
INVARIANTS DocumentoFiel MemoriaEnOrden
PROPERTIES PasoFiel Termina
