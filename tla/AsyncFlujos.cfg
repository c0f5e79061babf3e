SPECIFICATION FlujosSpec
CONSTANTS
  N = 2
  Ventana = 13
  Margen = 8
  Corto = 6
  Modulo = 64
  ColaMax = 2
  MaxClientes = 1
  Largos = {3, 8}
  LargosControl = {1}
  Partes = {5}
  MensajesMax = 2
  ControlMax = 1
  LargosSse = {3, 8, 13}
  Restos = {0, 2}
  EventosMax = 4
INVARIANT BufferVivo
PROPERTIES MensajesEnteros FlujosAvanzan
CHECK_DEADLOCK FALSE
