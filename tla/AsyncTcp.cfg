SPECIFICATION Spec
CONSTANTS
  Clientes = {a, b}
  Ranuras = 2
  MaxAbiertas = 2
  ColaMax = 3
  EventosMax = 2
INVARIANTS PcbVivo SinEventoTrasBorrar
PROPERTIES CierreLibera OrdenDeEventos
CHECK_DEADLOCK FALSE
