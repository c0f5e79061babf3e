SPECIFICATION HSpec
CONSTANTS
  MaxIntentos = 3
  SegundosPorMinuto = 3
  ModContador = 6
  Lecturas <- MCLecturas
  Mensajes <- MCMensajes
  EepromInicial = {0, 1}
INVARIANT TypeOK
INVARIANTS ValvulasEnOrden ApagadoDuradero PurgaAcotada
PROPERTY ArranqueEnBajo
