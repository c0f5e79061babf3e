SPECIFICATION HSpec
CONSTANTS
  MaxIntentos = 3
  SegundosPorMinuto = 3
  ModContador = 6
  Lecturas <- MCLecturas
  Mensajes <- MCMensajes
  EepromInicial = {1}
INVARIANT TiempoRestante
