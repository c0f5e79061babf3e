SPECIFICATION FairSpec
CONSTANTS
  MaxIntentos = 2
  SegundosPorMinuto = 2
  ModContador = 4
  Lecturas = {0, 13, 26}
  Mensajes <- MCMensajesViva
  EepromInicial = {1}
PROPERTIES SinLlamaSeCierra TemporizadorApaga ImplementaCuenta
