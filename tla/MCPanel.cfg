SPECIFICATION PFairSpec
CONSTANTS
  MaxIntentos = 1
  SegundosPorMinuto = 1
  ModContador = 2
  Lecturas = {13}
  Mensajes <- MCClics
  EepromInicial = {1}
  Paginas = {p1}
  Clics <- MCClics
  MaxSubida = 1
  MaxBajada = 1
PROPERTIES DifusionAtrasadaUnaVez PanelConverge OffLlega
