SPECIFICATION LadosSpec
CONSTANTS
  NumRanuras = 2
  Conexiones = {c1, c2}
  Nulo = Nulo
  Campos = {"upgrade"}
  Fijan <- MCFijan
  Quedan = {}
  Guiones <- MCGuiones
  PingIntervalo = 1
  PongPlazo = 0
  Limite = 1
  ModCuenta = 2
  Reconexion = 2
  PlazoCabecera = 6
  PingCliente = 1
  PongCliente = 0
  Alto = 16
  Larga = 16
  Paquete = 16
  MaxDatos = 16
  Claves <- MCClaves
  Cabidas <- MCCabidas
  Envios <- MCEnvios
  Avisos <- MCAvisos
  EnviosMax = 2
INVARIANTS UnaRanuraPorConexion SesionesEnOrden ClienteEnOrden TramaFiel
PROPERTY LadosVuelven
