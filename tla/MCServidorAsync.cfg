SPECIFICATION HttpSpec
CONSTANTS
  Frontera <- MCFrontera
  Cabecera <- MCCabecera
  Valores <- MCValores
  Casos <- MCCasos
  BufSubida = 2
  Ventana = 13
  NombreMax = 2
  TardesMax = 1
  Conexiones = {1, 2}
  Manejadores <- MCManejadores
  Reescrituras <- MCReescrituras
  Visitas <- MCVisitas
  ArchivosDe <- MCArchivosDe
  Copias <- MCCopias
  Patrones <- MCPatrones
  Basura = {0, 9}
  LineaMax = 4
  VisitasMax = 2
INVARIANTS PeticionFiel RespuestaFiel
PROPERTY ConexionTermina
CHECK_DEADLOCK FALSE
