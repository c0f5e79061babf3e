SPECIFICATION UsoSpec
CONSTANTS
  Peticiones <- MCPeticiones
  Frontera <- MCFrontera
  MaxArgs = 2
  BufLen = 2
  MaxEspera = 1
  Handlers <- MCHandlers
  NoEncontrado <- MCNoEncontrado
  Collect <- MCCollect
  Archivos <- MCArchivos
  Visitas <- MCVisitas
  VisitasMax = 3
INVARIANTS CabenArgumentos ArchivoIntegro RespuestaBienFormada SitioFiel
PROPERTY SinFormTermina
