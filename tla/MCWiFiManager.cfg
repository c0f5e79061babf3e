SPECIFICATION TarjetaSpec
CONSTANTS
  A = A
  B = B
  Vacio = Vacio
  Valores = {A, B, AL}
  AL = AL
  Cortados <- MCCortados
  Ultimo = 4
  Validas <- MCValidas
  Inicial <- MCInicial
  Formularios <- MCFormularios
  Navegadores = {1, 2}
  Validas3 <- MCValidas3
  Inicial3 <- MCValidas3
  Formularios3 <- MCFormularios3
  Retardo = 1
  Tope = 7
  Peticiones <- MCPeticiones
  TiempoCancelacion = 1
  PeticionesMax = 3
INVARIANTS ConfirmadaGuardada EstacionGuardada UnaPorPulsacion LuzContada
PROPERTY LlegaAlLazo
CHECK_DEADLOCK FALSE
