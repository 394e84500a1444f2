\* One stop request while main may stop by itself.
CONSTANT MaxControls = 1
SPECIFICATION ProcessSpec
CHECK_DEADLOCK FALSE
PROPERTY StopStopsService
