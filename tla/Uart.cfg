SPECIFICATION FairSpec
CONSTANTS
  Writers = {w1, w2}
  Echoes = {e1}
  INTR = INTR
  NULL = NULL
  Bytes = {x, y}
  Echo = Echo
  UART_TX_BUF_SIZE = 2
  W = 2
  FIFOSIZE = 2
PROPERTIES ImplementsFifo OutputMoves
