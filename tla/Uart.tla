-------------------------------- MODULE Uart --------------------------------
(***************************************************************************)
(* Console output (kernel/uart.c): uartputc() for write(), uartputc_sync() *)
(* for the kernel's printf() and for echoing, uartstart() and the          *)
(* transmit half of uartintr().                                            *)
(*                                                                         *)
(* uart_tx_lock protects the buffer but not the chip: uartputc_sync()      *)
(* reads the status and writes the data register without it, so a step of  *)
(* another CPU may come between any two register accesses.  The chip       *)
(* (16550, FIFO enabled) is modelled from what uart.c relies on: the       *)
(* status says idle when its FIFO is empty, and the transmit interrupt is  *)
(* raised when it runs empty and cleared by reading ISR or writing THR.    *)
(***************************************************************************)
EXTENDS Integers, Sequences, FiniteSets

CONSTANTS
  Writers,             \* processes in consolewrite()
  Echoes,              \* CPUs that may be in uartputc_sync()
  INTR,                \* uartintr()
  NULL,
  Bytes,
  Echo,                \* a byte sent by uartputc_sync()
  UART_TX_BUF_SIZE,
  W,                   \* uart_tx_w and uart_tx_r wrap around at 2^W
  FIFOSIZE             \* depth of the chip's transmit FIFO

\* The chip takes a byte from every CPU that has seen it idle.
ASSUME UartAssumption ==
  /\ INTR \notin Writers \cup Echoes /\ NULL \notin Writers \cup {INTR}
  /\ Echo \notin Bytes
  /\ UART_TX_BUF_SIZE \in Nat \ {0} /\ W \in Nat
  /\ 2 ^ W % UART_TX_BUF_SIZE = 0 /\ UART_TX_BUF_SIZE < 2 ^ W
  /\ FIFOSIZE \in Nat /\ Cardinality(Echoes) < FIFOSIZE

Users == Writers \cup {INTR}

VARIABLES
  uart_tx_buf, uart_tx_w, uart_tx_r,
  lock,          \* who holds uart_tx_lock
  panicked,
  pc, c,         \* place and character of Users and Echoes
  fifo, thri     \* the chip: FIFO and transmit interrupt

tx == <<uart_tx_buf, uart_tx_w, uart_tx_r>>
chip == <<fifo, thri>>
vars == <<tx, lock, panicked, pc, c, chip>>

Uint(x) == x % 2 ^ W

\* uartinit(); enabling the interrupt may raise it at once.
Init ==
  /\ uart_tx_buf \in [0 .. UART_TX_BUF_SIZE - 1 -> {NULL}]
  /\ uart_tx_w = 0 /\ uart_tx_r = 0
  /\ lock = NULL
  /\ panicked = FALSE
  /\ pc = [p \in Users \cup Echoes |-> "out"]
  /\ c = [p \in Users |-> NULL]
  /\ fifo = <<>> /\ thri \in BOOLEAN

GoTo(p, place) == pc' = [pc EXCEPT ![p] = place]

Full == uart_tx_w = Uint(uart_tx_r + UART_TX_BUF_SIZE)
Empty == uart_tx_w = uart_tx_r

Idle == fifo = <<>>

\* WriteReg(THR, b).
WriteTHR(b) ==
  /\ fifo' = IF Len(fifo) < FIFOSIZE THEN Append(fifo, b) ELSE fifo
  /\ thri' = FALSE

-----------------------------------------------------------------------------
(* uartputc(), called by consolewrite() for every character. *)

consolewrite(p, b) ==
  /\ pc[p] = "out"
  /\ c' = [c EXCEPT ![p] = b]
  /\ GoTo(p, "put")
  /\ UNCHANGED <<tx, lock, panicked, chip>>

\* After a panic the writer spins with the lock.
put_panicked(p) ==
  /\ pc[p] = "put"
  /\ panicked
  /\ lock = NULL /\ lock' = p
  /\ GoTo(p, "spin")
  /\ UNCHANGED <<tx, panicked, c, chip>>

\* sleep(&uart_tx_r, &uart_tx_lock); the panicked test is not repeated.
put_sleep(p) ==
  /\ (pc[p] = "put" /\ ~panicked) \/ pc[p] = "again"
  /\ lock = NULL
  /\ Full
  /\ GoTo(p, "asleep")
  /\ UNCHANGED <<tx, lock, panicked, c, chip>>

put_store(p) ==
  /\ (pc[p] = "put" /\ ~panicked) \/ pc[p] = "again"
  /\ lock = NULL /\ lock' = p
  /\ ~Full
  /\ uart_tx_buf' = [uart_tx_buf EXCEPT ![uart_tx_w % UART_TX_BUF_SIZE] = c[p]]
  /\ uart_tx_w' = Uint(uart_tx_w + 1)
  /\ GoTo(p, "start")
  /\ UNCHANGED <<uart_tx_r, panicked, c, chip>>

\* uartintr(), after the input: acquire(&uart_tx_lock).
uartintr ==
  /\ pc[INTR] = "out"
  /\ thri
  /\ lock = NULL /\ lock' = INTR
  /\ GoTo(INTR, "start")
  /\ UNCHANGED <<tx, panicked, c, chip>>

-----------------------------------------------------------------------------
(* uartstart() and the release() after it. *)

\* The buffer is empty: ReadReg(ISR).
start_empty(p) ==
  /\ pc[p] = "start"
  /\ Empty
  /\ thri' = FALSE
  /\ lock' = NULL
  /\ c' = [c EXCEPT ![p] = NULL]
  /\ GoTo(p, "out")
  /\ UNCHANGED <<tx, panicked, fifo>>

start_busy(p) ==
  /\ pc[p] = "start"
  /\ ~Empty /\ ~Idle
  /\ lock' = NULL
  /\ c' = [c EXCEPT ![p] = NULL]
  /\ GoTo(p, "out")
  /\ UNCHANGED <<tx, panicked, chip>>

\* Mutant: the status is not tested.
start_take_blind(p) ==
  /\ pc[p] = "start"
  /\ ~Empty
  /\ c' = [c EXCEPT ![p] = uart_tx_buf[uart_tx_r % UART_TX_BUF_SIZE]]
  /\ uart_tx_r' = Uint(uart_tx_r + 1)
  /\ pc' = [[q \in Users \cup Echoes |-> IF pc[q] = "asleep" THEN "again" ELSE pc[q]]
              EXCEPT ![p] = "send"]
  /\ UNCHANGED <<uart_tx_buf, uart_tx_w, lock, panicked, chip>>

\* Mutant: wakes nobody.
start_take_silent(p) ==
  /\ pc[p] = "start"
  /\ ~Empty /\ Idle
  /\ c' = [c EXCEPT ![p] = uart_tx_buf[uart_tx_r % UART_TX_BUF_SIZE]]
  /\ uart_tx_r' = Uint(uart_tx_r + 1)
  /\ GoTo(p, "send")
  /\ UNCHANGED <<uart_tx_buf, uart_tx_w, lock, panicked, chip>>

\* A byte leaves the buffer, with wakeup(&uart_tx_r)...
start_take(p) ==
  /\ pc[p] = "start"
  /\ ~Empty /\ Idle
  /\ c' = [c EXCEPT ![p] = uart_tx_buf[uart_tx_r % UART_TX_BUF_SIZE]]
  /\ uart_tx_r' = Uint(uart_tx_r + 1)
  /\ pc' = [[q \in Users \cup Echoes |-> IF pc[q] = "asleep" THEN "again" ELSE pc[q]]
              EXCEPT ![p] = "send"]
  /\ UNCHANGED <<uart_tx_buf, uart_tx_w, lock, panicked, chip>>

\* ... and goes to the chip.
start_send(p) ==
  /\ pc[p] = "send"
  /\ WriteTHR(c[p])
  /\ GoTo(p, "start")
  /\ UNCHANGED <<tx, lock, panicked, c>>

-----------------------------------------------------------------------------
(* uartputc_sync(). *)

\* The status says idle; a CPU that finds panicked set spins for ever.
sync_idle(q) ==
  /\ pc[q] = "out"
  /\ ~panicked
  /\ Idle
  /\ GoTo(q, "sync")
  /\ UNCHANGED <<tx, lock, panicked, c, chip>>

sync_send(q) ==
  /\ pc[q] = "sync"
  /\ WriteTHR(Echo)
  /\ GoTo(q, "out")
  /\ UNCHANGED <<tx, lock, panicked, c>>

-----------------------------------------------------------------------------
\* The chip sends a byte; it interrupts when that was the last.
transmit ==
  /\ fifo # <<>>
  /\ fifo' = Tail(fifo)
  /\ thri' = (thri \/ Len(fifo) = 1)
  /\ UNCHANGED <<tx, lock, panicked, pc, c>>

\* panic(), on a CPU outside this code.
panic ==
  /\ ~panicked
  /\ panicked' = TRUE
  /\ UNCHANGED <<tx, lock, pc, c, chip>>

-----------------------------------------------------------------------------
Step(p) ==
  \/ start_empty(p) \/ start_busy(p) \/ start_take(p) \/ start_send(p)
  \/ /\ p \in Writers
     /\ put_panicked(p) \/ put_sleep(p) \/ put_store(p)

Next ==
  \/ \E p \in Users : Step(p)
  \/ \E p \in Writers, b \in Bytes : consolewrite(p, b)
  \/ uartintr \/ transmit \/ panic
  \/ \E q \in Echoes : sync_idle(q) \/ sync_send(q)
  \/ panicked /\ UNCHANGED vars

Spec == Init /\ [][Next]_vars

\* The chip sends, pending interrupts are taken, and a CPU in this code goes
\* on; it gets the lock when it tries again and again.
FairSpec ==
  /\ Spec
  /\ WF_vars(transmit)
  /\ SF_vars(uartintr)
  /\ \A p \in Users : SF_vars(Step(p))
  /\ \A q \in Echoes : WF_vars(sync_send(q))

-----------------------------------------------------------------------------
(* Properties. *)

\* What write() has sent and the chip has not: the chip's FIFO, the byte on
\* its way to it, and the buffer.
Pending ==
  LET Written(b) == b # Echo
      OnItsWay == {p \in Users : pc[p] = "send"}
  IN  SelectSeq(fifo, Written)
      \o (IF OnItsWay = {} THEN <<>> ELSE <<c[CHOOSE p \in OnItsWay : TRUE]>>)
      \o [j \in 1 .. Uint(uart_tx_w - uart_tx_r) |->
            uart_tx_buf[Uint(uart_tx_r + j - 1) % UART_TX_BUF_SIZE]]

F == INSTANCE Fifo WITH
  Capacity <- UART_TX_BUF_SIZE + FIFOSIZE + 1,
  queue <- Pending,
  readers <- TRUE, writers <- TRUE, eof <- FALSE

\* What processes write to the console is sent in the order written, nothing
\* lost or doubled, also when uartputc_sync() writes to the chip between two
\* register accesses of uartstart(): both may see it idle, but there are
\* fewer CPUs than places in its FIFO.
ImplementsFifo == F!FifoSpec

\* A byte in the buffer goes to the chip, and a writer that sleeps for space
\* is woken, unless the kernel panics or keeps the chip busy with its own
\* messages for ever.
OutputMoves ==
  <>[][\A q \in Echoes : ~sync_send(q)]_vars =>
    /\ \A k \in 0 .. 2 ^ W - 1 :
         (uart_tx_r = k /\ ~Empty) ~> (uart_tx_r # k \/ panicked)
    /\ \A p \in Writers : pc[p] = "asleep" ~> (pc[p] # "asleep" \/ panicked)

=============================================================================
