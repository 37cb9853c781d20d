---------------------------- MODULE ConsoleUart ----------------------------
(* The console's line editor and the UART driver (console.c, uart.c), over  *)
(* Harts.  The UART, its transmit FIFO and the keyboard are the device's    *)
(* side.  Characters are model values; echoed and written ones share the    *)
(* line to the terminal.                                                    *)
EXTENDS Harts, Integers

CONSTANTS
  INPUT_BUF_SIZE, UART_TX_BUF_SIZE,
  NL, CtrlD, CtrlU, BS,   \* '\n', ^D, ^U, backspace
  Erase                              \* what consputc(BACKSPACE) sends

ASSUME ConsoleAssumption ==
  /\ INPUT_BUF_SIZE \in Nat \ {0} /\ UART_TX_BUF_SIZE \in Nat \ {0}
  /\ CtrlU # BS /\ {NL, CtrlD} \cap {CtrlU, BS} = {}

VARIABLES
  cons,    \* the input ring and its three indices; and, to state properties, what readers took
  uart,    \* the output ring and its two indices; the FIFO and the received characters of the device
  keys,    \* what is still to be typed
  typed    \* what a line editor makes of the characters consoleintr() took, to state properties

EditMod == 2 * INPUT_BUF_SIZE    \* the width of the input indices; the code's 2^32 is a multiple of the size as well
TxMod == 2 * UART_TX_BUF_SIZE

ConsoleInit ==
  /\ cons = [ring |-> [k \in 0..(INPUT_BUF_SIZE - 1) |-> None], r |-> 0, w |-> 0, e |-> 0, taken |-> <<>>]
  /\ typed = [done |-> <<>>, line |-> <<>>]

(* uartinit(): the FIFOs are cleared, both interrupts are on. *)
UartInit ==
  uart = [ring |-> [k \in 0..(UART_TX_BUF_SIZE - 1) |-> None], r |-> 0, w |-> 0, fifo |-> <<>>, rx |-> <<>>]

Slot(k) == k % INPUT_BUF_SIZE
HeldFromLine == (cons.e + EditMod - cons.w) % EditMod         \* mutant: what nobody read yet is not counted
Held == (cons.e + EditMod - cons.r) % EditMod
Idle == uart.fifo = <<>>                       \* LSR_TX_IDLE
Before(k) == (k + EditMod - 1) % EditMod

----------------------------------------------------------------------------
(* consoleread(): a turn of the loop.  n is what is left of the request. *)
TakeChar(f, c) ==
  IF c = CtrlD
  THEN cons' = IF f.n < f.target THEN cons ELSE [cons EXCEPT !.r = (@ + 1) % EditMod, !.taken = Append(@, c)]
  ELSE cons' = [cons EXCEPT !.r = (@ + 1) % EditMod, !.taken = Append(@, c)]

ReadsOn(f, c) == c \notin {CtrlD, NL} /\ f.n > 1

ConsoleRead(h) ==
  /\ At(h, "consoleread")
  /\ \E f \in {Frame(h)} :
       \/ /\ cons.r = cons.w /\ proc[hart[h].proc].killed
          /\ Release(h, "cons", <<>>) /\ UNCHANGED <<cons, proc, ticks, panic>>
       \/ /\ cons.r = cons.w /\ ~proc[hart[h].proc].killed
          /\ Sleep(h, <<"line">>, "cons", proc, <<f>>) /\ UNCHANGED cons
       \/ /\ cons.r # cons.w
          /\ \E c \in {cons.ring[Slot(cons.r)]} :
               /\ TakeChar(f, c)
               /\ \/ ReadsOn(f, c) /\ Goto(h, <<[f EXCEPT !.n = @ - 1]>>) /\ UNCHANGED <<hart, lock>>
                  \/ ~ReadsOn(f, c) /\ Release(h, "cons", <<>>)
          /\ UNCHANGED <<proc, ticks, panic>>
  /\ UNCHANGED <<uart, keys, typed>>

----------------------------------------------------------------------------
(* uartputc_sync(): the caller spins until the FIFO is empty. *)
Echo(c) == Idle /\ uart' = [uart EXCEPT !.fifo = <<c>>]

(* uartstart(): the next character of the output ring goes to an idle UART. *)
Sends == Idle /\ uart.w # uart.r
Sent(u) == [u EXCEPT !.fifo = <<u.ring[u.r % UART_TX_BUF_SIZE]>>, !.r = (@ + 1) % TxMod]
UartStart(u) == IF u.fifo = <<>> /\ u.w # u.r THEN Sent(u) ELSE u

TxFull == uart.w = (uart.r + UART_TX_BUF_SIZE) % TxMod

UartPutc(h) ==
  /\ At(h, "putc")
  /\ \/ TxFull /\ Sleep(h, <<"tx">>, "uart", proc, <<Frame(h)>>) /\ UNCHANGED uart
     \/ /\ ~TxFull
        /\ uart' = UartStart([uart EXCEPT !.ring[uart.w % UART_TX_BUF_SIZE] = Frame(h).c, !.w = (@ + 1) % TxMod])
        /\ proc' = IF Idle THEN Woken(proc, <<"tx">>) ELSE proc
        /\ Release(h, "uart", <<>>) /\ UNCHANGED <<ticks, panic>>
  /\ UNCHANGED <<cons, keys, typed>>

(* uartintr(): the received characters one by one, then the output.  It     *)
(* next needs the lock and has the frames of the pair.                      *)
Received == [uart EXCEPT !.rx = IF @ = <<>> THEN @ ELSE Tail(@)]
UartNext ==
  IF uart.rx = <<>> THEN <<"uart", <<Plain("start")>>>>
  ELSE <<"cons", <<[at |-> "consoleintr", c |-> Head(uart.rx)], Plain("uartintr")>>>>

UartIntr(h) ==
  /\ At(h, "uartintr")
  /\ Acquire(h, UartNext[1], UartNext[2]) /\ uart' = Received
  /\ UNCHANGED <<cons, keys, typed>>

UartIntrStart(h) ==
  /\ At(h, "start")
  /\ uart' = UartStart(uart)
  /\ proc' = IF Sends THEN Woken(proc, <<"tx">>) ELSE proc
  /\ TrapReturn(h, "uart")
  /\ UNCHANGED <<ticks, panic, cons, keys, typed>>

----------------------------------------------------------------------------
(* A line editor without a ring: the complete lines, and the one being typed,  *)
(* which is complete as well when it fills the ring.                           *)
Edited(s, c, full) ==
  CASE c = BS -> [s EXCEPT !.line = IF @ = <<>> THEN @ ELSE SubSeq(@, 1, Len(@) - 1)]
    [] c = CtrlU -> [s EXCEPT !.line = <<>>]
    [] c \in {NL, CtrlD} \/ full -> [done |-> s.done \o Append(s.line, c), line |-> <<>>]
    [] OTHER -> [s EXCEPT !.line = Append(@, c)]

(* consoleintr() with cons.lock held: one character. *)
Erasable == cons.e # cons.w
Erased == [cons EXCEPT !.e = Before(@)]

KillLine(h) ==
  /\ At(h, "consoleintr") /\ Frame(h).c = CtrlU
  /\ IF Erasable /\ cons.ring[Slot(Before(cons.e))] # NL
     THEN /\ Echo(Erase) /\ cons' = Erased
          /\ UNCHANGED <<hart, lock, stack, typed>>
     ELSE /\ Release(h, "cons", <<>>) /\ typed' = Edited(typed, CtrlU, FALSE)
          /\ UNCHANGED <<cons, uart>>
  /\ UNCHANGED <<proc, ticks, panic, keys>>

Backspace(h) ==
  /\ At(h, "consoleintr") /\ Frame(h).c = BS
  /\ IF Erasable THEN Echo(Erase) /\ cons' = Erased ELSE UNCHANGED <<cons, uart>>
  /\ Release(h, "cons", <<>>) /\ typed' = Edited(typed, BS, FALSE)
  /\ UNCHANGED <<proc, ticks, panic, keys>>

Stored(c) == [cons EXCEPT !.ring[Slot(cons.e)] = c, !.e = (@ + 1) % EditMod]
EndsLine(c) == c \in {NL, CtrlD} \/ Held + 1 = INPUT_BUF_SIZE

Character(h) ==
  /\ At(h, "consoleintr") /\ Frame(h).c \notin {CtrlU, BS}
  /\ \E c \in {Frame(h).c} :
       IF Held < INPUT_BUF_SIZE
       THEN /\ Echo(c)
            /\ typed' = Edited(typed, c, Held + 1 = INPUT_BUF_SIZE)
            /\ cons' = IF EndsLine(c) THEN [Stored(c) EXCEPT !.w = (cons.e + 1) % EditMod] ELSE Stored(c)
            /\ proc' = IF EndsLine(c) THEN Woken(proc, <<"line">>) ELSE proc
       ELSE UNCHANGED <<uart, typed, cons, proc>>
  /\ Release(h, "cons", <<>>)
  /\ UNCHANGED <<ticks, panic, keys>>

ConsoleStep(h) ==
  \/ ConsoleRead(h) \/ UartPutc(h) \/ UartIntr(h)
  \/ KillLine(h) \/ Backspace(h) \/ Character(h)
=============================================================================
