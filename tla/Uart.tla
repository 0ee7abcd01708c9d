-------------------------------- MODULE Uart --------------------------------
(***************************************************************************)
(* The receive side of the emulated UART: characters typed at the host go  *)
(* through the host's stdin (a file descriptor, then stdio's buffer), the  *)
(* getchar callback of emu/main.c, which asks select whether the           *)
(* descriptor is readable before it calls getchar, and the one-character   *)
(* buffer of the peripheral, which the guest polls through the FLAG and    *)
(* DATA registers.  Characters are numbered in the order they are typed.   *)
(***************************************************************************)
EXTENDS Integers, Sequences, SequencesExt

CONSTANTS
    Typed,      \* characters typed in all (bounds the run)
    StdioSize   \* characters stdio reads at once

ASSUME UartAssumption == Typed \in Nat /\ StdioSize \in Nat \ {0}

EOF == 0        \* -1 in the code; never a character number

VARIABLES
    typed,      \* characters typed so far
    closed,     \* stdin is at its end
    fd,         \* characters waiting in the descriptor
    stdio,      \* characters in stdio's buffer
    bufferedChar,  \* u->buffered_char
    got,        \* history: the characters the guest has read from DATA
    rxav        \* history: FLAG showed RXAV and DATA was not read since

uartVars == <<typed, closed, fd, stdio, bufferedChar, got, rxav>>

\* A line arrives, or several at once: the terminal hands over whole lines.
Type(k) ==
    /\ ~closed
    /\ typed + k <= Typed
    /\ fd' = fd \o [i \in 1 .. k |-> typed + i]
    /\ typed' = typed + k
    /\ UNCHANGED <<closed, stdio, bufferedChar, got, rxav>>

Close == ~closed /\ closed' = TRUE
         /\ UNCHANGED <<typed, fd, stdio, bufferedChar, got, rxav>>

-----------------------------------------------------------------------------
(* uart_getchar (emu/main.c)                                               *)

\* A plausible bug: the end of the file is not taken for readable.
ReadableIfData == fd # <<>>

\* select: there is something to read, or the end of the file to report.
Readable == fd # <<>> \/ closed

Taken == SubSeq(fd, 1, IF Len(fd) < StdioSize THEN Len(fd) ELSE StdioSize)

\* stdio's buffer once getchar has looked into it: refilled only when empty.
Refilled == IF stdio # <<>> THEN stdio ELSE Taken

\* The character the callback returns, and what it leaves behind.
GetChar == IF Readable /\ Refilled # <<>> THEN Head(Refilled) ELSE EOF

Consume ==
    IF ~Readable \/ Refilled = <<>> THEN UNCHANGED <<fd, stdio>>
    ELSE /\ stdio' = Tail(Refilled)
         /\ fd' = IF stdio # <<>> THEN fd ELSE SubSeq(fd, Len(Taken) + 1, Len(fd))

\* A plausible bug: the callback is called though a character is buffered.
FetchAlways == Consume

\* "if (u->buffered_char==EOF) u->buffered_char=u->getchar_cb()"
Char == IF bufferedChar = EOF THEN GetChar ELSE bufferedChar
Fetch == IF bufferedChar = EOF THEN Consume ELSE UNCHANGED <<fd, stdio>>

-----------------------------------------------------------------------------
(* uart_read_fn                                                            *)

ReadFlag ==
    /\ Fetch
    /\ bufferedChar' = Char
    /\ rxav' = (Char # EOF)
    /\ UNCHANGED <<typed, closed, got>>

\* Without a character DATA reads as 0xff, which the guest cannot tell from one.
ReadData ==
    /\ Fetch
    /\ bufferedChar' = EOF
    /\ rxav' = FALSE
    /\ got' = IF Char = EOF THEN got ELSE Append(got, Char)
    /\ UNCHANGED <<typed, closed>>

-----------------------------------------------------------------------------
UartInit ==
    /\ typed = 0
    /\ closed = FALSE
    /\ fd = <<>>
    /\ stdio = <<>>
    /\ bufferedChar = EOF
    /\ got = <<>>
    /\ rxav = FALSE

UartNext ==
    \/ \E k \in 1 .. Typed : Type(k)
    \/ Close
    \/ ReadFlag
    \/ ReadData

UartSpec == UartInit /\ [][UartNext]_uartVars

\* A guest that polls: it keeps reading FLAG, and DATA when FLAG said so.
UartFairSpec == UartSpec /\ WF_uartVars(ReadFlag) /\ WF_uartVars(ReadData /\ rxav)

-----------------------------------------------------------------------------
UartTypeOK ==
    /\ typed \in 0 .. Typed
    /\ closed \in BOOLEAN
    /\ \A queue \in {fd, stdio, got} : queue \in Seq(1 .. Typed)
    /\ bufferedChar \in {EOF} \cup 1 .. Typed
    /\ rxav \in BOOLEAN

InFlight == (IF bufferedChar = EOF THEN <<>> ELSE <<bufferedChar>>) \o stdio \o fd

\* No character is lost, doubled or reordered across the three buffers, whatever
\* way the guest mixes reads of FLAG and DATA: what it got, then what is in
\* flight, is what was typed.
NothingLost == got \o InFlight = [i \in 1 .. typed |-> i]

\* RXAV keeps its word: once FLAG has shown it, the next read of DATA yields a
\* character and not the 0xff of an empty receiver.
RxavHonest == [][ReadData /\ rxav => Len(got') = Len(got) + 1]_uartVars

\* The end of the input makes stdin readable for good, so that a guest that polls
\* then receives every character, those stuck in stdio's buffer too.
EndDelivers == closed ~> got = [i \in 1 .. typed |-> i]
=============================================================================
