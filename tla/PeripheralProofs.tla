-------------------------- MODULE PeripheralProofs --------------------------
(***************************************************************************)
(* Proofs about the guest's peripherals: modules Uart, Display, Sprites    *)
(* and Backgrounds, for any amount of input, size of stdio's buffer,       *)
(* number of lines of a frame, number of driver calls, list of sprites,    *)
(* map, screen and position.                                               *)
(***************************************************************************)
EXTENDS Display, Uart, Sprites, SequenceTheorems, WellFoundedInduction, TLAPS

-----------------------------------------------------------------------------
(* The UART's three buffers.                                               *)

Character == 1 .. Typed

\* The peripheral's buffer as a sequence.
Held(char) == IF char = EOF THEN <<>> ELSE <<char>>

\* RXAV was shown for a character that is still in the peripheral's buffer.
RxavBacked == rxav => bufferedChar # EOF

UartIInv == UartTypeOK /\ NothingLost /\ RxavBacked

LEMMA UartTypes ==
    ASSUME UartTypeOK
    PROVE  /\ fd \in Seq(Character) /\ stdio \in Seq(Character) /\ got \in Seq(Character)
           /\ bufferedChar \in Character \cup {EOF}
    BY DEF UartTypeOK, Character

LEMMA HeldType ==
    ASSUME NEW char \in Character \cup {EOF}
    PROVE  Held(char) \in Seq(Character)
    BY DEF Held

\* A sequence cut in two.
LEMMA CutInTwo ==
    ASSUME NEW S, NEW s \in Seq(S), NEW k \in 0 .. Len(s)
    PROVE  /\ SubSeq(s, 1, k) \in Seq(S)
           /\ SubSeq(s, k + 1, Len(s)) \in Seq(S)
           /\ Len(SubSeq(s, 1, k)) = k
           /\ SubSeq(s, 1, k) \o SubSeq(s, k + 1, Len(s)) = s
<1>1. Len(s) \in Nat /\ \A i \in 1 .. Len(s) : s[i] \in S
    BY LenProperties, ElementOfSeq
<1>2. SubSeq(s, 1, k) \in Seq(S) /\ Len(SubSeq(s, 1, k)) = k
    <2>1. \A i \in 1 .. k : s[i] \in S
        BY <1>1
    <2> QED
        BY <1>1, <2>1, SubSeqProperties
<1>3. SubSeq(s, k + 1, Len(s)) \in Seq(S)
    <2>1. \A i \in k + 1 .. Len(s) : s[i] \in S
        BY <1>1
    <2> QED
        BY <1>1, <2>1, SubSeqProperties
<1>4. SubSeq(s, 1, k) \o SubSeq(s, k + 1, Len(s)) = SubSeq(s, 1, Len(s))
    <2>1. 1 \in 1 .. Len(s) + 1 /\ k \in 1 - 1 .. Len(s) /\ Len(s) \in k .. Len(s)
        BY <1>1
    <2> QED
        BY <2>1, ConcatAdjacentSubSeq
<1>5. SubSeq(s, 1, Len(s)) = s
    BY SubSeqFull
<1> QED
    BY <1>2, <1>3, <1>4, <1>5

LEMMA HeadThenTail ==
    ASSUME NEW S, NEW s \in Seq(S), s # <<>>
    PROVE  <<Head(s)>> \o Tail(s) = s /\ Head(s) \in S /\ Tail(s) \in Seq(S)
<1>1. Len(s) \in Nat \ {0}
    BY EmptySeq
<1>2. SubSeq(s, 1, Len(s)) = <<s[1]>> \o SubSeq(s, 2, Len(s))
    BY <1>1, SubSeqRecursiveFirst
<1>3. SubSeq(s, 1, Len(s)) = s /\ Tail(s) = SubSeq(s, 2, Len(s))
    BY SubSeqFull, TailIsSubSeq
<1>4. Head(s) = s[1]
    BY <1>1, <1>3, HeadTailOfSubSeq
<1> QED
    BY <1>2, <1>3, <1>4, HeadTailProperties

\* What select and stdio do to the characters: the one handed over was the first.
LEMMA RefilledKeeps ==
    ASSUME UartTypeOK, Consume, bufferedChar = EOF
    PROVE  /\ GetChar \in Character \cup {EOF}
           /\ stdio' \in Seq(Character) /\ fd' \in Seq(Character)
           /\ (Held(GetChar) \o stdio') \o fd' = stdio \o fd
<1>1. fd \in Seq(Character) /\ stdio \in Seq(Character)
    BY UartTypes
<1>2. CASE ~Readable \/ Refilled = <<>>
    BY <1>1, <1>2, ConcatEmptySeq DEF Consume, GetChar, Held, EOF
<1>3. CASE Readable /\ Refilled # <<>>
    <2>1. stdio' = Tail(Refilled) /\ GetChar = Head(Refilled)
            /\ fd' = IF stdio # <<>> THEN fd ELSE SubSeq(fd, Len(Taken) + 1, Len(fd))
        BY <1>3 DEF Consume, GetChar
    <2>2. Refilled \in Seq(Character) /\ fd' \in Seq(Character)
            /\ Refilled \o fd' = stdio \o fd
        <3>1. CASE stdio # <<>>
            BY <1>1, <2>1, <3>1 DEF Refilled
        <3>2. CASE stdio = <<>>
            <4> DEFINE k == IF Len(fd) < StdioSize THEN Len(fd) ELSE StdioSize
            <4>1. k \in 0 .. Len(fd)
                BY <1>1, LenProperties, UartAssumption
            <4>2. Taken = SubSeq(fd, 1, k)
                BY DEF Taken
            <4> HIDE DEF k
            <4>3. /\ Taken \in Seq(Character) /\ Len(Taken) = k
                  /\ SubSeq(fd, k + 1, Len(fd)) \in Seq(Character)
                  /\ Taken \o SubSeq(fd, k + 1, Len(fd)) = fd
                BY <1>1, <4>1, <4>2, CutInTwo
            <4>4. Refilled = Taken
                BY <3>2 DEF Refilled
            <4>5. stdio \o fd = fd
                BY <1>1, <3>2, ConcatEmptySeq
            <4> QED
                BY <2>1, <3>2, <4>3, <4>4, <4>5
        <3> QED
            BY <3>1, <3>2
    <2>3. /\ <<Head(Refilled)>> \o Tail(Refilled) = Refilled
          /\ Head(Refilled) \in Character /\ Tail(Refilled) \in Seq(Character)
        BY <1>3, <2>2, HeadThenTail
    <2>4. Held(GetChar) = <<Head(Refilled)>>
        BY <2>1, <2>3, UartAssumption DEF Held, EOF, Character
    <2> QED
        BY <2>1, <2>2, <2>3, <2>4
<1> QED
    BY <1>2, <1>3

\* A read of FLAG or DATA brings at most one character forward.
LEMMA FetchKeeps ==
    ASSUME UartTypeOK, Fetch
    PROVE  /\ Char \in Character \cup {EOF}
           /\ stdio' \in Seq(Character) /\ fd' \in Seq(Character)
           /\ (Held(Char) \o stdio') \o fd' = InFlight
<1>1. fd \in Seq(Character) /\ stdio \in Seq(Character)
        /\ bufferedChar \in Character \cup {EOF}
    BY UartTypes
<1>2. InFlight = (Held(bufferedChar) \o stdio) \o fd
    BY DEF InFlight, Held
<1>3. CASE bufferedChar = EOF
    <2>1. Held(bufferedChar) \o stdio = stdio
        BY <1>1, <1>3, ConcatEmptySeq DEF Held
    <2>2. Consume /\ Char = GetChar
        BY <1>3 DEF Fetch, Char
    <2> QED
        BY <1>2, <1>3, <2>1, <2>2, RefilledKeeps
<1>4. CASE bufferedChar # EOF
    BY <1>1, <1>2, <1>4 DEF Fetch, Char
<1> QED
    BY <1>3, <1>4

LEMMA UartTypeAgain ==
    ASSUME fd \in Seq(Character), stdio \in Seq(Character), got \in Seq(Character),
           bufferedChar \in Character \cup {EOF}, typed \in 0 .. Typed,
           closed \in BOOLEAN, rxav \in BOOLEAN
    PROVE  UartTypeOK
    BY DEF UartTypeOK, Character

\* A line of k characters is numbered on from those typed before it.
LEMMA LineNumbered ==
    ASSUME NEW t \in Nat, NEW k \in Nat, t + k <= Typed
    PROVE  /\ [i \in 1 .. k |-> t + i] \in Seq(Character)
           /\ [i \in 1 .. t |-> i] \o [i \in 1 .. k |-> t + i] = [i \in 1 .. t + k |-> i]
<1>1. [i \in 1 .. k |-> t + i] \in [1 .. k -> Character]
    BY UartAssumption DEF Character
<1>2. [i \in 1 .. k |-> t + i] \in Seq(Character)
    BY <1>1, SeqDef
<1>3. [i \in 1 .. t |-> i] \in Seq(Nat) /\ [i \in 1 .. k |-> t + i] \in Seq(Nat)
        /\ [i \in 1 .. t + k |-> i] \in Seq(Nat)
    BY SeqDef
<1>4. Len([i \in 1 .. t |-> i]) = t /\ Len([i \in 1 .. k |-> t + i]) = k
        /\ Len([i \in 1 .. t + k |-> i]) = t + k
    OBVIOUS
<1> DEFINE both == [i \in 1 .. t |-> i] \o [i \in 1 .. k |-> t + i]
<1>5. both \in Seq(Nat) /\ Len(both) = t + k
    BY <1>3, <1>4, ConcatProperties
<1>6. \A i \in 1 .. t + k : both[i] = [j \in 1 .. t + k |-> j][i]
    BY <1>3, <1>4, ConcatProperties
<1>7. both = [i \in 1 .. t + k |-> i]
    BY <1>3, <1>4, <1>5, <1>6, SeqEqual
<1> QED
    BY <1>2, <1>7

LEMMA TypeKeeps ==
    ASSUME UartIInv, NEW k \in 1 .. Typed, Type(k)
    PROVE  UartIInv'
<1>1. fd \in Seq(Character) /\ stdio \in Seq(Character) /\ got \in Seq(Character)
        /\ bufferedChar \in Character \cup {EOF}
    BY UartTypes DEF UartIInv
<1>2. typed \in Nat /\ k \in Nat /\ typed + k <= Typed
    BY UartAssumption DEF UartIInv, UartTypeOK, Type
<1> DEFINE line == [i \in 1 .. k |-> typed + i]
<1>3. line \in Seq(Character)
        /\ [i \in 1 .. typed |-> i] \o line = [i \in 1 .. typed + k |-> i]
    BY <1>2, LineNumbered
<1> HIDE DEF line
<1>4. fd' = fd \o line /\ typed' = typed + k
        /\ UNCHANGED <<closed, stdio, bufferedChar, got, rxav>>
    BY DEF Type, line
<1>5. fd' \in Seq(Character)
    BY <1>1, <1>3, <1>4, ConcatProperties
<1>6. UartTypeOK'
    BY <1>1, <1>2, <1>4, <1>5 DEF UartIInv, UartTypeOK, Character
<1>7. InFlight' = InFlight \o line /\ InFlight \in Seq(Character)
    <2> DEFINE front == Held(bufferedChar) \o stdio
    <2>1. InFlight = front \o fd
        BY DEF InFlight, Held
    <2>2. InFlight' = front \o (fd \o line)
        BY <1>4 DEF InFlight, Held
    <2>3. front \in Seq(Character)
        BY <1>1, HeldType, ConcatProperties
    <2> HIDE DEF front
    <2>4. InFlight \in Seq(Character)
        BY <1>1, <2>1, <2>3, ConcatProperties
    <2>5. (front \o fd) \o line = front \o (fd \o line)
        BY <1>1, <1>3, <2>3, ConcatAssociative
    <2> QED
        BY <2>1, <2>2, <2>4, <2>5
<1>8. got \o InFlight' = (got \o InFlight) \o line
    <2>1. InFlight \in Seq(Character) /\ line \in Seq(Character)
        BY <1>3, <1>7
    <2>2. (got \o InFlight) \o line = got \o (InFlight \o line)
        BY <1>1, <2>1, ConcatAssociative
    <2> QED
        BY <1>7, <2>2
<1>9. NothingLost'
    BY <1>3, <1>4, <1>8 DEF UartIInv, NothingLost
<1> QED
    BY <1>4, <1>6, <1>9 DEF UartIInv, RxavBacked

LEMMA ReadFlagKeeps ==
    ASSUME UartIInv, ReadFlag
    PROVE  UartIInv'
<1>1. /\ Char \in Character \cup {EOF}
      /\ stdio' \in Seq(Character) /\ fd' \in Seq(Character)
      /\ (Held(Char) \o stdio') \o fd' = InFlight
    BY FetchKeeps DEF UartIInv, ReadFlag
<1>2. bufferedChar' = Char /\ rxav' = (Char # EOF) /\ UNCHANGED <<typed, closed, got>>
    BY DEF ReadFlag
<1>3. UartTypeOK'
    BY <1>1, <1>2 DEF UartIInv, UartTypeOK, Character
<1>4. InFlight' = InFlight
    BY <1>1, <1>2 DEF InFlight, Held
<1> QED
    BY <1>2, <1>3, <1>4 DEF UartIInv, NothingLost, RxavBacked

LEMMA ReadDataKeeps ==
    ASSUME UartIInv, ReadData
    PROVE  UartIInv'
<1>1. /\ Char \in Character \cup {EOF}
      /\ stdio' \in Seq(Character) /\ fd' \in Seq(Character)
      /\ (Held(Char) \o stdio') \o fd' = InFlight
    BY FetchKeeps DEF UartIInv, ReadData
<1>2. bufferedChar' = EOF /\ rxav' = FALSE /\ UNCHANGED <<typed, closed>>
    BY DEF ReadData
<1>3. got \in Seq(Character)
    BY UartTypes DEF UartIInv
<1>4. got' = got \o Held(Char)
    <2>1. CASE Char = EOF
        BY <1>3, <2>1, ConcatEmptySeq DEF ReadData, Held
    <2>2. CASE Char # EOF
        BY <1>1, <1>3, <2>2, AppendIsConcat DEF ReadData, Held
    <2> QED
        BY <2>1, <2>2
<1>5. Held(Char) \in Seq(Character)
    BY <1>1, HeldType
<1>6. got' \in Seq(Character)
    BY <1>3, <1>4, <1>5, ConcatProperties
<1>7. InFlight' = stdio' \o fd'
    BY <1>1, <1>2, ConcatEmptySeq DEF InFlight
<1>8. got' \o InFlight' = got \o InFlight
    <2>1. /\ Held(Char) \in Seq(Character)
          /\ stdio' \in Seq(Character) /\ fd' \in Seq(Character)
        BY <1>1, <1>5
    <2>2. (Held(Char) \o stdio') \o fd' = Held(Char) \o (stdio' \o fd')
        BY <2>1, ConcatAssociative
    <2> DEFINE back == stdio' \o fd'
    <2>3. back \in Seq(Character)
        BY <2>1, ConcatProperties
    <2>4. Held(Char) \o back = InFlight /\ InFlight' = back
        BY <1>1, <1>7, <2>2
    <2> HIDE DEF back
    <2>5. (got \o Held(Char)) \o back = got \o (Held(Char) \o back)
        BY <1>3, <1>5, <2>3, ConcatAssociative
    <2> QED
        BY <1>4, <2>4, <2>5
<1>9. UartTypeOK'
    BY <1>1, <1>2, <1>6 DEF UartIInv, UartTypeOK, Character
<1> QED
    BY <1>2, <1>8, <1>9 DEF UartIInv, NothingLost, RxavBacked

LEMMA UartInitInv == UartInit => UartIInv
<1> SUFFICES ASSUME UartInit PROVE UartIInv
    OBVIOUS
<1>1. UartTypeOK
    <2>1. <<>> \in Seq(Character)
        BY EmptySeq
    <2>2. typed \in 0 .. Typed
        BY UartAssumption DEF UartInit
    <2> QED
        BY <2>1, <2>2, UartTypeAgain DEF UartInit
<1>2. NothingLost
    <2>1. <<>> \in Seq(Character) /\ <<>> \o <<>> = <<>>
        BY EmptySeq, ConcatEmptySeq
    <2>3. got \o InFlight = <<>>
        BY <2>1 DEF UartInit, InFlight
    <2>2. [i \in 1 .. typed |-> i] = <<>>
        <3>1. [i \in 1 .. 0 |-> i] \in Seq(Nat) /\ Len([i \in 1 .. 0 |-> i]) = 0
            BY SeqDef
        <3> QED
            BY <3>1, EmptySeq DEF UartInit
    <2> QED
        BY <2>2, <2>3 DEF NothingLost
<1> QED
    BY <1>1, <1>2 DEF UartInit, UartIInv, RxavBacked

LEMMA UartStepInv == UartIInv /\ [UartNext]_uartVars => UartIInv'
<1> SUFFICES ASSUME UartIInv, [UartNext]_uartVars PROVE UartIInv'
    OBVIOUS
<1>1. ASSUME NEW k \in 1 .. Typed, Type(k) PROVE UartIInv'
    BY <1>1, TypeKeeps
<1>2. CASE Close \/ UNCHANGED uartVars
    <2>1. UNCHANGED <<typed, fd, stdio, bufferedChar, got, rxav>>
        BY <1>2 DEF Close, uartVars
    <2>2. closed' \in BOOLEAN
        BY <1>2 DEF Close, uartVars, UartIInv, UartTypeOK
    <2>3. UartTypeOK'
        BY <2>1, <2>2 DEF UartIInv, UartTypeOK
    <2> QED
        BY <2>1, <2>3 DEF UartIInv, NothingLost, InFlight, RxavBacked
<1>3. CASE ReadFlag
    BY <1>3, ReadFlagKeeps
<1>4. CASE ReadData
    BY <1>4, ReadDataKeeps
<1> QED
    BY <1>1, <1>2, <1>3, <1>4 DEF UartNext

\* No character is lost, doubled or reordered on its way through the descriptor,
\* stdio's buffer and the peripheral's, for any of their sizes.
THEOREM NoCharacterLost == UartSpec => []NothingLost
<1>1. UartIInv => NothingLost
    BY DEF UartIInv
<1> QED
    BY <1>1, UartInitInv, UartStepInv, PTL DEF UartSpec

\* A read of DATA after FLAG showed RXAV yields a character.
THEOREM RxavIsHonest == UartSpec => RxavHonest
<1>1. UartIInv /\ [UartNext]_uartVars
        => [ReadData /\ rxav => Len(got') = Len(got) + 1]_uartVars
    <2> SUFFICES ASSUME UartIInv, ReadData, rxav
                 PROVE  Len(got') = Len(got) + 1
        OBVIOUS
    <2>1. bufferedChar # EOF /\ bufferedChar \in Character /\ got \in Seq(Character)
        BY UartTypes DEF UartIInv, RxavBacked
    <2>2. got' = Append(got, bufferedChar)
        BY <2>1 DEF ReadData, Char
    <2> QED
        BY <2>1, <2>2, AppendProperties
<1> QED
    BY <1>1, UartInitInv, UartStepInv, PTL DEF UartSpec, RxavHonest

-----------------------------------------------------------------------------
(* The display: types.                                                     *)

\* The line after line l.
After(l) == IF l = Lines - 1 THEN 0 ELSE l + 1

LEMMA AfterIsNext ==
    ASSUME NEW l \in 0 .. Lines - 1
    PROVE  (l + 1) % Lines = After(l) /\ After(l) \in 0 .. Lines - 1
    BY DisplayAssumption DEF After

LEMMA CallTypes ==
    ASSUME NEW call \in DriverCalls
    PROVE  call \in Seq(Reg) /\ Len(call) \in 1 .. 3
<1>1. Written(call) \subseteq Reg
    BY DEF Reg
<1>2. call \in Seq(Written(call)) /\ Len(call) \in 1 .. 3
    BY DEF DriverCalls, FbSetMem, FbSetScroll, BgndSetMap, BgndSetGfx, BgndSetScroll,
           SpriteSetMem, Written
<1> QED
    BY <1>1, <1>2, SeqMonotonic

LEMMA TodoTypes ==
    ASSUME todo \in Seq(Reg), todo # <<>>
    PROVE  /\ Head(todo) \in Reg /\ Tail(todo) \in Seq(Reg)
           /\ Len(todo) \in Nat \ {0} /\ Len(Tail(todo)) = Len(todo) - 1
    BY HeadTailProperties, EmptySeq

\* The numbers among the types.
LEMMA DisplayRanges ==
    ASSUME DisplayTypeOK
    PROVE  /\ y \in 0 .. Lines - 1 /\ last \in 0 .. Lines - 1 /\ drawn \in 0 .. Lines
           /\ steps \in 0 .. LineSteps /\ calls \in 0 .. Updates
           /\ Lines \in Nat /\ Lines >= 2 /\ LineSteps \in Nat /\ LineSteps >= 1
           /\ Updates \in Nat
<1>1. y \in 0 .. Lines - 1 /\ last \in 0 .. Lines - 1 /\ drawn \in 0 .. Lines
        /\ steps \in 0 .. LineSteps /\ calls \in 0 .. Updates
    BY DEF DisplayTypeOK
<1>2. Lines \in Nat /\ Lines >= 2 /\ LineSteps \in Nat /\ LineSteps >= 1 /\ Updates \in Nat
    BY DisplayAssumption
<1> QED
    BY <1>1, <1>2

\* An access to a register takes one from the slice.
LEMMA AccessSpends ==
    ASSUME DisplayTypeOK, Guest, steps' = steps - 1
    PROVE  steps' \in 0 .. LineSteps
    BY DisplayRanges DEF Guest

LEMMA DisplayInitType == DisplayInit => DisplayTypeOK
<1> SUFFICES ASSUME DisplayInit PROVE DisplayTypeOK
    OBVIOUS
<1>1. y \in 0 .. Lines - 1 /\ last \in 0 .. Lines - 1 /\ steps \in 0 .. LineSteps
        /\ calls \in 0 .. Updates /\ drawn \in 0 .. Lines
    BY DisplayAssumption DEF DisplayInit
<1>2. reg \in [Reg -> 0 .. Updates] /\ snap \in [Reg -> 0 .. Updates]
    BY DisplayAssumption DEF DisplayInit
<1>3. todo \in Seq(Reg)
    BY EmptySeq DEF DisplayInit
<1> QED
    BY <1>1, <1>2, <1>3 DEF DisplayInit, DisplayTypeOK

LEMMA DisplayStepType == DisplayTypeOK /\ [DisplayNext]_displayVars => DisplayTypeOK'
<1> SUFFICES ASSUME DisplayTypeOK, [DisplayNext]_displayVars PROVE DisplayTypeOK'
    OBVIOUS
<1>1. CASE Compute
    <2>1. steps' \in 0 .. LineSteps
        BY <1>1, DisplayRanges DEF Compute, Idle, Guest
    <2> QED
        BY <1>1, <2>1 DEF Compute, DisplayTypeOK
<1>2. ASSUME NEW call \in DriverCalls, Start(call) PROVE DisplayTypeOK'
    <2>1. todo' \in Seq(Reg)
        BY <1>2, CallTypes DEF Start
    <2>2. calls' \in 0 .. Updates
        BY <1>2, DisplayRanges DEF Start
    <2> QED
        BY <1>2, <2>1, <2>2 DEF Start, DisplayTypeOK
<1>3. CASE WriteReg
    <2>1. Head(todo) \in Reg /\ todo' \in Seq(Reg)
        BY <1>3, TodoTypes DEF WriteReg, DisplayTypeOK
    <2>2. reg' \in [Reg -> 0 .. Updates]
        BY <1>3, <2>1 DEF WriteReg, DisplayTypeOK
    <2>3. steps' \in 0 .. LineSteps
        BY <1>3, AccessSpends DEF WriteReg
    <2> QED
        BY <1>3, <2>1, <2>2, <2>3 DEF WriteReg, DisplayTypeOK
<1>4. CASE CallWait
    BY <1>4 DEF CallWait, DisplayTypeOK
<1>5. CASE PollLastButOne
    <2>1. steps' \in 0 .. LineSteps
        BY <1>5, AccessSpends DEF PollLastButOne
    <2> QED
        BY <1>5, <2>1 DEF PollLastButOne, DisplayTypeOK
<1>6. CASE PollLast
    <2>1. steps' \in 0 .. LineSteps
        BY <1>6, AccessSpends DEF PollLast
    <2>2. drawn' = 0 \/ drawn' = drawn
        BY <1>6 DEF PollLast
    <2>3. drawn' \in 0 .. Lines
        BY <2>2, DisplayRanges
    <2>4. fresh' \in BOOLEAN
        BY <1>6 DEF PollLast, DisplayTypeOK
    <2> QED
        BY <1>6, <2>1, <2>3, <2>4 DEF PollLast, DisplayTypeOK
<1>7. CASE Render
    <2>1. y' \in 0 .. Lines - 1 /\ last' = y
        BY <1>7, AfterIsNext, DisplayRanges DEF Render
    <2>2. steps' \in 0 .. LineSteps
        BY <1>7, DisplayRanges DEF Render
    <2>3. drawn' \in 0 .. Lines
        BY <1>7, DisplayRanges DEF Render, Drawn
    <2>4. snap' \in [Reg -> 0 .. Updates]
        BY <1>7 DEF Render, Drawn, DisplayTypeOK
    <2>5. running' \in BOOLEAN
        BY <1>7 DEF Render
    <2> QED
        BY <1>7, <2>1, <2>2, <2>3, <2>4, <2>5 DEF Render, guestVars, DisplayTypeOK
<1>8. CASE UNCHANGED displayVars
    BY <1>8 DEF displayVars, guestVars, DisplayTypeOK
<1> QED
    BY <1>1, <1>2, <1>3, <1>4, <1>5, <1>6, <1>7, <1>8 DEF DisplayNext

-----------------------------------------------------------------------------
(* The display: what line is being drawn.                                  *)

\* The peripheral reports the line before the one whose slice runs; 0 at first.
Reported ==
    \/ y = After(last)
    \/ y = 0 /\ last = 0 /\ drawn = Lines

\* Fewer lines than a frame since gfx_wait_vbl returned: it returned for this frame.
Counted == drawn < Lines => y = drawn

\* gfx_wait_vbl's first loop lets it through on the line before the last, so that
\* the second ends no sooner than the frame.
Waited == pc = "until last" => drawn = Lines \/ (drawn = Lines - 1 /\ y = drawn)

FrameInv == Reported /\ Counted /\ Waited

LEMMA FrameInitInv == DisplayInit => FrameInv
<1> SUFFICES ASSUME DisplayInit PROVE FrameInv
    OBVIOUS
<1>1. y = 0 /\ last = 0 /\ drawn = Lines /\ pc = "elsewhere"
    BY DEF DisplayInit
<1> QED
    BY <1>1, DisplayAssumption DEF FrameInv, Reported, Counted, Waited

LEMMA FrameStepInv ==
    DisplayTypeOK /\ FrameInv /\ [DisplayNext]_displayVars => FrameInv'
<1> SUFFICES ASSUME DisplayTypeOK, FrameInv, [DisplayNext]_displayVars
             PROVE  FrameInv'
    OBVIOUS
<1>1. y \in 0 .. Lines - 1 /\ last \in 0 .. Lines - 1 /\ drawn \in 0 .. Lines
        /\ Lines \in Nat /\ Lines >= 2
    BY DisplayAssumption DEF DisplayTypeOK
<1>2. ASSUME UNCHANGED <<y, last, drawn>>, pc' = "until last" => pc = "until last"
      PROVE  FrameInv'
    BY <1>2 DEF FrameInv, Reported, After, Counted, Waited
<1>3. CASE PollLastButOne
    <2>1. UNCHANGED <<y, last, drawn>>
        BY <1>3 DEF PollLastButOne
    <2>2. CASE last = Lines - 2
        <3>1. y = Lines - 1 \/ drawn = Lines
            BY <1>1, <2>2 DEF FrameInv, Reported, After
        <3>2. drawn = Lines \/ (drawn = Lines - 1 /\ y = drawn)
            BY <1>1, <3>1 DEF FrameInv, Counted
        <3> QED
            BY <2>1, <3>2 DEF FrameInv, Reported, After, Counted, Waited
    <2>3. CASE last # Lines - 2
        BY <1>2, <1>3, <2>1, <2>3 DEF PollLastButOne
    <2> QED
        BY <2>2, <2>3
<1>4. CASE PollLast
    <2>1. CASE last = Lines - 1
        <3>1. y = 0 /\ UNCHANGED <<y, last>> /\ drawn' = 0 /\ pc' = "elsewhere"
            BY <1>1, <1>4, <2>1 DEF PollLast, FrameInv, Reported, After
        <3> QED
            BY <1>1, <2>1, <3>1 DEF FrameInv, Reported, After, Counted, Waited
    <2>2. CASE last # Lines - 1
        BY <1>2, <1>4, <2>2 DEF PollLast
    <2> QED
        BY <2>1, <2>2
<1>5. CASE Render
    <2>1. last' = y /\ y' = After(y) /\ pc' = pc
            /\ drawn' = IF drawn < Lines THEN drawn + 1 ELSE drawn
        BY <1>1, <1>5, AfterIsNext DEF Render, Drawn, guestVars
    <2>2. Reported'
        BY <2>1 DEF Reported, After
    <2>3. Counted'
        BY <1>1, <2>1 DEF FrameInv, Counted, After
    <2>4. Waited'
        <3>1. CASE drawn = Lines \/ drawn = Lines - 1
            <4>1. drawn' = Lines
                <5>1. drawn' = IF drawn < Lines THEN drawn + 1 ELSE drawn
                    BY <2>1
                <5> QED
                    BY <1>1, <3>1, <5>1
            <4> QED
                BY <4>1 DEF Waited
        <3>3. CASE pc # "until last"
            BY <2>1, <3>3 DEF Waited
        <3> QED
            BY <3>1, <3>3 DEF FrameInv, Waited
    <2> QED
        BY <2>2, <2>3, <2>4 DEF FrameInv
<1>6. CASE Compute \/ WriteReg \/ CallWait \/ UNCHANGED displayVars
    BY <1>2, <1>6 DEF Compute, WriteReg, CallWait, displayVars, guestVars
<1>7. ASSUME NEW call \in DriverCalls, Start(call) PROVE FrameInv'
    BY <1>2, <1>7 DEF Start
<1> QED
    BY <1>3, <1>4, <1>5, <1>6, <1>7 DEF DisplayNext

\* gfx_wait_vbl returns between two frames.
THEOREM WaitEndsAtFrame == DisplaySpec => ReturnsBetweenFrames
<1>1. DisplayTypeOK /\ FrameInv /\ [DisplayNext]_displayVars
        => [pc = "until last" /\ pc' = "elsewhere" => y = 0]_displayVars
    <2> SUFFICES ASSUME DisplayTypeOK, FrameInv, DisplayNext,
                        pc = "until last", pc' = "elsewhere"
                 PROVE  y = 0
        OBVIOUS
    <2>1. last = Lines - 1
        BY DEF DisplayNext, Compute, Start, Idle, WriteReg, CallWait,
               PollLastButOne, PollLast, Render, guestVars
    <2>2. Lines \in Nat /\ Lines >= 2
        BY DisplayAssumption
    <2> QED
        BY <2>1, <2>2 DEF FrameInv, Reported, After
<1> QED
    BY <1>1, DisplayInitType, DisplayStepType, FrameInitInv, FrameStepInv, PTL
    DEF DisplaySpec, ReturnsBetweenFrames

\* A frame has a line before its last.
LEMMA NotTheFirst == Lines - 1 # 0
    BY DisplayAssumption

\* gfx_wait_vbl returns once per frame, for a frame of any number of lines and
\* slices of any length: a guest's round never runs twice within one.
THEOREM WaitOncePerFrame == DisplaySpec => OneReturnPerFrame
<1>1. DisplayTypeOK /\ FrameInv /\ [DisplayNext]_displayVars
        => [pc = "until last" /\ pc' = "elsewhere" => drawn = Lines]_displayVars
    <2> SUFFICES ASSUME DisplayTypeOK, FrameInv, DisplayNext,
                        pc = "until last", pc' = "elsewhere"
                 PROVE  drawn = Lines
        OBVIOUS
    <2>1. last = Lines - 1
        BY DEF DisplayNext, Compute, Start, Idle, WriteReg, CallWait,
               PollLastButOne, PollLast, Render, guestVars
    <2>2. Lines \in Nat /\ Lines >= 2 /\ drawn \in 0 .. Lines
        BY DisplayAssumption DEF DisplayTypeOK
    <2>3. y = 0
        BY <2>1, <2>2 DEF FrameInv, Reported, After
    <2>4. drawn = Lines \/ (drawn = 0 /\ drawn = Lines - 1)
        BY <2>3 DEF FrameInv, Waited
    <2> QED
        BY <2>2, <2>4, NotTheFirst
<1> QED
    BY <1>1, DisplayInitType, DisplayStepType, FrameInitInv, FrameStepInv, PTL
    DEF DisplaySpec, OneReturnPerFrame

-----------------------------------------------------------------------------
(* The display: what a driver call has written where a slice ends in it.   *)

\* What a call still owes is its rest, and what comes before that is written.
Owes(call, m) ==
    /\ todo = SubSeq(call, m, Len(call))
    /\ calls # 0
    /\ \A i \in 1 .. m - 1 : reg[call[i]] # 0
Halfway ==
    todo = <<>> \/ \E call \in DriverCalls : \E m \in 1 .. Len(call) : Owes(call, m)

\* A call that has begun is complete or under way: no other was ever interrupted.
BegunIsDone ==
    \A call \in DriverCalls :
        Unset(call) # Written(call) => Unset(call) \subseteq Written(todo)

\* The frame buffer's address is not written before the rest.
BaseIsLast == reg["fb_base"] # 0 => Unset(FbSetMem) = {}

SetUpInv == Halfway /\ BegunIsDone /\ BaseIsLast

LEMMA WrittenIs ==
    /\ Written(FbSetMem) = {"fb_pitch", "fb_height", "fb_base"}
    /\ Written(FbSetScroll) = {"fb_scrollx", "fb_scrolly"}
    /\ Written(BgndSetMap) = {"width", "height", "map_addr"}
    /\ Written(BgndSetGfx) = {"gfx_addr", "transcol"}
    /\ Written(BgndSetScroll) = {"bgnd_scrollx", "bgnd_scrolly"}
    /\ Written(SpriteSetMem) = {"sprite_tile_addr", "sprite_list_addr", "sprite_transcol"}
    /\ Written(<<>>) = {}
BY DEF Written, FbSetMem, FbSetScroll, BgndSetMap, BgndSetGfx, BgndSetScroll, SpriteSetMem

\* No register belongs to two calls.
LEMMA CallsApart ==
    ASSUME NEW c \in DriverCalls, NEW d \in DriverCalls, c # d
    PROVE  Written(c) \cap Written(d) = {}
<1>1. CASE c = FbSetMem
    BY <1>1, WrittenIs DEF DriverCalls
<1>2. CASE c = FbSetScroll
    BY <1>2, WrittenIs DEF DriverCalls
<1>3. CASE c = BgndSetMap
    BY <1>3, WrittenIs DEF DriverCalls
<1>4. CASE c = BgndSetGfx
    BY <1>4, WrittenIs DEF DriverCalls
<1>5. CASE c = BgndSetScroll
    BY <1>5, WrittenIs DEF DriverCalls
<1>6. CASE c = SpriteSetMem
    BY <1>6, WrittenIs DEF DriverCalls
<1> QED
    BY <1>1, <1>2, <1>3, <1>4, <1>5, <1>6 DEF DriverCalls

LEMMA BaseOfCall ==
    ASSUME NEW call \in DriverCalls, NEW m \in 1 .. Len(call), call[m] = "fb_base"
    PROVE  call = FbSetMem /\ m = Len(call)
<1>1. "fb_base" \in Written(call) /\ "fb_base" \in Written(FbSetMem)
    BY WrittenIs DEF Written
<1>2. call = FbSetMem
    BY <1>1, CallsApart DEF DriverCalls
<1> QED
    BY <1>2 DEF FbSetMem

\* The registers of the rest of a call.
LEMMA RestWrites ==
    ASSUME NEW call \in DriverCalls, NEW m \in 1 .. Len(call)
    PROVE  Written(SubSeq(call, m, Len(call))) = {call[i] : i \in m .. Len(call)}
<1> DEFINE n == Len(call)
           rest == SubSeq(call, m, n)
<1>1. call \in Seq(Reg) /\ n \in Nat /\ m \in Int /\ 1 <= m /\ m <= n
    BY CallTypes
<1>2. \A i \in m .. n : call[i] \in Reg
    BY <1>1, ElementOfSeq
<1>3. Len(rest) = n - m + 1 /\ \A k \in 1 .. n - m + 1 : rest[k] = call[m + k - 1]
    BY <1>1, <1>2, SubSeqProperties
<1> HIDE DEF n, rest
<1>4. \A i \in m .. n : i - m + 1 \in 1 .. n - m + 1 /\ m + (i - m + 1) - 1 = i
    BY <1>1
<1>5. \A k \in 1 .. n - m + 1 : m + k - 1 \in m .. n
    BY <1>1
<1>6. Written(rest) = {call[i] : i \in m .. n}
    BY <1>3, <1>4, <1>5 DEF Written
<1> QED
    BY <1>6 DEF n, rest

LEMMA SetUpInitInv == DisplayInit => SetUpInv
<1> SUFFICES ASSUME DisplayInit PROVE SetUpInv
    OBVIOUS
<1>1. todo = <<>> /\ \A r \in Reg : reg[r] = 0
    BY DEF DisplayInit
<1>2. \A call \in DriverCalls : Unset(call) = Written(call)
    BY <1>1 DEF Unset, Reg
<1>3. "fb_base" \in Reg
    BY WrittenIs DEF Reg, DriverCalls
<1> QED
    BY <1>1, <1>2, <1>3 DEF SetUpInv, Halfway, BegunIsDone, BaseIsLast

\* One write of a call.
LEMMA WriteSetUp ==
    ASSUME DisplayTypeOK, SetUpInv, WriteReg
    PROVE  SetUpInv'
<1>1. PICK call \in DriverCalls : \E m \in 1 .. Len(call) : Owes(call, m)
    BY DEF SetUpInv, Halfway, WriteReg
<1>2. PICK m \in 1 .. Len(call) : Owes(call, m)
    BY <1>1
<1>3. call \in Seq(Reg) /\ Len(call) \in Nat /\ Len(call) \in m .. Len(call)
    BY CallTypes
<1>4. Head(todo) = call[m] /\ Tail(todo) = SubSeq(call, m + 1, Len(call))
    BY <1>2, <1>3, HeadTailOfSubSeq DEF Owes
<1>5. call[m] \in Reg /\ reg \in [Reg -> 0 .. Updates]
    BY <1>3, ElementOfSeq DEF DisplayTypeOK
<1>6. reg' = [reg EXCEPT ![call[m]] = calls] /\ calls # 0 /\ calls' = calls
        /\ todo' = SubSeq(call, m + 1, Len(call))
    BY <1>2, <1>4 DEF WriteReg, Owes
<1>7. \A r \in Reg : reg'[r] # 0 <=> reg[r] # 0 \/ r = call[m]
    BY <1>5, <1>6
<1>8. \A i \in 1 .. m : call[i] \in Reg /\ reg'[call[i]] # 0
    <2> TAKE i \in 1 .. m
    <2>1. call[i] \in Reg
        BY <1>3, ElementOfSeq
    <2>2. i = m \/ i \in 1 .. m - 1
        OBVIOUS
    <2> QED
        BY <1>2, <1>7, <2>1, <2>2 DEF Owes
<1>9. Halfway'
    <2>1. CASE m = Len(call)
        <3>1. todo' = <<>>
            BY <1>3, <1>6, <2>1, SubSeqEmpty
        <3> QED
            BY <3>1 DEF Halfway
    <2>2. CASE m # Len(call)
        <3>1. m + 1 \in 1 .. Len(call) /\ (m + 1) - 1 = m
            BY <1>3, <2>2
        <3>2. Owes(call, m + 1)'
            BY <1>6, <1>8, <3>1 DEF Owes
        <3> QED
            BY <3>1, <3>2 DEF Halfway
    <2> QED
        BY <2>1, <2>2
<1>10. \A c \in DriverCalls : Written(c) \subseteq Reg /\ Unset(c)' \subseteq Unset(c)
    <2>1. \A c \in DriverCalls : Written(c) \subseteq Reg
        BY DEF Reg
    <2> QED
        BY <1>7, <2>1 DEF Unset
<1>11. Unset(call)' \subseteq {call[i] : i \in m + 1 .. Len(call)}
    <2> SUFFICES ASSUME NEW i \in 1 .. Len(call), reg'[call[i]] = 0
                 PROVE  i \in m + 1 .. Len(call)
        BY DEF Unset, Written
    <2>1. ~(i \in 1 .. m)
        BY <1>8
    <2> QED
        BY <1>3, <2>1
<1>12. Unset(call)' \subseteq Written(todo')
    <2>1. CASE m = Len(call)
        <3>1. m + 1 .. Len(call) = {}
            BY <1>3, <2>1
        <3> QED
            BY <1>11, <3>1
    <2>2. CASE m # Len(call)
        <3>1. m + 1 \in 1 .. Len(call)
            BY <1>3, <2>2
        <3> QED
            BY <1>6, <1>11, <3>1, RestWrites
    <2> QED
        BY <2>1, <2>2
<1>13. BegunIsDone'
    <2> SUFFICES ASSUME NEW c \in DriverCalls, Unset(c)' # Written(c)
                 PROVE  Unset(c)' \subseteq Written(todo')
        BY DEF BegunIsDone, Written
    <2>1. CASE c = call
        BY <1>12, <2>1
    <2>2. CASE c # call
        <3>1. Written(c) \cap Written(call) = {}
            BY <2>2, CallsApart
        <3>2. call[m] \in Written(call)
            BY DEF Written
        <3>3. Unset(c)' = Unset(c)
            BY <1>7, <1>10, <3>1, <3>2 DEF Unset
        <3>4. Unset(c) \subseteq Written(todo)
            BY <2>2, <3>3 DEF SetUpInv, BegunIsDone
        <3>5. Written(todo) \subseteq Written(call)
            <4>1. Written(todo) = {call[i] : i \in m .. Len(call)}
                BY <1>2, RestWrites DEF Owes
            <4>2. m .. Len(call) \subseteq 1 .. Len(call)
                BY <1>3
            <4> QED
                BY <4>1, <4>2 DEF Written
        <3>6. Unset(c) \subseteq Written(c)
            BY DEF Unset
        <3> QED
            BY <3>1, <3>3, <3>4, <3>5, <3>6
    <2> QED
        BY <2>1, <2>2
<1>14. BaseIsLast'
    <2> SUFFICES ASSUME reg'["fb_base"] # 0 PROVE Unset(FbSetMem)' = {}
        BY DEF BaseIsLast
    <2>1. "fb_base" \in Reg /\ FbSetMem \in DriverCalls
        BY WrittenIs DEF Reg, DriverCalls
    <2>2. CASE reg["fb_base"] # 0
        BY <1>10, <2>1, <2>2 DEF SetUpInv, BaseIsLast
    <2>3. CASE reg["fb_base"] = 0
        <3>1. call[m] = "fb_base"
            BY <1>7, <2>1, <2>3
        <3>2. call = FbSetMem /\ m = Len(call)
            BY <3>1, BaseOfCall
        <3>3. m + 1 .. Len(call) = {}
            BY <1>3, <3>2
        <3> QED
            BY <1>11, <3>2, <3>3
    <2> QED
        BY <2>2, <2>3
<1> QED
    BY <1>9, <1>13, <1>14 DEF SetUpInv

LEMMA SetUpStepInv ==
    DisplayTypeOK /\ SetUpInv /\ [DisplayNext]_displayVars => SetUpInv'
<1> SUFFICES ASSUME DisplayTypeOK, SetUpInv, [DisplayNext]_displayVars
             PROVE  SetUpInv'
    OBVIOUS
<1>1. ASSUME NEW call \in DriverCalls, Start(call) PROVE SetUpInv'
    <2>1. call \in Seq(Reg) /\ Len(call) \in 1 .. 3
        BY CallTypes
    <2>2. 1 \in 1 .. Len(call)
        BY <2>1
    <2>3. todo' = SubSeq(call, 1, Len(call))
        BY <1>1, <2>1, SubSeqFull DEF Start
    <2>4. calls' # 0
        BY <1>1, DisplayRanges DEF Start
    <2>5. Owes(call, 1)'
        BY <2>3, <2>4 DEF Owes
    <2>6. reg' = reg /\ todo = <<>>
        BY <1>1 DEF Start, Idle
    <2>7. \A c \in DriverCalls : Unset(c) # Written(c) => Unset(c) = {}
        BY <2>6, WrittenIs DEF SetUpInv, BegunIsDone
    <2>8. BegunIsDone'
        BY <2>6, <2>7 DEF BegunIsDone, Unset
    <2> QED
        BY <2>2, <2>5, <2>6, <2>8 DEF SetUpInv, Halfway, BaseIsLast, Unset
<1>2. CASE WriteReg
    BY <1>2, WriteSetUp
<1>3. ASSUME UNCHANGED <<todo, reg, calls>> PROVE SetUpInv'
    BY <1>3 DEF SetUpInv, Halfway, BegunIsDone, BaseIsLast, Unset, Owes
<1> QED
    BY <1>1, <1>2, <1>3
    DEF DisplayNext, Compute, CallWait, PollLastButOne, PollLast, Render, guestVars,
        displayVars

LEMMA SetUpWhileOn == SetUpInv => OnIsSetUp
<1> SUFFICES ASSUME SetUpInv PROVE OnIsSetUp
    OBVIOUS
<1>1. ASSUME NEW call \in DriverCalls, NEW r \in Written(call), reg[r] # 0
      PROVE  Unset(call) \subseteq Written(todo)
    <2>1. Unset(call) # Written(call)
        BY <1>1 DEF Unset
    <2> QED
        BY <2>1 DEF SetUpInv, BegunIsDone
<1>2. BgndOn => Unset(BgndSetMap) \cup Unset(BgndSetGfx) \subseteq Written(todo)
    <2>1. BgndSetMap \in DriverCalls /\ "map_addr" \in Written(BgndSetMap)
        BY WrittenIs DEF DriverCalls
    <2>2. BgndSetGfx \in DriverCalls /\ "gfx_addr" \in Written(BgndSetGfx)
        BY WrittenIs DEF DriverCalls
    <2> QED
        BY <1>1, <2>1, <2>2 DEF BgndOn
<1>3. SpritesOn => Unset(SpriteSetMem) \subseteq Written(todo)
    <2>1. SpriteSetMem \in DriverCalls /\ "sprite_list_addr" \in Written(SpriteSetMem)
        BY WrittenIs DEF DriverCalls
    <2> QED
        BY <1>1, <2>1 DEF SpritesOn
<1> QED
    BY <1>2, <1>3 DEF SetUpInv, BaseIsLast, OnIsSetUp, FbOn

\* Wherever a slice ends, a layer that its renderer takes for on lacks only what the
\* driver call under way still has to write, and the frame buffer lacks nothing.
THEOREM LacksOnlyWhatIsOwed == DisplaySpec => []OnIsSetUp
BY SetUpWhileOn, DisplayInitType, DisplayStepType, SetUpInitInv, SetUpStepInv, PTL
DEF DisplaySpec

-----------------------------------------------------------------------------
(* The display: a guest that keeps to the vertical blank.                  *)

\* gfx_wait_vbl's poll and the longest driver call fit in one slice.
SliceFits == LineSteps > 3

\* The second loop sees the last line in the first access of line 0's slice.
SeenAtOnce == pc = "until last" /\ last = Lines - 1 => y = 0 /\ steps = LineSteps
FreshEarly ==
    fresh /\ pc = "elsewhere" => todo = <<>> /\ y = 0 /\ steps = LineSteps - 1

\* A call under way belongs to such a guest's update, and fits.
CallFits == vblOnly /\ todo # <<>> => y = 0 /\ steps >= Len(todo)
Untorn   == vblOnly /\ y > 0 => reg = snap

TearInv ==
    /\ pc # "elsewhere" => todo = <<>>
    /\ SeenAtOnce
    /\ FreshEarly
    /\ CallFits
    /\ Untorn

LEMMA FitsOneLess ==
    ASSUME NEW l \in Int, NEW k \in 1 .. 3, l > 3
    PROVE  l - 1 >= k
OBVIOUS

LEMMA FitsTheRest ==
    ASSUME NEW s \in Int, NEW k \in Int, s >= k
    PROVE  s - 1 >= k - 1
OBVIOUS

LEMMA TearInitInv == DisplayInit => TearInv
<1> SUFFICES ASSUME DisplayInit PROVE TearInv
    OBVIOUS
<1>1. pc = "elsewhere" /\ fresh = FALSE /\ todo = <<>> /\ reg = snap
    BY DEF DisplayInit
<1> QED
    BY <1>1 DEF TearInv, SeenAtOnce, FreshEarly, CallFits, Untorn

\* Where a slice ends, a guest that keeps to the vertical blank is in no call.
LEMMA NoneUnderWay ==
    ASSUME DisplayTypeOK, TearInv, Render, vblOnly
    PROVE  todo = <<>>
<1> SUFFICES ASSUME todo # <<>> PROVE FALSE
    OBVIOUS
<1>1. todo \in Seq(Reg)
    BY DEF DisplayTypeOK
<1>2. Len(todo) \in Int /\ Len(todo) > 0
    BY <1>1, EmptySeq, LenProperties
<1>3. 0 >= Len(todo)
    BY DEF TearInv, CallFits, Render
<1> QED
    BY <1>2, <1>3

LEMMA TearStepInv ==
    ASSUME SliceFits, DisplayTypeOK, FrameInv, TearInv, [DisplayNext]_displayVars
    PROVE  TearInv'
<1>1. CASE Compute
    <2>1. fresh' = FALSE /\ todo = <<>> /\ pc = "elsewhere"
            /\ UNCHANGED <<y, last, reg, pc, todo, vblOnly, snap>>
        BY <1>1 DEF Compute, Idle
    <2> QED
        BY <2>1 DEF TearInv, SeenAtOnce, FreshEarly, CallFits, Untorn
<1>2. ASSUME NEW call \in DriverCalls, Start(call) PROVE TearInv'
    <2>1. /\ fresh' = FALSE /\ pc = "elsewhere" /\ todo' = call
          /\ UNCHANGED <<y, last, steps, reg, pc, vblOnly, snap>>
        BY <1>2 DEF Start, Idle
    <2>2. vblOnly => y = 0 /\ steps = LineSteps - 1
        BY <1>2 DEF Start, Idle, TearInv, FreshEarly
    <2>3. LineSteps - 1 >= Len(call)
        <3>1. Len(call) \in 1 .. 3 /\ LineSteps \in Int
            BY CallTypes, DisplayAssumption
        <3> QED
            BY <3>1, FitsOneLess DEF SliceFits
    <2>4. CallFits'
        BY <2>1, <2>2, <2>3 DEF CallFits
    <2> QED
        BY <2>1, <2>4 DEF TearInv, SeenAtOnce, FreshEarly, Untorn
<1>3. CASE WriteReg
    <2>1. /\ todo # <<>> /\ todo' = Tail(todo) /\ steps' = steps - 1
          /\ UNCHANGED <<y, last, pc, fresh, vblOnly, snap>>
        BY <1>3 DEF WriteReg
    <2>2. pc = "elsewhere" /\ ~fresh
        BY <2>1 DEF TearInv, FreshEarly
    <2>3. vblOnly => y = 0 /\ steps >= Len(todo)
        BY <2>1 DEF TearInv, CallFits
    <2>4. Len(todo) \in Int /\ Len(Tail(todo)) = Len(todo) - 1
        <3>1. todo \in Seq(Reg) /\ todo # <<>>
            BY <2>1 DEF DisplayTypeOK
        <3> HIDE DEF Reg
        <3> QED
            BY <3>1, HeadTailProperties
    <2>5. steps >= Len(todo) => steps - 1 >= Len(todo) - 1
        <3>1. steps \in Int
            BY DisplayRanges
        <3> QED
            BY <2>4, <3>1, FitsTheRest
    <2>6. CallFits'
        BY <2>1, <2>3, <2>4, <2>5 DEF CallFits
    <2>7. Untorn'
        BY <2>1, <2>3 DEF Untorn
    <2> QED
        BY <2>1, <2>2, <2>6, <2>7 DEF TearInv, SeenAtOnce, FreshEarly
<1>4. CASE CallWait
    <2>1. /\ todo = <<>> /\ pc' = "until last but one"
          /\ UNCHANGED <<y, last, steps, reg, todo, vblOnly, snap>>
        BY <1>4 DEF CallWait, Idle
    <2> QED
        BY <2>1 DEF TearInv, SeenAtOnce, FreshEarly, CallFits, Untorn
<1>5. CASE PollLastButOne
    <2>1. /\ pc = "until last but one" /\ pc' # "elsewhere"
          /\ pc' = "until last" => last = Lines - 2
          /\ UNCHANGED <<y, last, reg, todo, fresh, vblOnly, snap>>
        BY <1>5 DEF PollLastButOne
    <2>2. todo' = <<>>
        BY <2>1 DEF TearInv
    <2>3. Lines - 2 # Lines - 1
        BY DisplayRanges
    <2> QED
        BY <2>1, <2>2, <2>3 DEF TearInv, SeenAtOnce, FreshEarly, CallFits, Untorn
<1>6. CASE PollLast
    <2>1. /\ pc = "until last" /\ steps' = steps - 1
          /\ UNCHANGED <<y, last, reg, todo, vblOnly, snap>>
        BY <1>6 DEF PollLast
    <2>2. todo' = <<>>
        BY <2>1 DEF TearInv
    <2>3. CASE last = Lines - 1
        <3>1. pc' = "elsewhere" /\ y = 0 /\ steps = LineSteps
            BY <1>6, <2>3 DEF PollLast, TearInv, SeenAtOnce
        <3> QED
            BY <2>1, <2>2, <3>1 DEF TearInv, SeenAtOnce, FreshEarly, CallFits, Untorn
    <2>4. CASE last # Lines - 1
        <3>1. pc' = pc
            BY <1>6, <2>4 DEF PollLast
        <3> QED
            BY <2>1, <2>2, <2>4, <3>1
            DEF TearInv, SeenAtOnce, FreshEarly, CallFits, Untorn
    <2> QED
        BY <2>3, <2>4
<1>7. CASE Render
    <2>1. /\ steps = 0 /\ last' = y /\ steps' = LineSteps
          /\ y' = After(y)
          /\ snap' = IF y = 0 THEN reg ELSE snap
          /\ UNCHANGED <<reg, pc, todo, fresh, vblOnly>>
        BY <1>7, AfterIsNext, DisplayRanges DEF Render, Drawn, guestVars
    <2>2. LineSteps - 1 # 0
        BY DisplayRanges DEF SliceFits
    <2>3. ~(fresh /\ pc = "elsewhere")
        BY <2>1, <2>2 DEF TearInv, FreshEarly
    <2>4. vblOnly => todo = <<>>
        BY <1>7, NoneUnderWay
    <2>5. SeenAtOnce'
        BY <2>1 DEF SeenAtOnce, After
    <2>6. Untorn'
        <3>1. CASE y = 0
            BY <2>1, <3>1 DEF Untorn
        <3>2. CASE y # 0
            <4>1. y > 0
                BY <3>2, DisplayRanges
            <4> QED
                BY <2>1, <3>2, <4>1 DEF TearInv, Untorn
        <3> QED
            BY <3>1, <3>2
    <2> QED
        BY <2>1, <2>3, <2>4, <2>5, <2>6 DEF TearInv, FreshEarly, CallFits
<1>8. CASE UNCHANGED displayVars
    BY <1>8 DEF displayVars, guestVars, TearInv, SeenAtOnce, FreshEarly, CallFits, Untorn
<1> QED
    BY <1>1, <1>2, <1>3, <1>4, <1>5, <1>6, <1>7, <1>8 DEF DisplayNext

\* A guest that updates the display only when gfx_wait_vbl returns never tears a
\* frame, for frames of any number of lines and any slice that fits one update.
THEOREM NoFrameTorn == SliceFits => (DisplaySpec => NoTearing)
<1> SUFFICES ASSUME SliceFits PROVE DisplaySpec => NoTearing
    OBVIOUS
<1>1. TearInv /\ [DisplayNext]_displayVars
        => [vblOnly /\ Render /\ y > 0 => reg = snap]_displayVars
    BY DEF TearInv, Untorn
<1>2. DisplayTypeOK /\ FrameInv /\ TearInv /\ [DisplayNext]_displayVars => TearInv'
    BY TearStepInv
<1> QED
    BY <1>1, <1>2, DisplayInitType, DisplayStepType, FrameInitInv, FrameStepInv,
       TearInitInv, PTL
    DEF DisplaySpec, NoTearing

\* In whatever order a program calls the driver, the frame buffer is never drawn half
\* set up, a background and the sprites only at the end of a slice that ends in the
\* call which switched them on, and none if the program calls the driver only when
\* gfx_wait_vbl returns and a slice fits the poll and the longest call.
THEOREM LayersAreSetUp == SliceFits => (DisplaySpec => HalfSetUpOnlyInCall)
<1> SUFFICES ASSUME SliceFits PROVE DisplaySpec => HalfSetUpOnlyInCall
    OBVIOUS
<1> DEFINE bgndLacks == Unset(BgndSetMap) \cup Unset(BgndSetGfx)
           spritesLack == Unset(SpriteSetMem)
           SetUp == OnIsSetUp
                    /\ (vblOnly => /\ BgndOn => bgndLacks = {}
                                   /\ SpritesOn => spritesLack = {})
<1>1. DisplayTypeOK /\ SetUpInv /\ TearInv /\ [DisplayNext]_displayVars
        => [Render => SetUp]_displayVars
    <2> SUFFICES ASSUME DisplayTypeOK, SetUpInv, TearInv, Render PROVE SetUp
        OBVIOUS
    <2>1. OnIsSetUp
        BY SetUpWhileOn
    <2>2. ASSUME vblOnly PROVE Written(todo) = {}
        BY <2>2, NoneUnderWay, WrittenIs
    <2>3. ASSUME vblOnly, BgndOn PROVE bgndLacks = {}
        BY <2>1, <2>2, <2>3 DEF OnIsSetUp
    <2>4. ASSUME vblOnly, SpritesOn PROVE spritesLack = {}
        BY <2>1, <2>2, <2>4 DEF OnIsSetUp
    <2> QED
        BY <2>1, <2>3, <2>4
<1>2. DisplayTypeOK /\ FrameInv /\ TearInv /\ [DisplayNext]_displayVars => TearInv'
    BY TearStepInv
<1> QED
    BY <1>1, <1>2, DisplayInitType, DisplayStepType, FrameInitInv, FrameStepInv,
       SetUpInitInv, SetUpStepInv, TearInitInv, PTL
    DEF DisplaySpec, HalfSetUpOnlyInCall

-----------------------------------------------------------------------------
(* Arithmetic of remainders.                                               *)

LEMMA DivMod ==
    ASSUME NEW n \in Nat \ {0}, NEW a \in Int
    PROVE  a = n * (a \div n) + (a % n) /\ a % n \in 0 .. n - 1 /\ a \div n \in Int
OBVIOUS

LEMMA DivModIs ==
    ASSUME NEW n \in Nat \ {0}, NEW q \in Int, NEW r \in 0 .. n - 1
    PROVE  (n * q + r) \div n = q /\ (n * q + r) % n = r
OBVIOUS

LEMMA ModLessMultiple ==
    ASSUME NEW n \in Nat \ {0}, NEW b \in Int, NEW k \in Int
    PROVE  (b - n * k) % n = b % n
<1> DEFINE q == b \div n
           r == b % n
<1>1. b = n * q + r /\ q \in Int /\ r \in 0 .. n - 1
    BY DivMod
<1> HIDE DEF q, r
<1>2. b - n * k = n * (q - k) + r /\ q - k \in Int
    BY <1>1
<1>3. (n * (q - k) + r) % n = r
    BY <1>1, <1>2, DivModIs
<1> QED
    BY <1>2, <1>3 DEF r

-----------------------------------------------------------------------------
(* Sprites: the list in the guest's memory and the walk over it.           *)

Position == [x : Int, y : Int]
Stores(stored, wanted) == stored = [x |-> Int16(wanted.x), y |-> Int16(wanted.y)]

\* The list holds what was asked for, cut to 16 bits, and the marker behind it.
Holds(n) ==
    /\ placed \in [1 .. n -> Position]
    /\ list \in Seq(Position) /\ Len(list) = n + 1
    /\ \A i \in 1 .. n : Stores(list[i], placed[i])
    /\ list[n + 1].y = SPRITE_LIST_END_MARKER

SpritesInv == (list = <<>> /\ placed = <<>>) \/ \E n \in Nat : Holds(n)

LEMMA Int16Is ==
    ASSUME NEW v \in Int
    PROVE  /\ Int16(v) \in Int /\ -Half <= Int16(v) /\ Int16(v) < Half
           /\ \E q \in Int : v = Int16(v) + (2 * Half) * q
<1> DEFINE m == 2 * Half
           q == (v + Half) \div m
           r == (v + Half) % m
<1>1. m \in Nat \ {0} /\ Half \in Int /\ v + Half \in Int
    BY SpritesAssumption
<1>2. v + Half = m * q + r /\ r \in 0 .. m - 1 /\ q \in Int
    BY <1>1, DivMod
<1> HIDE DEF q, r
<1>3. m * q \in Int /\ r \in Int /\ 0 <= r /\ r < Half + Half
    BY <1>1, <1>2
<1> HIDE DEF m
<1>4. v = (r - Half) + m * q /\ -Half <= r - Half /\ r - Half < Half
    BY <1>1, <1>2, <1>3
<1>5. Int16(v) = r - Half
    BY DEF Int16, r, m
<1>6. v = Int16(v) + m * q /\ q \in Int
    BY <1>2, <1>4, <1>5
<1>7. \E k \in Int : v = Int16(v) + m * k
    BY <1>6
<1>8. \E k \in Int : v = Int16(v) + (2 * Half) * k
    BY ONLY <1>7 DEF m
<1>9. Int16(v) \in Int /\ -Half <= Int16(v) /\ Int16(v) < Half
    BY <1>1, <1>3, <1>4, <1>5
<1> QED
    BY <1>8, <1>9

LEMMA Int16OfSmall ==
    ASSUME NEW v \in Int, -Half <= v, v < Half
    PROVE  Int16(v) = v
<1> DEFINE m == 2 * Half
           b == v + Half
<1>1. m \in Nat \ {0} /\ Half \in Int /\ b \in 0 .. m - 1
    BY SpritesAssumption
<1> HIDE DEF m, b
<1>2. b % m = b
    BY <1>1
<1>3. b - Half = v
    BY <1>1 DEF b
<1> QED
    BY <1>2, <1>3 DEF Int16, m, b

LEMMA SpritesInitInv == SpritesInit => SpritesInv
BY DEF SpritesInit, SpritesInv

LEMMA SpritesStepInv == SpritesInv /\ [SpritesNext]_spriteVars => SpritesInv'
<1> SUFFICES ASSUME SpritesInv, [SpritesNext]_spriteVars PROVE SpritesInv'
    OBVIOUS
<1>1. ASSUME NEW count \in Counts, SprInit(count) PROVE Holds(count)' /\ count \in Nat
    <2>1. count \in Nat /\ Half \in Nat \ {0}
        BY SpritesAssumption
    <2>2. SPRITE_HIDE \in Int /\ SPRITE_LIST_END_MARKER \in Int
            /\ Int16(0) = 0 /\ Int16(SPRITE_HIDE) = SPRITE_HIDE
        <3>1. 0 \in Int /\ -Half <= 0 /\ 0 < Half
            BY <2>1
        <3>2. -Half + 1 \in Int /\ -Half <= -Half + 1 /\ -Half + 1 < Half /\ -Half \in Int
            BY <2>1
        <3> QED
            BY <3>1, <3>2, Int16OfSmall DEF SPRITE_HIDE, SPRITE_LIST_END_MARKER
    <2>3. placed' = [i \in 1 .. count |-> [x |-> 0, y |-> SPRITE_HIDE]]
        BY <1>1 DEF SprInit
    <2>4. list' = [i \in 1 .. count + 1 |->
                     [x |-> 0, y |-> IF i > count THEN SPRITE_LIST_END_MARKER ELSE SPRITE_HIDE]]
        BY <1>1 DEF SprInit, NewList
    <2>5. count + 1 \in 1 .. count + 1 /\ count + 1 > count
            /\ \A i \in 1 .. count : i \in 1 .. count + 1 /\ ~(i > count)
        BY <2>1
    <2>6. list'[count + 1].y = SPRITE_LIST_END_MARKER
            /\ \A i \in 1 .. count : list'[i] = [x |-> 0, y |-> SPRITE_HIDE]
        BY <2>4, <2>5
    <2>7. list' \in Seq(Position) /\ Len(list') = count + 1
        <3>1. \A i \in 1 .. count + 1 : list'[i] \in Position
            BY <2>2, <2>4 DEF Position
        <3>2. list' = [i \in 1 .. count + 1 |-> list'[i]]
            BY <2>4
        <3> QED
            BY <2>1, <3>1, <3>2
    <2>8. placed' \in [1 .. count -> Position]
        BY <2>2, <2>3 DEF Position
    <2>9. \A i \in 1 .. count : Stores(list[i], placed[i])'
        BY <2>2, <2>3, <2>6 DEF Stores, Int16
    <2> QED
        BY <2>1, <2>6, <2>7, <2>8, <2>9 DEF Holds
<1>2. ASSUME NEW id \in 1 .. Count, NEW v \in Place, SprSetX(id, v) \/ SprSetY(id, v),
             NEW n \in Nat, Holds(n)
      PROVE  Holds(n)'
    <2>1. id \in 1 .. n /\ id \in 1 .. n + 1 /\ id # n + 1 /\ n + 1 \in 1 .. n + 1
            /\ \A i \in 1 .. n : i \in 1 .. n + 1
        <3>1. Len(list) = n + 1
            BY <1>2 DEF Holds
        <3>2. id \in 1 .. n
            BY <3>1 DEF Count
        <3> QED
            BY <3>2
    <2>2. v \in Int /\ Int16(v) \in Int
        BY SpritesAssumption, Int16Is
    <2>3. list \in [1 .. n + 1 -> Position] /\ placed \in [1 .. n -> Position]
        BY <1>2 DEF Holds
    <2>4. list[id] = [x |-> Int16(placed[id].x), y |-> Int16(placed[id].y)]
        BY <1>2, <2>1 DEF Holds, Stores
    <2>5. \E p \in Position :
             /\ placed' = [placed EXCEPT ![id] = p]
             /\ list' = [list EXCEPT ![id] = [x |-> Int16(p.x), y |-> Int16(p.y)]]
        <3>1. placed[id] \in Position
            BY <2>1, <2>3
        <3>2. CASE SprSetX(id, v)
            <4> DEFINE p == [x |-> v, y |-> placed[id].y]
            <4>1. p \in Position /\ p.x = v /\ p.y = placed[id].y
                BY <2>2, <3>1 DEF Position
            <4>2. placed' = [placed EXCEPT ![id] = p]
                <5>1. placed' = [placed EXCEPT ![id] = [placed[id] EXCEPT !.x = v]]
                    BY <3>2 DEF SprSetX
                <5>2. [placed[id] EXCEPT !.x = v] = p
                    BY <3>1 DEF Position
                <5> HIDE DEF p
                <5> QED
                    BY <5>1, <5>2
            <4>3. list' = [list EXCEPT ![id] = [x |-> Int16(v), y |-> Int16(placed[id].y)]]
                <5> DEFINE s == [x |-> Int16(v), y |-> Int16(placed[id].y)]
                <5>1. list' = [list EXCEPT ![id] = [list[id] EXCEPT !.x = Int16(v)]]
                    BY <3>2 DEF SprSetX
                <5>2. [list[id] EXCEPT !.x = Int16(v)] = s
                    BY <2>4
                <5> HIDE DEF s
                <5>3. list' = [list EXCEPT ![id] = s]
                    BY <5>1, <5>2
                <5> QED
                    BY <5>3 DEF s
            <4> QED
                BY <4>1, <4>2, <4>3
        <3>3. CASE SprSetY(id, v)
            <4> DEFINE p == [x |-> placed[id].x, y |-> v]
            <4>1. p \in Position /\ p.y = v /\ p.x = placed[id].x
                BY <2>2, <3>1 DEF Position
            <4>2. placed' = [placed EXCEPT ![id] = p]
                <5>1. placed' = [placed EXCEPT ![id] = [placed[id] EXCEPT !.y = v]]
                    BY <3>3 DEF SprSetY
                <5>2. [placed[id] EXCEPT !.y = v] = p
                    BY <3>1 DEF Position
                <5> HIDE DEF p
                <5> QED
                    BY <5>1, <5>2
            <4>3. list' = [list EXCEPT ![id] = [x |-> Int16(placed[id].x), y |-> Int16(v)]]
                <5> DEFINE s == [x |-> Int16(placed[id].x), y |-> Int16(v)]
                <5>1. list' = [list EXCEPT ![id] = [list[id] EXCEPT !.y = Int16(v)]]
                    BY <3>3 DEF SprSetY
                <5>2. [list[id] EXCEPT !.y = Int16(v)] = s
                    BY <2>4
                <5> HIDE DEF s
                <5>3. list' = [list EXCEPT ![id] = s]
                    BY <5>1, <5>2
                <5> QED
                    BY <5>3 DEF s
            <4> QED
                BY <4>1, <4>2, <4>3
        <3> QED
            BY <1>2, <3>2, <3>3
    <2>6. PICK p \in Position :
             /\ placed' = [placed EXCEPT ![id] = p]
             /\ list' = [list EXCEPT ![id] = [x |-> Int16(p.x), y |-> Int16(p.y)]]
        BY <2>5
    <2>7. placed' \in [1 .. n -> Position]
        BY <2>3, <2>6
    <2>8. list' \in [1 .. n + 1 -> Position]
        <3>1. [x |-> Int16(p.x), y |-> Int16(p.y)] \in Position
            BY Int16Is DEF Position
        <3> QED
            BY <2>3, <2>6, <3>1
    <2>9. list' \in Seq(Position) /\ Len(list') = n + 1
        BY <2>8
    <2>10. list'[n + 1] = list[n + 1]
        BY <2>1, <2>3, <2>6
    <2>11. \A i \in 1 .. n : list'[i] = [x |-> Int16(placed'[i].x), y |-> Int16(placed'[i].y)]
        <3> TAKE i \in 1 .. n
        <3>1. CASE i = id
            BY <2>1, <2>3, <2>6, <3>1
        <3>2. CASE i # id
            <4>1. list'[i] = list[i] /\ placed'[i] = placed[i]
                BY <2>1, <2>3, <2>6, <3>2
            <4> QED
                BY <1>2, <4>1 DEF Holds, Stores
        <3> QED
            BY <3>1, <3>2
    <2> QED
        BY <1>2, <2>7, <2>9, <2>10, <2>11 DEF Holds, Stores, Int16
<1>3. CASE UNCHANGED spriteVars
    BY <1>3 DEF spriteVars, SpritesInv, Holds, Stores
<1>4. ASSUME NEW id \in 1 .. Count PROVE list # <<>>
    BY <1>4 DEF Count
<1> QED
    BY <1>1, <1>2, <1>3, <1>4 DEF SpritesNext, SpritesInv

\* Without the marker's value among the positions asked for, the walk goes over all of
\* them and stops at the marker behind them.
LEMMA WalkVisitsAll ==
    ASSUME NEW n \in Nat, Holds(n), NoMarker
    PROVE  Visited = 1 .. n
<1>1. DOMAIN list = 1 .. n + 1 /\ DOMAIN placed = 1 .. n
    BY DEF Holds
<1>2. ASSUME NEW e \in 1 .. n PROVE ~Stops(list[e])
    <2> DEFINE v == placed[e].y
               m == 2 * Half
    <2>1. v \in Int
        BY DEF Holds, Position
    <2>2. list[e].y = Int16(v)
        <3>1. Stores(list[e], placed[e])
            BY DEF Holds
        <3> QED
            BY <3>1 DEF Stores
    <2>3. (v - SPRITE_LIST_END_MARKER) % m # 0
        BY <1>1 DEF NoMarker
    <2> HIDE DEF v
    <2>4. PICK q \in Int : v = Int16(v) + m * q
        BY <2>1, Int16Is
    <2>5. m \in Nat \ {0} /\ Half \in Int
        BY SpritesAssumption
    <2> HIDE DEF m
    <2>6. ASSUME Int16(v) = -Half PROVE FALSE
        <3>1. m * q \in Int
            BY <2>5
        <3>2. v - SPRITE_LIST_END_MARKER = m * q + 0
            BY <2>4, <2>5, <2>6, <3>1 DEF SPRITE_LIST_END_MARKER
        <3>3. 0 \in 0 .. m - 1
            BY <2>5
        <3> QED
            BY <2>3, <2>5, <3>2, <3>3, DivModIs
    <2> QED
        BY <2>2, <2>6 DEF Stops, SPRITE_LIST_END_MARKER
<1>3. Stops(list[n + 1])
    BY DEF Holds, Stops
<1>4. \A i \in 1 .. n : i \in 1 .. n + 1 /\ \A e \in 1 .. i : e \in 1 .. n
    OBVIOUS
<1>5. \A i \in 1 .. n + 1 : i \in 1 .. n \/ n + 1 \in 1 .. i
    OBVIOUS
<1> QED
    BY <1>1, <1>2, <1>3, <1>4, <1>5 DEF Visited

\* A distance on the screen, computed from the position cut to 16 bits or counted around
\* 16 bits from the position itself, is within a tile or not either way.
LEMMA NearBothWays ==
    ASSUME NEW v \in Int, NEW c \in Nat, c < Half
    PROVE  c - Int16(v) \in 0 .. Side - 1 <=> (c - v) % (2 * Half) \in 0 .. Side - 1
<1> DEFINE m == 2 * Half
           d == c - Int16(v)
<1>1. /\ Int16(v) \in Int /\ -Half <= Int16(v) /\ Int16(v) < Half
    BY Int16Is
<1>2. PICK q \in Int : v = Int16(v) + m * q
    BY Int16Is
<1>3. m \in Nat \ {0} /\ Half \in Nat /\ m = Half + Half /\ Side \in Nat /\ Side < Half
    BY SpritesAssumption, BackgroundsAssumption
<1>4. d \in Int /\ -Half < d /\ d < m
    BY <1>1, <1>3
<1> HIDE DEF m
<1>5. m * q \in Int
    BY <1>3
<1>6. c - v = d - m * q
    BY <1>1, <1>2, <1>5
<1> HIDE DEF d
<1>7. (c - v) % m = d % m
    BY <1>3, <1>4, <1>6, ModLessMultiple
<1>8. CASE d >= 0
    <2>1. d % m = d
        BY <1>3, <1>4, <1>8
    <2> QED
        BY <1>7, <2>1 DEF d, m
<1>9. CASE d < 0
    <2>1. d % m = d + m
        <3> DEFINE b == d + m
        <3>1. b \in 0 .. m - 1 /\ b \in Int /\ b - m * 1 = d
            BY <1>3, <1>4, <1>9
        <3> HIDE DEF b
        <3>2. (b - m * 1) % m = b % m
            BY <1>3, <3>1, ModLessMultiple
        <3>3. b % m = b
            BY <1>3, <3>1
        <3> QED
            BY <3>1, <3>2, <3>3 DEF b
    <2>2. d + m \notin 0 .. Side - 1 /\ d \notin 0 .. Side - 1
        BY <1>3, <1>4, <1>9
    <2> QED
        BY <1>7, <2>1, <2>2 DEF d, m
<1> QED
    BY <1>4, <1>8, <1>9

\* However far off the screen the program puts its sprites, and for lists of any length,
\* every pixel shows the last sprite whose square covers it.
THEOREM SpritesAreShown == SpritesSpec => []SpritesShown
<1>1. SpritesInv => SpritesShown
    <2> SUFFICES ASSUME SpritesInv, NoMarker,
                        NEW p \in 0 .. FBW - 1, NEW ypos \in 0 .. FBH - 1
                 PROVE  Shown(p, ypos)
                          = Max({0} \cup {i \in DOMAIN placed : Wanted(placed[i], p, ypos)})
        BY DEF SpritesShown
    <2>1. CASE list = <<>> /\ placed = <<>>
        <3>1. DOMAIN list = {} /\ DOMAIN placed = {}
            BY <2>1
        <3> QED
            BY <3>1 DEF Shown, Visited
    <2>2. ASSUME NEW n \in Nat, Holds(n)
          PROVE  Shown(p, ypos)
                   = Max({0} \cup {i \in DOMAIN placed : Wanted(placed[i], p, ypos)})
        <3>1. p \in Nat /\ p < Half /\ ypos \in Nat /\ ypos < Half
            BY SpritesAssumption, BackgroundsAssumption
        <3>2. Visited = 1 .. n /\ DOMAIN placed = 1 .. n
            BY <2>2, WalkVisitsAll DEF Holds
        <3>3. ASSUME NEW i \in 1 .. n
              PROVE  Covers(list[i], p, ypos) <=> Wanted(placed[i], p, ypos)
            <4>1. placed[i].x \in Int /\ placed[i].y \in Int
                BY <2>2 DEF Holds, Position
            <4>2. list[i].x = Int16(placed[i].x) /\ list[i].y = Int16(placed[i].y)
                <5>1. Stores(list[i], placed[i])
                    BY <2>2 DEF Holds
                <5> QED
                    BY <5>1 DEF Stores
            <4> QED
                BY <3>1, <4>1, <4>2, NearBothWays DEF Covers, Wanted
        <3> QED
            BY <3>2, <3>3 DEF Shown
    <2> QED
        BY <2>1, <2>2 DEF SpritesInv
<1> QED
    BY <1>1, SpritesInitInv, SpritesStepInv, PTL DEF SpritesSpec

-----------------------------------------------------------------------------
(* Backgrounds: wrapping around, by the guest and by the renderer.         *)

LEMMA NextRemainder ==
    ASSUME NEW n \in Nat \ {0}, NEW a \in Int
    PROVE  NextPixel(a % n, n) = (a + 1) % n
<1> DEFINE q == a \div n
           r == a % n
<1>1. a = n * q + r /\ r \in 0 .. n - 1 /\ q \in Int
    BY DivMod
<1> HIDE DEF q, r
<1>2. n * q \in Int /\ n * (q + 1) = n * q + n /\ q + 1 \in Int
    BY <1>1
<1>3. CASE r + 1 >= n
    <2>1. r + 1 - n = 0 /\ a + 1 = n * (q + 1) + 0 /\ 0 \in 0 .. n - 1
        BY <1>1, <1>2, <1>3
    <2>2. (a + 1) % n = 0
        BY <1>2, <2>1, DivModIs
    <2> QED
        BY <1>3, <2>1, <2>2 DEF NextPixel, r
<1>4. CASE ~(r + 1 >= n)
    <2>1. a + 1 = n * q + (r + 1) /\ r + 1 \in 0 .. n - 1
        BY <1>1, <1>2, <1>4
    <2>2. (a + 1) % n = r + 1
        BY <1>1, <2>1, DivModIs
    <2> QED
        BY <1>4, <2>2 DEF NextPixel, r
<1> QED
    BY <1>3, <1>4

LEMMA ProductInRange ==
    ASSUME NEW h \in Nat, NEW w \in Nat, NEW yp \in 0 .. h - 1, NEW x \in 0 .. w - 1
    PROVE  w * yp + x \in 0 .. w * h - 1
<1>1. w * (h - 1) = w * h - w /\ w * h \in Int
    OBVIOUS
<1>2. w * yp \in Nat /\ w * yp <= w * (h - 1)
    <2>1. h - 1 - yp \in Nat /\ w * (h - 1 - yp) \in Nat
        OBVIOUS
    <2>2. w * (h - 1) = w * yp + w * (h - 1 - yp)
        OBVIOUS
    <2>3. w * yp \in Nat /\ w * (h - 1) \in Int
        OBVIOUS
    <2> QED
        BY ONLY <2>1, <2>2, <2>3
<1> QED
    BY <1>1, <1>2

\* Wrapping a pixel around the map and taking its tile is the same as taking its tile
\* and wrapping that around.
LEMMA TileOfRemainder ==
    ASSUME NEW w \in Nat \ {0}, NEW s \in Nat \ {0}, NEW a \in Int
    PROVE  /\ (a % (w * s)) \div s = (a \div s) % w
           /\ (a % (w * s)) % s = a % s
<1> DEFINE t == a \div s
           u == a % s
           q == t \div w
           v == t % w
           n == w * s
<1>1. a = s * t + u /\ u \in 0 .. s - 1 /\ t \in Int
    BY DivMod
<1> HIDE DEF t, u
<1>2. t = w * q + v /\ v \in 0 .. w - 1 /\ q \in Int
    BY <1>1, DivMod
<1> HIDE DEF q, v
<1>3. n \in Nat \ {0}
    OBVIOUS
<1>4. s * v + u \in 0 .. n - 1
    <2>1. s * w = n
        OBVIOUS
    <2> HIDE DEF n
    <2> QED
        BY <1>1, <1>2, <2>1, ProductInRange
<1>5. a = n * q + (s * v + u)
    <2>1. s * (w * q + v) = s * (w * q) + s * v
        BY <1>2
    <2>2. s * (w * q) = n * q
        BY <1>2
    <2>3. s * v \in Int /\ n * q \in Int
        BY <1>2, <1>3
    <2> QED
        BY <1>1, <1>2, <2>1, <2>2, <2>3
<1> HIDE DEF n
<1>6. a % n = s * v + u
    BY <1>2, <1>3, <1>4, <1>5, DivModIs
<1>7. (s * v + u) \div s = v /\ (s * v + u) % s = u
    BY <1>1, <1>2, DivModIs
<1> QED
    BY <1>6, <1>7 DEF n, v, t, u

LEMMA LeastOf ==
    ASSUME NEW S, S \subseteq Nat, S # {}
    PROVE  \E least \in S : \A other \in S : least <= other
<1>1. PICK least \in S : \A other \in S : <<other, least>> \notin OpToRel(<, Nat)
    BY NatLessThanWellFounded, WFMin
<1>2. ASSUME NEW other \in S PROVE least <= other
    <2>1. <<other, least>> \notin {pair \in Nat \X Nat : pair[1] < pair[2]}
        BY <1>1 DEF OpToRel
    <2> QED
        BY <2>1
<1> QED
    BY <1>2

\* The guest's remainder, brought into range.
LEMMA WraparoundIs ==
    ASSUME NEW a \in Int, NEW n \in Nat \ {0}
    PROVE  Wraparound(a, n) = a % n
<1>1. CASE a >= 0
    <2>1. a % n \in 0 .. n - 1
        BY DivMod
    <2>2. Rem(a, n) = a % n
        BY <1>1 DEF Rem
    <2> QED
        BY <2>1, <2>2 DEF Wraparound
<1>2. CASE a < 0
    <2> DEFINE r == (-a) % n
    <2>1. Rem(a, n) = -r
        BY <1>2 DEF Rem
    <2>2. PICK q \in Int : -a = n * q + r /\ r \in 0 .. n - 1
        <3>1. -a \in Int
            OBVIOUS
        <3> QED
            BY <3>1, DivMod
    <2> HIDE DEF r
    <2>3. r \in Int /\ -r \in Int /\ n * q \in Int /\ a = -(n * q) - r
        BY <2>2
    <2>4. CASE r < 1
        <3> DEFINE k == 0 - q
        <3>1. k \in Int /\ n * k = 0 - n * q
            BY <2>2
        <3> HIDE DEF k
        <3>2. a = n * k + 0 /\ 0 \in 0 .. n - 1
            BY <2>2, <2>3, <2>4, <3>1
        <3>3. a % n = 0
            BY <3>1, <3>2, DivModIs
        <3>4. Rem(a, n) = 0
            BY <2>1, <2>2, <2>3, <2>4
        <3> QED
            BY <3>3, <3>4 DEF Wraparound
    <2>5. CASE ~(r < 1)
        <3> DEFINE k == (0 - q) - 1
        <3>1. k \in Int /\ n * k = (0 - n * q) - n
            BY <2>2
        <3> HIDE DEF k
        <3>2. a = n * k + (n - r) /\ n - r \in 0 .. n - 1
            BY <2>2, <2>3, <2>5, <3>1
        <3>3. a % n = n - r
            BY <3>1, <3>2, DivModIs
        <3>4. Rem(a, n) < 0 /\ Rem(a, n) + n = n - r
            BY <2>1, <2>2, <2>3, <2>5
        <3> QED
            BY <3>3, <3>4 DEF Wraparound
    <2> QED
        BY <2>4, <2>5
<1> QED
    BY <1>1, <1>2

\* sub is the function that Reduced defines.
SubtractsAway(sub, n) ==
    sub = [p \in 0 .. Word - 1 |-> IF p >= n THEN sub[p - n] ELSE p]

\* The renderer's loop of subtractions.
LEMMA ReducedIs ==
    ASSUME NEW n \in Nat \ {0}, NEW pos \in 0 .. Word - 1
    PROVE  Reduced(pos, n) = pos % n
<1>1. ASSUME NEW p \in 0 .. Word - 1
      PROVE  /\ p \in Nat /\ p % n \in Nat
             /\ p < n => p % n = p
             /\ p >= n => p - n \in 0 .. Word - 1 /\ p - n < p /\ (p - n) % n = p % n
    <2>1. p \in Int /\ p \in Nat /\ n \in Int
        BY BackgroundsAssumption
    <2>2. p >= n => p - n \in 0 .. Word - 1 /\ p - n < p
        BY BackgroundsAssumption
    <2>3. \A k \in Int : (p - n * k) % n = p % n
        BY <2>1, ModLessMultiple
    <2>4. (p - n) % n = p % n
        <3>1. PICK k \in Int : k = 1
            OBVIOUS
        <3>2. n * k = n
            BY <3>1
        <3> QED
            BY <2>3, <3>2
    <2> QED
        BY <2>1, <2>2, <2>4
<1>2. \E sub : SubtractsAway(sub, n)
    <2> DEFINE sub == [p \in 0 .. Word - 1 |-> p % n]
    <2>1. ASSUME NEW p \in 0 .. Word - 1
          PROVE  p % n = IF p >= n THEN sub[p - n] ELSE p
        BY <1>1, <2>1
    <2>2. SubtractsAway(sub, n)
        BY <2>1 DEF SubtractsAway
    <2> QED
        BY <2>2
<1>3. ASSUME NEW sub, SubtractsAway(sub, n) PROVE sub[pos] = pos % n
    <2> SUFFICES ASSUME sub[pos] # pos % n PROVE FALSE
        OBVIOUS
    <2> DEFINE Bad == {p \in 0 .. Word - 1 : sub[p] # p % n}
    <2>1. PICK p \in Bad : \A other \in Bad : p <= other
        <3>1. Bad \subseteq Nat /\ Bad # {}
            BY <1>1
        <3> HIDE DEF Bad
        <3> QED
            BY <3>1, LeastOf
    <2>2. p \in 0 .. Word - 1 /\ sub[p] # p % n
        OBVIOUS
    <2>3. sub[p] = IF p >= n THEN sub[p - n] ELSE p
        BY <1>3, <2>2 DEF SubtractsAway
    <2>4. CASE p >= n
        <3>1. p - n \in 0 .. Word - 1 /\ ~(p <= p - n) /\ (p - n) % n = p % n
            BY <1>1, <2>2, <2>4
        <3>2. p - n \notin Bad
            <4> HIDE DEF Bad
            <4> QED
                BY <2>1, <3>1
        <3> QED
            BY <2>2, <2>3, <2>4, <3>1, <3>2
    <2>5. CASE ~(p >= n)
        <3>1. p < n
            BY <1>1, <2>2, <2>5
        <3> QED
            BY <1>1, <2>2, <2>3, <2>5, <3>1
    <2> QED
        BY <2>4, <2>5
<1>4. SubtractsAway(CHOOSE sub : SubtractsAway(sub, n), n)
    BY <1>2
<1> QED
    BY <1>3, <1>4 DEF Reduced, SubtractsAway

\* xpos is the function that Column defines, of the renderer's steps along a line.
StepsAlong(xpos, b, i, n) ==
    xpos = [k \in 0 .. i |-> IF k = 0 THEN Reduced(b.scrollx, n) ELSE NextPixel(xpos[k - 1], n)]

\* The column of pixel i, wrapped around pixel by pixel.
LEMMA ColumnIs ==
    ASSUME NEW b, b.scrollx \in 0 .. Word - 1, NEW n \in Nat \ {0}, b.width * Side = n,
           NEW i \in Nat
    PROVE  Column(b, i) = (b.scrollx + i) % n
<1> DEFINE s == b.scrollx
<1>1. s \in Int /\ Reduced(s, n) = (s + 0) % n
    BY ReducedIs, BackgroundsAssumption
<1>2. ASSUME NEW k \in 0 .. i, k # 0
      PROVE  k - 1 \in 0 .. i /\ NextPixel((s + (k - 1)) % n, n) = (s + k) % n
    <2>1. s + (k - 1) \in Int /\ (s + (k - 1)) + 1 = s + k /\ k - 1 \in 0 .. i
        BY <1>1, <1>2
    <2> QED
        BY <2>1, NextRemainder
<1> HIDE DEF s
<1>3. \E xpos : StepsAlong(xpos, b, i, n)
    <2> DEFINE xpos == [k \in 0 .. i |-> (s + k) % n]
    <2>1. ASSUME NEW k \in 0 .. i
          PROVE  (s + k) % n = IF k = 0 THEN Reduced(s, n) ELSE NextPixel(xpos[k - 1], n)
        BY <1>1, <1>2
    <2>2. StepsAlong(xpos, b, i, n)
        BY <2>1 DEF StepsAlong, s
    <2> QED
        BY <2>2
<1>4. ASSUME NEW xpos, StepsAlong(xpos, b, i, n) PROVE xpos[i] = (s + i) % n
    <2> SUFFICES ASSUME xpos[i] # (s + i) % n PROVE FALSE
        OBVIOUS
    <2> DEFINE Bad == {k \in 0 .. i : xpos[k] # (s + k) % n}
    <2>1. PICK k \in Bad : \A other \in Bad : k <= other
        <3>1. Bad \subseteq Nat /\ Bad # {}
            OBVIOUS
        <3> HIDE DEF Bad
        <3> QED
            BY <3>1, LeastOf
    <2>2. k \in 0 .. i /\ xpos[k] # (s + k) % n
        OBVIOUS
    <2>3. xpos[k] = IF k = 0 THEN Reduced(s, n) ELSE NextPixel(xpos[k - 1], n)
        BY <1>4, <2>2 DEF StepsAlong, s
    <2>4. k # 0
        BY <1>1, <2>2, <2>3
    <2>5. k - 1 \in 0 .. i /\ ~(k <= k - 1)
        BY <2>2, <2>4
    <2>6. k - 1 \notin Bad
        <3> HIDE DEF Bad
        <3> QED
            BY <2>1, <2>5
    <2>7. xpos[k - 1] = (s + (k - 1)) % n
        BY <2>5, <2>6
    <2> QED
        BY <1>2, <2>2, <2>3, <2>4, <2>7
<1>5. StepsAlong(CHOOSE xpos : StepsAlong(xpos, b, i, n), b, i, n)
    BY <1>3
<1> QED
    BY <1>4, <1>5 DEF Column, StepsAlong, s

-----------------------------------------------------------------------------
(* Backgrounds: the registers of a layer and the tiles of the maps.        *)

Register == 0 .. Word - 1

\* n pixels repeated: the position asked for, and the one in the register.
Apart(wanted, scroll, n) == \E k \in Int : wanted = scroll + n * k

\* A layer's registers, and the position its program asked for.
LayerOK(b, a) ==
    /\ b \in [map : File \cup {NoMap}, width : Register, height : Register,
              scrollx : Register, scrolly : Register]
    /\ a \in [known : BOOLEAN, x : Int, y : Int]
    /\ b.map # NoMap => b.map \in File /\ b.width = Size[b.map].w /\ b.height = Size[b.map].h
    /\ a.known => b.scrolly + FBH < Word
    /\ a.known /\ Visible(b) => /\ Apart(a.x, b.scrollx, b.width * Side)
                                /\ Apart(a.y, b.scrolly, b.height * Side)

LayersOK ==
    /\ DOMAIN bgnd = Layer /\ bgnd = [id \in Layer |-> bgnd[id]]
    /\ DOMAIN asked = Layer /\ asked = [id \in Layer |-> asked[id]]
    /\ \A id \in Layer : LayerOK(bgnd[id], asked[id])

\* The map by index and by cell.
TilesOf(f, t, c) ==
    /\ t \in [0 .. Size[f].w * Size[f].h - 1 -> Int]
    /\ c \in [Cells(f) -> Int]
    /\ \A x \in 0 .. Size[f].w - 1, yp \in 0 .. Size[f].h - 1 :
          t[Size[f].w * yp + x] = c[[x |-> x, y |-> yp]]

TilesOK ==
    /\ DOMAIN tiles = File /\ tiles = [f \in File |-> tiles[f]]
    /\ DOMAIN cells = File /\ cells = [f \in File |-> cells[f]]
    /\ \A f \in File : TilesOf(f, tiles[f], cells[f])

MapsLoaded ==
    /\ program \in {"running", "error", "aborted"}
    /\ loaded \subseteq File
    /\ \A id \in Layer : bgnd[id].map \in loaded \cup {NoMap}

BackgroundsInv == LayersOK /\ TilesOK /\ MapsLoaded

LEMMA SizesFit ==
    ASSUME NEW f \in File
    PROVE  /\ Size[f].w \in Nat \ {0} /\ Size[f].h \in Nat \ {0}
           /\ Size[f].w \in Register /\ Size[f].h \in Register
           /\ Size[f].w * Side \in Nat \ {0} /\ Size[f].h * Side \in Nat \ {0}
           /\ Size[f].w * Side < Word /\ Size[f].h * Side + FBH < Word
<1> DEFINE w == Size[f].w
           h == Size[f].h
<1>1. /\ w \in Nat \ {0} /\ h \in Nat \ {0}
      /\ Side \in Nat \ {0} /\ FBW \in Nat \ {0} /\ FBH \in Nat \ {0} /\ Word \in Nat \ {0}
      /\ w * Side + FBW < Word /\ h * Side + FBH < Word
    BY BackgroundsAssumption
<1> HIDE DEF w, h
<1>2. w * Side \in Nat /\ w * Side >= w /\ h * Side \in Nat /\ h * Side >= h
    <2>1. \A m \in Nat : m * Side \in Nat /\ m * Side >= m
        <3> TAKE m \in Nat
        <3>1. PICK s \in Nat : Side = s + 1
            <4>1. Side - 1 \in Nat /\ Side = (Side - 1) + 1
                BY <1>1
            <4> QED
                BY <4>1
        <3>2. m * Side = m * s + m /\ m * s \in Nat
            BY <3>1
        <3> QED
            BY <3>2
    <2> QED
        BY <1>1, <2>1
<1> QED
    BY <1>1, <1>2 DEF w, h, Register

\* What BGNDSCROLL leaves in a register is the position asked for, wrapped around.
LEMMA ScrollIs ==
    ASSUME NEW n \in Nat \ {0}, n < Word, NEW v \in Int
    PROVE  /\ Unsigned(Wraparound(v, n)) \in 0 .. n - 1
           /\ Apart(v, Unsigned(Wraparound(v, n)), n)
<1>1. v = n * (v \div n) + (v % n) /\ v % n \in 0 .. n - 1 /\ v \div n \in Int
    BY DivMod
<1>2. Wraparound(v, n) = v % n
    BY WraparoundIs
<1> DEFINE q == v \div n
           r == v % n
<1> HIDE DEF q, r
<1>3. v = n * q + r /\ r \in 0 .. n - 1 /\ q \in Int /\ Word \in Nat \ {0} /\ n * q \in Int
    BY <1>1, BackgroundsAssumption DEF q, r
<1>4. r % Word = r
    <2>1. r \in 0 .. Word - 1
        BY <1>3
    <2> QED
        BY <1>3, <2>1
<1>5. Unsigned(Wraparound(v, n)) = r
    BY <1>2, <1>4 DEF Unsigned, r
<1>6. v = r + n * q
    BY <1>3
<1> QED
    BY <1>3, <1>5, <1>6 DEF Apart

LEMMA ScrollKeepsLayer ==
    ASSUME NEW b, NEW a, LayerOK(b, a), NEW x \in Int, NEW yp \in Int
    PROVE  LayerOK(Scrolled(b, x, yp), [known |-> Visible(b), x |-> x, y |-> yp])
<1> DEFINE s == Scrolled(b, x, yp)
           sx == Unsigned(Wraparound(x, b.width * Side))
           sy == Unsigned(Wraparound(yp, b.height * Side))
<1>1. b \in [map : File \cup {NoMap}, width : Register, height : Register,
             scrollx : Register, scrolly : Register]
    BY DEF LayerOK
<1>2. s = [b EXCEPT !.scrollx = sx, !.scrolly = sy]
    BY DEF Scrolled
<1>3. /\ s.map = b.map /\ s.width = b.width /\ s.height = b.height
      /\ s.scrollx = sx /\ s.scrolly = sy
    BY <1>1, <1>2
<1>4. sx \in Register /\ sy \in Register
    <2>1. \A n \in Nat, v \in Int : Unsigned(Wraparound(v, n)) \in Register
        <3> TAKE n \in Nat, v \in Int
        <3>1. Wraparound(v, n) \in Int
            <4>1. CASE n = 0
                <5>1. Rem(v, n) = v
                    BY <4>1 DEF Rem
                <5> QED
                    BY <4>1, <5>1 DEF Wraparound
            <4>2. CASE n # 0
                <5>1. v % n \in Int
                    BY <4>2, DivMod
                <5> QED
                    BY <4>2, <5>1, WraparoundIs
            <4> QED
                BY <4>1, <4>2
        <3>2. \A u \in Int : u % Word \in Register
            BY DivMod, BackgroundsAssumption DEF Register
        <3> QED
            BY <3>1, <3>2 DEF Unsigned
    <2>2. b.width \in Nat /\ b.height \in Nat /\ Side \in Nat
        BY <1>1, BackgroundsAssumption DEF Register
    <2>3. b.width * Side \in Nat /\ b.height * Side \in Nat
        BY <2>2
    <2> QED
        BY <2>1, <2>3
<1>5. s \in [map : File \cup {NoMap}, width : Register, height : Register,
             scrollx : Register, scrolly : Register]
    <2> HIDE DEF sx, sy
    <2> QED
        BY <1>1, <1>2, <1>4
<1>6. Visible(s) = Visible(b)
    BY <1>3 DEF Visible
<1>7. ASSUME Visible(b)
      PROVE  /\ s.scrolly + FBH < Word
             /\ Apart(x, s.scrollx, s.width * Side) /\ Apart(yp, s.scrolly, s.height * Side)
    <2>1. b.map \in File /\ b.width = Size[b.map].w /\ b.height = Size[b.map].h
        BY <1>7 DEF Visible, LayerOK
    <2>2. /\ b.width * Side \in Nat \ {0} /\ b.height * Side \in Nat \ {0}
          /\ b.width * Side < Word /\ b.height * Side + FBH < Word
        BY <2>1, SizesFit
    <2> DEFINE n == b.height * Side
    <2>3. n \in Nat \ {0} /\ n < Word /\ n + FBH < Word /\ FBH \in Nat
        BY <2>2, BackgroundsAssumption
    <2>4. sy \in 0 .. n - 1 /\ Apart(yp, sy, n)
        BY <2>3, ScrollIs
    <2>5. Apart(x, sx, b.width * Side)
        BY <2>2, ScrollIs
    <2> HIDE DEF n, sy
    <2>6. sy + FBH < Word
        BY <2>3, <2>4, BackgroundsAssumption
    <2> QED
        BY <1>3, <2>4, <2>5, <2>6 DEF n
<1>8. b.map # NoMap => b.map \in File /\ b.width = Size[b.map].w /\ b.height = Size[b.map].h
    BY DEF LayerOK
<1>9. Visible(b) \in BOOLEAN
    BY DEF Visible
<1> DEFINE next == [known |-> Visible(b), x |-> x, y |-> yp]
<1>10. next \in [known : BOOLEAN, x : Int, y : Int] /\ next.known = Visible(b)
        /\ next.x = x /\ next.y = yp
    BY <1>9
<1> HIDE DEF s, next
<1>11. LayerOK(s, next)
    BY <1>3, <1>5, <1>6, <1>7, <1>8, <1>10 DEF LayerOK
<1> QED
    BY <1>11 DEF s, next

\* BGNDINIT: what is in the registers now counts as what was asked for.
LEMMA InitKeepsLayer ==
    ASSUME NEW b, NEW a, LayerOK(b, a), NEW f \in File
    PROVE  LayerOK([b EXCEPT !.map = f, !.width = Size[f].w, !.height = Size[f].h],
                   [a EXCEPT !.x = b.scrollx, !.y = b.scrolly])
<1> DEFINE s == [b EXCEPT !.map = f, !.width = Size[f].w, !.height = Size[f].h]
           next == [a EXCEPT !.x = b.scrollx, !.y = b.scrolly]
<1>1. /\ b \in [map : File \cup {NoMap}, width : Register, height : Register,
                scrollx : Register, scrolly : Register]
      /\ a \in [known : BOOLEAN, x : Int, y : Int]
      /\ a.known => b.scrolly + FBH < Word
    BY DEF LayerOK
<1>2. /\ s.map = f /\ s.width = Size[f].w /\ s.height = Size[f].h
      /\ s.scrollx = b.scrollx /\ s.scrolly = b.scrolly
    BY <1>1
<1>3. next.known = a.known /\ next.x = b.scrollx /\ next.y = b.scrolly
    BY <1>1
<1>4. b.scrollx \in Int /\ b.scrolly \in Int
    BY <1>1, BackgroundsAssumption DEF Register
<1>5. next \in [known : BOOLEAN, x : Int, y : Int]
    BY <1>1, <1>4
<1>6. s \in [map : File \cup {NoMap}, width : Register, height : Register,
             scrollx : Register, scrolly : Register]
    <2>1. Size[f].w \in Register /\ Size[f].h \in Register
        BY SizesFit
    <2> QED
        BY <1>1, <2>1
<1>7. Apart(b.scrollx, b.scrollx, Size[f].w * Side) /\ Apart(b.scrolly, b.scrolly, Size[f].h * Side)
    <2>1. \A n \in Nat, v \in Int : Apart(v, v, n)
        <3> TAKE n \in Nat, v \in Int
        <3>1. v = v + n * 0
            OBVIOUS
        <3> QED
            BY <3>1 DEF Apart
    <2>2. Size[f].w * Side \in Nat /\ Size[f].h * Side \in Nat
        BY SizesFit
    <2> QED
        BY <1>4, <2>1, <2>2
<1> HIDE DEF s, next
<1>8. LayerOK(s, next)
    BY <1>1, <1>2, <1>3, <1>5, <1>6, <1>7 DEF LayerOK
<1> QED
    BY <1>8 DEF s, next

\* TILEMAPSET: the index and the cell are of one tile, and of one only.
LEMMA SetKeepsTiles ==
    ASSUME NEW f \in File, NEW t, NEW c, TilesOf(f, t, c),
           NEW x \in Int, NEW yp \in Int, NEW tile \in Int
    PROVE  TilesOf(f, [t EXCEPT ![TilemapIndex(f, x, yp)] = tile],
                      [c EXCEPT ![[x |-> x % Size[f].w, y |-> yp % Size[f].h]] = tile])
<1> DEFINE w == Size[f].w
           h == Size[f].h
           xm == x % w
           ym == yp % h
           idx == TilemapIndex(f, x, yp)
           cell == [x |-> xm, y |-> ym]
           tt == [t EXCEPT ![idx] = tile]
           cc == [c EXCEPT ![cell] = tile]
<1>1. w \in Nat \ {0} /\ h \in Nat \ {0}
    BY SizesFit
<1>2. xm \in 0 .. w - 1 /\ ym \in 0 .. h - 1
    BY <1>1, DivMod
<1>3. idx = w * ym + xm
    BY <1>1, WraparoundIs DEF TilemapIndex
<1>4. /\ t \in [0 .. w * h - 1 -> Int] /\ c \in [Cells(f) -> Int]
      /\ \A i \in 0 .. w - 1, j \in 0 .. h - 1 : t[w * j + i] = c[[x |-> i, y |-> j]]
    BY DEF TilesOf
<1>5. Cells(f) = {[x |-> i, y |-> j] : i \in 0 .. w - 1, j \in 0 .. h - 1}
    BY DEF Cells
<1> HIDE DEF w, h, xm, ym, idx
<1>6. tt \in [0 .. w * h - 1 -> Int] /\ cc \in [Cells(f) -> Int]
    BY <1>4
<1>7. ASSUME NEW i \in 0 .. w - 1, NEW j \in 0 .. h - 1
      PROVE  tt[w * j + i] = cc[[x |-> i, y |-> j]]
    <2> DEFINE at == w * j + i
               there == [x |-> i, y |-> j]
    <2>1. at \in 0 .. w * h - 1
        BY <1>1, ProductInRange
    <2>2. there \in Cells(f) /\ there.x = i /\ there.y = j /\ cell.x = xm /\ cell.y = ym
        BY <1>5
    <2>3. at = idx => i = xm /\ j = ym
        <3>1. at \div w = j /\ at % w = i
            BY <1>1, DivModIs
        <3>2. (w * ym + xm) \div w = ym /\ (w * ym + xm) % w = xm
            BY <1>1, <1>2, DivModIs
        <3> QED
            BY <1>3, <3>1, <3>2
    <2>4. i = xm /\ j = ym => at = idx /\ there = cell
        BY <1>3
    <2>5. t[at] = c[there]
        BY <1>4
    <2> HIDE DEF at, there, cell
    <2>6. CASE at = idx
        <3>1. there = cell
            BY <2>3, <2>4, <2>6
        <3>2. tt[at] = tile /\ cc[there] = tile
            BY <1>4, <2>1, <2>2, <2>6, <3>1
        <3> QED
            BY <3>2 DEF at, there
    <2>7. CASE at # idx
        <3>1. there # cell
            BY <2>2, <2>4, <2>7
        <3>2. tt[at] = t[at] /\ cc[there] = c[there]
            BY <1>4, <2>1, <2>2, <2>7, <3>1
        <3> QED
            BY <2>5, <3>2 DEF at, there
    <2> QED
        BY <2>6, <2>7
<1> HIDE DEF tt, cc
<1>8. TilesOf(f, tt, cc)
    BY <1>6, <1>7 DEF TilesOf, w, h
<1> QED
    BY <1>8 DEF tt, cc, idx, cell, xm, ym, w, h

LEMMA BackgroundsInitInv == BackgroundsInit => BackgroundsInv
<1> SUFFICES ASSUME BackgroundsInit PROVE BackgroundsInv
    OBVIOUS
<1>1. /\ bgnd = [id \in Layer |->
                  [map |-> NoMap, width |-> 0, height |-> 0, scrollx |-> 0, scrolly |-> 0]]
      /\ asked = [id \in Layer |-> [known |-> TRUE, x |-> 0, y |-> 0]]
      /\ tiles = [f \in File |-> [i \in 0 .. Size[f].w * Size[f].h - 1 |-> i]]
      /\ cells = [f \in File |-> [c \in Cells(f) |-> c.y * Size[f].w + c.x]]
      /\ program = "running" /\ loaded = {}
    BY DEF BackgroundsInit
<1>2. LayersOK
    <2>1. 0 \in Register /\ 0 + FBH < Word
        BY BackgroundsAssumption DEF Register
    <2>2. ASSUME NEW id \in Layer PROVE LayerOK(bgnd[id], asked[id])
        BY <1>1, <2>1 DEF LayerOK, Visible
    <2> QED
        BY <1>1, <2>2 DEF LayersOK
<1>3. TilesOK
    <2>1. ASSUME NEW f \in File PROVE TilesOf(f, tiles[f], cells[f])
        <3> DEFINE w == Size[f].w
                   h == Size[f].h
        <3>1. w \in Nat \ {0} /\ h \in Nat \ {0}
            BY SizesFit
        <3>2. tiles[f] = [i \in 0 .. w * h - 1 |-> i] /\ cells[f] = [c \in Cells(f) |-> c.y * w + c.x]
            BY <1>1
        <3>3. Cells(f) = {[x |-> i, y |-> j] : i \in 0 .. w - 1, j \in 0 .. h - 1}
            BY DEF Cells
        <3> HIDE DEF w, h
        <3>4. ASSUME NEW x \in 0 .. w - 1, NEW yp \in 0 .. h - 1
              PROVE  tiles[f][w * yp + x] = cells[f][[x |-> x, y |-> yp]]
            <4>1. w * yp + x \in 0 .. w * h - 1
                BY <3>1, ProductInRange
            <4>2. [x |-> x, y |-> yp] \in Cells(f)
                BY <3>3
            <4>3. cells[f][[x |-> x, y |-> yp]] = yp * w + x
                BY <3>2, <4>2
            <4>4. yp * w = w * yp
                BY <3>1
            <4> QED
                BY <3>2, <4>1, <4>3, <4>4
        <3>5. cells[f] \in [Cells(f) -> Int]
            <4>1. ASSUME NEW c \in Cells(f) PROVE c.y * w + c.x \in Int
                <5>1. c.x \in Int /\ c.y \in Int
                    BY <3>1, <3>3
                <5>2. c.y * w \in Int
                    BY <3>1, <5>1
                <5> QED
                    BY <5>1, <5>2
            <4> QED
                BY <3>2, <4>1
        <3>6. tiles[f] \in [0 .. w * h - 1 -> Int]
            BY <3>2
        <3> QED
            BY <3>4, <3>5, <3>6 DEF TilesOf, w, h
    <2> QED
        BY <1>1, <2>1 DEF TilesOK
<1>4. MapsLoaded
    BY <1>1 DEF MapsLoaded
<1> QED
    BY <1>2, <1>3, <1>4 DEF BackgroundsInv

\* A call that changes one layer.
LEMMA LayerChanges ==
    ASSUME LayersOK, NEW id \in Layer, NEW b, NEW a, LayerOK(b, a),
           bgnd' = [bgnd EXCEPT ![id] = b], asked' = [asked EXCEPT ![id] = a]
    PROVE  LayersOK'
<1>1. /\ bgnd' = [i \in Layer |-> IF i = id THEN b ELSE bgnd[i]]
      /\ asked' = [i \in Layer |-> IF i = id THEN a ELSE asked[i]]
    BY DEF LayersOK
<1>2. ASSUME NEW i \in Layer PROVE LayerOK(bgnd'[i], asked'[i])
    <2>1. CASE i = id
        <3>1. bgnd'[i] = b /\ asked'[i] = a
            BY <1>1, <2>1
        <3> QED
            BY <3>1
    <2>2. CASE i # id
        <3>1. bgnd'[i] = bgnd[i] /\ asked'[i] = asked[i]
            BY <1>1, <2>2
        <3> QED
            BY <3>1 DEF LayersOK
    <2> QED
        BY <2>1, <2>2
<1>3. DOMAIN bgnd' = Layer /\ DOMAIN asked' = Layer
    BY <1>1
<1>4. bgnd' = [i \in Layer |-> bgnd'[i]] /\ asked' = [i \in Layer |-> asked'[i]]
    BY <1>1
<1>5. \A i \in Layer : LayerOK(bgnd[i], asked[i])'
    BY <1>2 DEF LayerOK, Visible, Apart, Register
<1> QED
    BY <1>3, <1>4, <1>5 DEF LayersOK, Layer

LEMMA BackgroundsStepInv ==
    BackgroundsInv /\ [BackgroundsNext]_backgroundVars => BackgroundsInv'
<1> SUFFICES ASSUME BackgroundsInv, [BackgroundsNext]_backgroundVars PROVE BackgroundsInv'
    OBVIOUS
<1> USE DEF BackgroundsInv
<1>1. ASSUME NEW how \in {"error", "aborted"}, End(how) PROVE BackgroundsInv'
    BY <1>1 DEF End, LayersOK, LayerOK, Visible, Apart, Register, TilesOK, TilesOf, MapsLoaded
<1>2. ASSUME NEW f \in File, TilemapLoad(f) PROVE BackgroundsInv'
    BY <1>2 DEF TilemapLoad, LayersOK, LayerOK, Visible, Apart, Register, TilesOK, TilesOf,
                MapsLoaded
<1>3. ASSUME NEW f \in File, TilemapFree(f) PROVE BackgroundsInv'
    BY <1>1, <1>3 DEF TilemapFree
<1>4. ASSUME NEW f \in File, NEW x \in Coord, NEW yp \in Coord, TilemapSet(f, x, yp, Blank)
      PROVE  BackgroundsInv'
    <2>1. x \in Int /\ yp \in Int /\ Blank \in Int
        BY BackgroundsAssumption
    <2> DEFINE t == [tiles[f] EXCEPT ![TilemapIndex(f, x, yp)] = Blank]
               c == [cells[f] EXCEPT ![[x |-> x % Size[f].w, y |-> yp % Size[f].h]] = Blank]
    <2>2. tiles' = [tiles EXCEPT ![f] = t] /\ cells' = [cells EXCEPT ![f] = c]
        BY <1>4 DEF TilemapSet
    <2>3. TilesOf(f, tiles[f], cells[f])
        BY DEF TilesOK
    <2>4. TilesOf(f, t, c)
        BY <2>1, <2>3, SetKeepsTiles
    <2> HIDE DEF t, c
    <2>5. /\ tiles' = [g \in File |-> IF g = f THEN t ELSE tiles[g]]
          /\ cells' = [g \in File |-> IF g = f THEN c ELSE cells[g]]
        BY <2>2 DEF TilesOK
    <2>6. ASSUME NEW g \in File PROVE TilesOf(g, tiles'[g], cells'[g])
        <3>1. CASE g = f
            <4>1. tiles'[g] = t /\ cells'[g] = c
                BY <2>5, <3>1
            <4> QED
                BY <2>4, <3>1, <4>1
        <3>2. CASE g # f
            <4>1. tiles'[g] = tiles[g] /\ cells'[g] = cells[g]
                BY <2>5, <3>2
            <4> QED
                BY <4>1 DEF TilesOK
        <3> QED
            BY <3>1, <3>2
    <2>7. TilesOK'
        <3>1. \A g \in File : TilesOf(g, tiles[g], cells[g])'
            BY <2>6 DEF TilesOf
        <3>2. DOMAIN tiles' = File /\ tiles' = [g \in File |-> tiles'[g]]
            BY <2>5
        <3>3. DOMAIN cells' = File /\ cells' = [g \in File |-> cells'[g]]
            BY <2>5
        <3> QED
            BY <3>1, <3>2, <3>3 DEF TilesOK
    <2>8. UNCHANGED <<program, loaded, bgnd, asked>>
        BY <1>4 DEF TilemapSet
    <2>9. LayersOK' /\ MapsLoaded'
        BY <2>8 DEF LayersOK, LayerOK, Visible, Apart, Register, MapsLoaded
    <2> QED
        BY <2>7, <2>9
<1>5. ASSUME UNCHANGED <<program, loaded, tiles, cells>>,
             NEW id \in Layer, NEW b, NEW a, LayerOK(b, a), b.map \in loaded \cup {NoMap},
             bgnd' = [bgnd EXCEPT ![id] = b], asked' = [asked EXCEPT ![id] = a]
      PROVE  BackgroundsInv'
    <2>1. LayersOK'
        BY <1>5, LayerChanges
    <2>2. TilesOK'
        BY <1>5 DEF TilesOK, TilesOf
    <2>3. \A i \in Layer : bgnd'[i].map \in loaded \cup {NoMap}
        <3> TAKE i \in Layer
        <3>1. bgnd'[i] = IF i = id THEN b ELSE bgnd[i]
            BY <1>5 DEF LayersOK
        <3> QED
            BY <1>5, <3>1 DEF MapsLoaded
    <2>4. MapsLoaded'
        BY <1>5, <2>3 DEF MapsLoaded
    <2> QED
        BY <2>1, <2>2, <2>4
<1>6. ASSUME NEW id \in -1 .. Layers + 1, ~Rejected(id), Asserted(id) PROVE id \in Layer
    BY <1>6, BackgroundsAssumption DEF Rejected, Asserted, Layer
<1>7. ASSUME NEW id \in -1 .. Layers + 1, NEW f \in File, BgndInit(id, f)
      PROVE  BackgroundsInv'
    <2>1. CASE Rejected(id)
        BY <1>1, <1>7, <2>1 DEF BgndInit
    <2>2. CASE ~Rejected(id) /\ ~Asserted(id)
        BY <1>1, <1>7, <2>2 DEF BgndInit
    <2>3. CASE ~Rejected(id) /\ Asserted(id)
        <3> DEFINE b == [bgnd[id] EXCEPT !.map = f, !.width = Size[f].w, !.height = Size[f].h]
                   a == [asked[id] EXCEPT !.x = bgnd[id].scrollx, !.y = bgnd[id].scrolly]
        <3>1. id \in Layer
            BY <1>6, <2>3
        <3>2. LayerOK(bgnd[id], asked[id])
            BY <3>1 DEF LayersOK
        <3>3. LayerOK(b, a)
            BY <3>2, InitKeepsLayer
        <3>4. /\ bgnd' = [bgnd EXCEPT ![id] = b] /\ asked' = [asked EXCEPT ![id] = a]
              /\ UNCHANGED <<program, loaded, tiles, cells>> /\ f \in loaded
            BY <1>7, <2>3, <3>1 DEF BgndInit, LayersOK
        <3>5. b.map = f
            BY <3>2 DEF LayerOK
        <3> HIDE DEF b, a
        <3> QED
            BY <1>5, <3>1, <3>3, <3>4, <3>5
    <2> QED
        BY <2>1, <2>2, <2>3
<1>8. ASSUME NEW id \in -1 .. Layers + 1, NEW x \in Coord, NEW yp \in Coord, BgndScroll(id, x, yp)
      PROVE  BackgroundsInv'
    <2>1. CASE Rejected(id)
        BY <1>1, <1>8, <2>1 DEF BgndScroll
    <2>2. CASE ~Rejected(id) /\ ~Asserted(id)
        BY <1>1, <1>8, <2>2 DEF BgndScroll
    <2>3. CASE ~Rejected(id) /\ Asserted(id)
        <3> DEFINE b == Scrolled(bgnd[id], x, yp)
                   a == [known |-> Visible(bgnd[id]), x |-> x, y |-> yp]
        <3>1. id \in Layer /\ x \in Int /\ yp \in Int
            BY <1>6, <2>3, BackgroundsAssumption
        <3>2. LayerOK(bgnd[id], asked[id])
            BY <3>1 DEF LayersOK
        <3>3. LayerOK(b, a)
            BY <3>1, <3>2, ScrollKeepsLayer
        <3>4. /\ bgnd' = [bgnd EXCEPT ![id] = b] /\ asked' = [asked EXCEPT ![id] = a]
              /\ UNCHANGED <<program, loaded, tiles, cells>>
            BY <1>8, <2>3, <3>1 DEF BgndScroll, LayersOK
        <3>5. b.map = bgnd[id].map
            BY <3>2 DEF LayerOK, Scrolled
        <3>6. b.map \in loaded \cup {NoMap}
            BY <3>1, <3>5 DEF MapsLoaded
        <3> HIDE DEF b, a
        <3> QED
            BY <1>5, <3>1, <3>3, <3>4, <3>6
    <2> QED
        BY <2>1, <2>2, <2>3
<1>9. CASE UNCHANGED backgroundVars
    BY <1>9 DEF backgroundVars, LayersOK, LayerOK, Visible, Apart, Register, TilesOK, TilesOf,
                MapsLoaded
<1> QED
    BY <1>2, <1>3, <1>4, <1>7, <1>8, <1>9 DEF BackgroundsNext

\* Types of the backgrounds' state.
THEOREM BackgroundTypes == BackgroundsSpec => []BackgroundsTypeOK
<1>1. BackgroundsInv => BackgroundsTypeOK
    <2> SUFFICES ASSUME BackgroundsInv PROVE BackgroundsTypeOK
        OBVIOUS
    <2>1. \A f \in File : /\ tiles[f] \in [0 .. Size[f].w * Size[f].h - 1 -> Int]
                          /\ cells[f] \in [Cells(f) -> Int]
        BY DEF BackgroundsInv, TilesOK, TilesOf
    <2>2. ASSUME NEW id \in Layer
          PROVE  bgnd[id] \in [map : loaded \cup {NoMap}, width : Register, height : Register,
                               scrollx : Register, scrolly : Register]
        <3>1. LayerOK(bgnd[id], asked[id]) /\ bgnd[id].map \in loaded \cup {NoMap}
            BY DEF BackgroundsInv, LayersOK, MapsLoaded
        <3> QED
            BY <3>1 DEF LayerOK
    <2>3. bgnd \in [Layer -> [map : loaded \cup {NoMap}, width : Register, height : Register,
                              scrollx : Register, scrolly : Register]]
        BY <2>2 DEF BackgroundsInv, LayersOK
    <2> QED
        BY <2>1, <2>3 DEF BackgroundsTypeOK, BackgroundsInv, MapsLoaded, Register
<1> QED
    BY <1>1, BackgroundsInitInv, BackgroundsStepInv, PTL DEF BackgroundsSpec

\* Pixel at of a row of n pixels shows pixel x of w tiles repeated without end.
SamePixel(at, x, n, w, s) ==
    /\ (at % n) \div s = (x \div s) % w
    /\ (at % n) % s = x % s

LEMMA RepeatedTile ==
    ASSUME NEW w \in Nat \ {0}, NEW s \in Nat \ {0}, NEW at \in Int, NEW x \in Int,
           NEW n \in Nat \ {0}, n = w * s, Apart(x, at, n)
    PROVE  SamePixel(at, x, n, w, s)
<1>1. PICK k \in Int : x = at + n * k
    BY DEF Apart
<1>2. n \in Int
    OBVIOUS
<1>3. (x % n) \div s = (x \div s) % w /\ (x % n) % s = x % s
    BY TileOfRemainder
<1>4. n * k \in Int
    BY <1>2
<1>5. x - n * k = at
    BY <1>1, <1>4
<1>6. at % n = x % n
    BY <1>5, ModLessMultiple
<1> QED
    BY <1>3, <1>6 DEF SamePixel

\* For maps and screens of any size, and positions of any sign and size, the screen
\* shows the map repeated from the position last asked for, and no read of the
\* renderer is outside the map.
THEOREM MapIsShown == BackgroundsSpec => []ScreenShowsTiles
<1>1. BackgroundsInv => ScreenShowsTiles
    <2> SUFFICES ASSUME BackgroundsInv, NEW id \in Layer, Visible(bgnd[id]),
                        NEW i \in 0 .. FBW - 1, NEW ypos \in 0 .. FBH - 1
                 PROVE  LET b == bgnd[id]
                            x == i + asked[id].x
                            yp == ypos + asked[id].y
                        IN /\ TileIdx(b, i, ypos) \in DOMAIN tiles[b.map]
                           /\ asked[id].known =>
                                /\ tiles[b.map][TileIdx(b, i, ypos)]
                                     = cells[b.map][[x |-> (x \div Side) % b.width,
                                                     y |-> (yp \div Side) % b.height]]
                                /\ InTile(b, i, ypos) = [x |-> x % Side, y |-> yp % Side]
        BY DEF ScreenShowsTiles
    <2> DEFINE b == bgnd[id]
               a == asked[id]
               f == b.map
               w == b.width
               h == b.height
               x == i + a.x
               yp == ypos + a.y
               down == (ypos + b.scrolly) % Word
               across == b.scrollx + i
               wide == w * Side
               high == h * Side
    <2>1. LayerOK(b, a)
        BY DEF BackgroundsInv, LayersOK
    <2>2. f \in File /\ w = Size[f].w /\ h = Size[f].h
        BY <2>1 DEF LayerOK, Visible
    <2>3. /\ w \in Nat \ {0} /\ h \in Nat \ {0} /\ Side \in Nat \ {0}
          /\ wide \in Nat \ {0} /\ high \in Nat \ {0}
        BY <2>2, SizesFit, BackgroundsAssumption
    <2>4. /\ i \in Nat /\ ypos \in Nat /\ ypos < FBH /\ FBH \in Nat /\ Word \in Nat \ {0}
          /\ b.scrollx \in 0 .. Word - 1 /\ b.scrolly \in 0 .. Word - 1
          /\ a.x \in Int /\ a.y \in Int
        BY <2>1, BackgroundsAssumption DEF LayerOK, Register
    <2>5. /\ across \in Int /\ down \in 0 .. Word - 1 /\ down \in Int
          /\ x \in Int /\ yp \in Int
        <3>1. ypos + b.scrolly \in Int
            BY <2>4
        <3>2. (ypos + b.scrolly) % Word \in 0 .. Word - 1
            BY <2>4, <3>1, DivMod
        <3> QED
            BY <2>4, <3>2
    <2>6. Column(b, i) = across % wide
        BY <2>3, <2>4, ColumnIs
    <2>7. Line(b, ypos) = down % high
        BY <2>3, <2>5, ReducedIs DEF Line
    <2>8. TilesOf(f, tiles[f], cells[f])
        BY <2>2 DEF BackgroundsInv, TilesOK
    <2>9. TileIdx(b, i, ypos)
            = ((down % high) \div Side) * w + ((across % wide) \div Side)
        BY <2>6, <2>7 DEF TileIdx
    <2>10. InTile(b, i, ypos)
             = [x |-> (across % wide) % Side, y |-> (down % high) % Side]
        BY <2>6, <2>7 DEF InTile
    <2>11. ASSUME NEW col \in 0 .. w - 1, NEW row \in 0 .. h - 1
           PROVE  /\ row * w + col \in DOMAIN tiles[f]
                  /\ tiles[f][row * w + col] = cells[f][[x |-> col, y |-> row]]
        <3>1. row * w = w * row
            BY <2>3
        <3>2. w * row + col \in 0 .. w * h - 1
            BY <2>3, ProductInRange
        <3> HIDE DEF w, h
        <3> QED
            BY <2>2, <2>8, <3>1, <3>2 DEF TilesOf
    <2> HIDE DEF across, down, x, yp, wide, high
    <2>12. wide = w * Side /\ high = h * Side
        BY DEF wide, high
    <2> HIDE DEF w, h
    <2>13. TileIdx(b, i, ypos) \in DOMAIN tiles[f]
        <3>1. /\ (across % wide) \div Side = (across \div Side) % w
              /\ (down % high) \div Side = (down \div Side) % h
            BY <2>3, <2>5, <2>12, TileOfRemainder
        <3>2. across \div Side \in Int /\ down \div Side \in Int
            BY <2>3, <2>5, DivMod
        <3>3. (across \div Side) % w \in 0 .. w - 1 /\ (down \div Side) % h \in 0 .. h - 1
            BY <2>3, <3>2, DivMod
        <3> QED
            BY <2>9, <2>11, <3>1, <3>3
    <2>14. ASSUME a.known
           PROVE  /\ tiles[f][TileIdx(b, i, ypos)]
                       = cells[f][[x |-> (x \div Side) % w, y |-> (yp \div Side) % h]]
                  /\ InTile(b, i, ypos) = [x |-> x % Side, y |-> yp % Side]
        <3>1. /\ Apart(a.x, b.scrollx, wide) /\ Apart(a.y, b.scrolly, high)
              /\ b.scrolly + FBH < Word
            BY <2>1, <2>14 DEF LayerOK, wide, high, w, h
        <3>2. down = ypos + b.scrolly
            <4>1. ypos + b.scrolly \in 0 .. Word - 1
                BY <2>4, <3>1
            <4>2. (ypos + b.scrolly) % Word = ypos + b.scrolly
                <5> DEFINE sum == ypos + b.scrolly
                <5> HIDE DEF sum
                <5>1. sum \in 0 .. Word - 1
                    BY <4>1 DEF sum
                <5>2. sum % Word = sum
                    BY <2>4, <5>1
                <5> QED
                    BY <5>2 DEF sum
            <4> QED
                BY <4>2 DEF down
        <3>3. \A n \in Nat, v \in Int, r \in Int, c \in Int :
                 Apart(v, r, n) => Apart(c + v, c + r, n)
            <4> SUFFICES ASSUME NEW n \in Nat, NEW v \in Int, NEW r \in Int, NEW c \in Int,
                                Apart(v, r, n)
                         PROVE  Apart(c + v, c + r, n)
                OBVIOUS
            <4>1. PICK k \in Int : v = r + n * k
                BY DEF Apart
            <4>2. n * k \in Int
                OBVIOUS
            <4>3. c + v = (c + r) + n * k
                BY <4>1, <4>2
            <4> QED
                BY <4>3 DEF Apart
        <3>4. Apart(x, across, wide) /\ Apart(yp, down, high)
            <4>1. b.scrollx \in Int /\ b.scrolly \in Int /\ i \in Int /\ ypos \in Int
                    /\ wide \in Nat /\ high \in Nat
                BY <2>3, <2>4
            <4>2. Apart(i + a.x, i + b.scrollx, wide)
                BY <2>4, <3>1, <3>3, <4>1
            <4>3. Apart(ypos + a.y, ypos + b.scrolly, high)
                BY <2>4, <3>1, <3>3, <4>1
            <4>4. i + b.scrollx = across
                BY <4>1 DEF across
            <4> QED
                BY <3>2, <4>2, <4>3, <4>4 DEF x, yp
        <3>5. SamePixel(across, x, wide, w, Side)
            BY <2>3, <2>5, <2>12, <3>4, RepeatedTile
        <3>6. SamePixel(down, yp, high, h, Side)
            BY <2>3, <2>5, <2>12, <3>4, RepeatedTile
        <3>7. x \div Side \in Int /\ yp \div Side \in Int
            BY <2>3, <2>5, DivMod
        <3>8. (x \div Side) % w \in 0 .. w - 1 /\ (yp \div Side) % h \in 0 .. h - 1
            BY <2>3, <3>7, DivMod
        <3> QED
            BY <2>9, <2>10, <2>11, <3>5, <3>6, <3>8 DEF SamePixel
    <2> QED
        BY <2>13, <2>14 DEF x, yp, w, h
<1> QED
    BY <1>1, BackgroundsInitInv, BackgroundsStepInv, PTL DEF BackgroundsSpec
=============================================================================
