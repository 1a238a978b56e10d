------------------------------ MODULE MCDevices ------------------------------
(***************************************************************************)
(* The parts of the system that run without the scheduler's state.  They   *)
(* share nothing: a behaviour is one of the part that it is of, and the    *)
(* other parts stay in one of their initial states.                        *)
(***************************************************************************)
EXTENDS SdCard, Text, Screen, Clock, Status

(* Cards of both capacities, with one, the other or no feature, and ready  *)
(* at once, at the last try that counts, and one try too late; and one     *)
(* that does not take the voltage.                                         *)
MCCards == {[hc |-> TRUE, scr |-> {}, polls |-> 4, volts |-> FALSE]} \cup
           {[hc |-> h, scr |-> s, polls |-> p, volts |-> TRUE] :
                h \in BOOLEAN, s \in {{}, {"BUS_WIDTH_4"}, {"SET_BLKCNT"}}, p \in {0, 4, 5}}
MCRequests == {[lba |-> 0, num |-> 1], [lba |-> 3, num |-> 2], [lba |-> 1, num |-> 0]}

(* Numbers at which the count of digits or the sign changes; all short     *)
(* strings of two chars; squares and their neighbours.                     *)
W(h, l) == [hi |-> h, lo |-> l]
MCWords == {W(0, 0), W(0, 7), W(0, 10), W(0, 999), W(0, 1000), W(1, 0), W(15, 16959),
            W(32767, 65535), W(32768, 0), W(32768, 1), W(65535, 65535), W(15258, 51712)}
MCStrings == UNION {[1 .. n -> {65, 66}] : n \in 0 .. 3}
MCSquares == 0 .. 1100 \cup
    UNION {{k * k - 1, k * k, k * k + 1} : k \in {128, 255, 256, 1000, 4095, 4096, 32766, 32767,
                                              32768, 46339}}

(* A screen of 2 letters by 2, each of 2 pixels by 2 whose code says which *)
(* are lit; modes with either order of channels and with a longer pitch,   *)
(* and the ways in which there is no frame.                                *)
MCFont == [l \in 0 .. 127 |-> {p \in (0 .. 1) \X (0 .. 1) : (l \div 2 ^ (p[1] + 2 * p[2])) % 2 = 1}]
Mode(pitch, rgb) == [response |-> TRUE, depth |-> 32, frame |-> TRUE,
                     width |-> 4, height |-> 4, pitch |-> pitch, rgb |-> rgb]
MCGrants == {Mode(4, TRUE), Mode(4, FALSE), Mode(5, FALSE)} \cup
            {[Mode(4, TRUE) EXCEPT !.response = FALSE], [Mode(4, TRUE) EXCEPT !.depth = 16],
             [Mode(4, TRUE) EXCEPT !.frame = FALSE]}
MCBoxes == {[x |-> 0, y |-> 0, dx |-> 4, dy |-> 4], [x |-> 3, y |-> 3, dx |-> 1, dy |-> 1],
            [x |-> 1, y |-> 1, dx |-> 3, dy |-> 2]}
MCTexts == {<<65>>, <<66, 71>>, <<65, 66, 71>>, <<69, 71, 66, 77, 72>>}
MCColours == {<<1, 0, 0>>, <<1, 1, 0>>}

(* Readings that differ in the length of a number or in a colour; the mode *)
(* of the screen, the frequency and the stacks stay.                       *)
Reading(tval, low, irq2, fiq, irq1, local) ==
    [routing |-> 4, basic |-> 1, irq1 |-> irq1, irq2 |-> irq2, fiq |-> fiq, local |-> local,
     frq |-> 19200, tval |-> tval, width |-> 1920, height |-> 1080, rgb |-> TRUE,
     stacks |-> <<4, 5, 6, 7>>, core |-> 0, cs |-> 0, c0 |-> 9, time |-> [high |-> 1, low |-> low]]
MCDark == Reading(7, 0, {}, 0, {}, 0)
MCReadings ==
    {Reading(tval, low, {25}, 0, {}, 8) : tval \in {7, 93, 1000}, low \in {0, 9000000, 42000000}} \cup
    {Reading(7, 0, {}, fiq, {}, local) : fiq \in {0, 1, 57}, local \in {0, 128}} \cup
    {Reading(7, 0, {25}, 0, {0}, 0)}

VARIABLE part       \* the part that this behaviour is of; never changed

Parts == {"sd", "text", "screen", "clock", "status"}

MCInit ==
    /\ part \in Parts
    /\ SdInit     /\ (part = "sd"     \/ card.kind = [hc |-> TRUE, scr |-> {}, polls |-> 0, volts |-> TRUE])
    /\ TextInit   /\ (part = "text"   \/ fn = "strcmp")
    /\ ScreenInit /\ (part = "screen" \/ (grant = Mode(4, TRUE) /\ ~ mail.full))
    /\ ClockInit  /\ (part = "clock"  \/ now = 0)
    /\ StatusInit /\ (part = "status" \/ regs = MCDark)

MCNext ==
    \/ part = "sd"     /\ SdNext     /\ UNCHANGED <<part, textVars, screenVars, clockVars, statusVars>>
    \/ part = "text"   /\ TextNext   /\ UNCHANGED <<part, sdVars, screenVars, clockVars, statusVars>>
    \/ part = "screen" /\ ScreenNext /\ UNCHANGED <<part, sdVars, textVars, clockVars, statusVars>>
    \/ part = "clock"  /\ ClockNext  /\ UNCHANGED <<part, sdVars, textVars, screenVars, statusVars>>
    \/ part = "status" /\ StatusNext /\ UNCHANGED <<part, sdVars, textVars, screenVars, clockVars>>
=============================================================================
