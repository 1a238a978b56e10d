------------------------------- MODULE Status -------------------------------
(***************************************************************************)
(* kernel/util/status.c: the page of text that status and time_status draw *)
(* over what an earlier call drew, with the functions of lfb.c.            *)
(*                                                                         *)
(* A text is what is drawn by one call: its column, its meaning, the value *)
(* it shows, its length and its colour; the letter k of a text stands for  *)
(* whatever glyph that is.  Registers have the values that the page tells  *)
(* apart.  One call is one step: no other code draws on the page, and      *)
(* nothing calls status while a call of it is under way.                   *)
(***************************************************************************)
EXTENDS Integers, SequencesExt, FiniteSets

CONSTANTS
    Readings,       \* what the registers and the clock may show
    SecondTicks,    \* ticks of the clock in a second (1000000)
    MaxReports      \* calls in a behaviour

ASSUME StatusAssumption == SecondTicks \in Nat \ {0} /\ MaxReports \in Nat
(* The mode of the screen and the frequency of the timer are set at boot.  *)
ASSUME ModeAssumption ==
    \A r, q \in Readings : r.width = q.width /\ r.height = q.height /\ r.frq = q.frq

VARIABLES
    regs,           \* the registers now
    page,           \* the letters drawn on each line, by column
    reported,       \* the last call and the registers that it read
    reports         \* calls so far

statusVars == <<regs, page, reported, reports>>

Lines == 0 .. 8
Columns == 0 .. 63
Letter(what, val, k, c) == [what |-> what, val |-> val, k |-> k, c |-> c]
Blank == Letter("blank", 0, 1, "white")
Dark == <<>>
LetterAt(line, x) == IF x \in DOMAIN line THEN line[x] ELSE Blank

(* draw_cstring and its siblings, one after the other: a column shows its  *)
(* letter of the last text that covers it.                                 *)
Span(t) == t.x .. t.x + t.len - 1
Drawn(t, x) == IF t.what = "blank" THEN Blank ELSE Letter(t.what, t.val, x - t.x + 1, t.c)
Line(line, texts) ==
    LET Covering(x) == {i \in DOMAIN texts : x \in Span(texts[i])}
    IN [x \in DOMAIN line \cup UNION {Span(texts[i]) : i \in DOMAIN texts} |->
           IF Covering(x) = {} THEN line[x] ELSE Drawn(texts[Max(Covering(x))], x)]

(* The decimal digits of a number: what draw_u10 returns. *)
Width(n) == 1 + Cardinality({k \in 1 .. 9 : n >= 10 ^ k})

Shown(x, what, val, len, c) == [x |-> x, what |-> what, val |-> val, len |-> len, c |-> c]
Colored(x, what, len, c) == Shown(x, what, 0, len, c)
Label(x, what, len)      == Colored(x, what, len, "white")
Blanks(x, len)           == Label(x, "blank", len)
draw_chex32(x, what, val, c) == Shown(x, what, val, 8, c)
draw_hex32(x, what, val)     == draw_chex32(x, what, val, "white")
draw_u10(x, what, val)       == Shown(x, what, val, Width(val), "white")
-----------------------------------------------------------------------------
(* output_irq_status: routing and enabled interrupts, and what the UART,   *)
(* the system timer and the core's timer interrupt: the core by IRQ, by    *)
(* FIQ, or not at all.                                                     *)
Colour(irq, fiq) == IF irq THEN "green" ELSE IF fiq THEN "orange" ELSE "red"
RoutingLine(r) ==
    <<Shown(0, "irq core", r.routing % 4, 1, "blue"),
      Shown(1, "fiq core", (r.routing \div 4) % 4, 1, "blue"),
      draw_chex32(4, "basic", r.basic, "blue"), draw_chex32(13, "irq1", r.irq1, "blue"),
      draw_chex32(22, "irq2", r.irq2, "blue"),  draw_chex32(31, "fiq", r.fiq, "blue")>>
SourcesLine(r) ==
    <<Colored(0, "UART", 4, Colour(25 \in r.irq2, r.fiq = 57)),
      Colored(5, "STIMERCMP", 9, Colour(0 \in r.irq1, r.fiq = 1)),
      Colored(15, "LTIMER", 6, Colour(r.local % 16 # 0, r.local >= 16))>>

(* The frequency, the timer's value, blanks, and the value again.          *)
(* Mutant: nothing clears the rest of the line.                            *)
ValueColumn(r) == 8 + Width(r.frq) + 1 + 4
TimerLineUncleared(r) ==
    LET y == ValueColumn(r) + Width(r.tval) + 1 IN
    <<Colored(0, "TIMER", 5, "green"), Label(6, "at", 1), draw_u10(8, "frq", r.frq),
      Label(ValueColumn(r) - 4, "kHz", 3), draw_u10(ValueColumn(r), "tval", r.tval),
      Label(y + 1, "bar", 1), draw_hex32(y + 3, "tval hex", r.tval)>>

TimerLine(r) ==
    LET y == ValueColumn(r) + Width(r.tval) + 1 IN
    <<Colored(0, "TIMER", 5, "green"), Label(6, "at", 1), draw_u10(8, "frq", r.frq),
      Label(ValueColumn(r) - 4, "kHz", 3), draw_u10(ValueColumn(r), "tval", r.tval),
      Blanks(y, 27), Label(y + 1, "bar", 1), draw_hex32(y + 3, "tval hex", r.tval)>>

(* The mode of the screen, the stacks of the four modes, and the core. *)
VideoLine(r) ==
    LET x == 6 + Width(r.width) IN
    <<Colored(0, "VIDEO", 5, "green"), draw_u10(6, "width", r.width),
      draw_u10(x + 1, "height", r.height), Label(x, "x", 1),
      Label(x + Width(r.height) + 2, IF r.rgb THEN "RGB" ELSE "BGR", 3)>>
StacksLine(r) == [m \in 1 .. 4 |-> draw_hex32(9 * (m - 1), "stack", r.stacks[m])]
StatusLines(r) ==
    <<<<Colored(7, "v", 1, "cyan"), Colored(0, "os_name", 6, "red"), Colored(8, "os_info_v", 6, "cyan")>>,
      RoutingLine(r), SourcesLine(r), TimerLine(r), VideoLine(r),
      <<Label(0, "modes", 36)>>, StacksLine(r),
      <<Label(0, "Updated by Core", 24), draw_hex32(24, "core", r.core)>>>>

(* time_status: the clock's words and its seconds. *)
TimeLine(r) ==
    <<Label(0, "Sys Timer Status", 16), draw_hex32(17, "CS", r.cs), Label(25, "colon", 1),
      draw_hex32(25, "high", r.time.high), draw_hex32(33, "low", r.time.low),
      draw_hex32(42, "C0", r.c0), Label(50, "bar", 1), Blanks(51, 11),
      draw_u10(51, "seconds", r.time.low \div SecondTicks)>>

(* What a call leaves of a page. *)
StatusPage(p, r) ==
    [y \in Lines |-> Line(p[y], IF y = 8 THEN TimeLine(r) ELSE StatusLines(r)[y + 1])]
TimePage(p, r) == [p EXCEPT ![8] = Line(@, TimeLine(r))]
-----------------------------------------------------------------------------
StatusInit ==
    /\ regs \in Readings /\ page = [y \in Lines |-> Dark]
    /\ reported = [call |-> "none", regs |-> regs] /\ reports = 0

(* The hardware: the registers change between two calls. *)
Change == regs' \in Readings \ {regs} /\ UNCHANGED <<page, reported, reports>>

Report(call, p) ==
    /\ reports < MaxReports /\ reports' = reports + 1
    /\ page' = p /\ reported' = [call |-> call, regs |-> regs] /\ UNCHANGED regs
status      == Report("status", StatusPage(page, regs))
time_status == Report("time_status", TimePage(page, regs))

StatusNext == Change \/ status \/ time_status
StatusSpec == StatusInit /\ [][StatusNext]_statusVars
-----------------------------------------------------------------------------
(* The column behind the timer's value is drawn by nobody (status.c:99). *)
BehindValue == ValueColumn(reported.regs) + Width(reported.regs.tval)

(* Whatever the calls before drew, longer numbers too, the page looks as   *)
(* if it had been dark before the last call: nothing of an older reading   *)
(* is left on a line that the call draws.  Left out is the column behind   *)
(* the timer's value, where a digit of a longer value stays.               *)
ShowsTheLatest ==
    LET fresh == StatusPage([y \in Lines |-> Dark], reported.regs) IN
    \A y \in Lines, x \in Columns :
        (reported.call = "status" \/ (reported.call = "time_status" /\ y = 8)) =>
            \/ LetterAt(page[y], x) = LetterAt(fresh[y], x)
            \/ y = 3 /\ x = BehindValue
=============================================================================
