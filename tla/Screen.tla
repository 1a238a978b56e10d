------------------------------- MODULE Screen -------------------------------
(***************************************************************************)
(* kernel/graphics: mbox.c asks the VideoCore for a frame buffer, lfb.c    *)
(* draws into it by walking a pointer through memory.                      *)
(*                                                                         *)
(* An address is counted in pixels from the start of a memory: the frame,  *)
(* or low memory, where the driver draws when it has no frame (lfb is 0).  *)
(* Writes behind the end of a memory are left out.  A colour is a triple   *)
(* of channels; the glyph of a letter is the set of its lit pixels.        *)
(***************************************************************************)
EXTENDS Integers, SequencesExt

CONSTANTS
    GlyphX, GlyphY,     \* size of a letter
    MaxX, MaxY,         \* GG_MAX_X, GG_MAX_Y: letters on the screen
    FWidth, FHeight,    \* size of the two boxes of lfb_showpicture
    Font,               \* the lit pixels of the letters 0 .. 127
    Grants,             \* what the VideoCore may answer
    Boxes, Texts, Values, Colours,  \* arguments of the drawing functions
    MaxCalls            \* drawing calls in a behaviour

Black == <<0, 0, 0>>
Swapped(c) == <<c[3], c[2], c[1]>>

ASSUME ScreenAssumption ==
    /\ {GlyphX, GlyphY, MaxX, MaxY} \subseteq Nat \ {0} /\ {FWidth, FHeight} \subseteq Nat
    /\ \A g \in Grants :
          /\ {g.width, g.height, g.pitch} \subseteq Nat /\ g.pitch >= g.width /\ g.rgb \in BOOLEAN
          /\ FWidth <= g.width /\ 2 * FHeight <= g.height
          /\ \A b \in Boxes : /\ {b.x, b.y, b.dx, b.dy} \subseteq Nat
                             /\ b.x + b.dx <= g.width /\ b.y + b.dy <= g.height
    /\ Colours \subseteq Nat \X Nat \X Nat /\ Values \subseteq Nat /\ Texts \subseteq Seq(Nat)

VARIABLES
    grant,              \* the mode that the VideoCore is in
    mail,               \* where lfb_init is; mailbox full; the messages to read;
                        \*   and mbox, the answer in it, once there is one
    fb,                 \* lfb (at), gwidth, gheight, gpitch, gisrgb
    memory,             \* the two memories
    before,             \* the frame before the last drawing call
    drawn,              \* that call
    calls               \* drawing calls so far

screenVars == <<grant, mail, fb, memory, before, drawn, calls>>

Unanswered == [response |-> FALSE]
Nothing == [what |-> "nothing"]
Unchanged == <<>>

ScreenInit ==
    /\ grant \in Grants
    /\ \E full \in BOOLEAN :
          mail = [step |-> "off", full |-> full, inbox |-> <<>>, mbox |-> Unanswered]
    /\ fb = [at |-> "low", width |-> 0, height |-> 0, pitch |-> 0, rgb |-> FALSE]
    /\ memory = [low   |-> [a \in 0 .. 3 |-> Black],
                 frame |-> [a \in 0 .. grant.pitch * grant.height - 1 |-> Black]]
    /\ before = memory.frame /\ drawn = Nothing /\ calls = 0
-----------------------------------------------------------------------------
(* The VideoCore takes messages out of a full mailbox, answers the message *)
(* in mbox, and sends messages on other channels.                          *)
Drain  == mail.full /\ mail' = [mail EXCEPT !.full = FALSE]
Answer == /\ mail.step = "asked"
          /\ mail' = [mail EXCEPT !.step = "answered", !.mbox = grant,
                                  !.inbox = Append(@, "answer")]
Other  == /\ mail.step \in {"off", "asked"} /\ mail.inbox = <<>>
          /\ mail' = [mail EXCEPT !.inbox = <<"other">>]
VideoCore == (Drain \/ Answer \/ Other) /\ UNCHANGED <<grant, fb, memory, before, drawn, calls>>

(* lfb_init, mbox_call: write when the mailbox is not full, read messages  *)
(* until one is the answer, and take over the mode if it has a frame.      *)
lfb_init ==
    /\ mail.step = "off" /\ mail' = [mail EXCEPT !.step = "write", !.mbox = Unanswered]
    /\ UNCHANGED <<grant, fb, memory, before, drawn, calls>>
mbox_write ==
    /\ mail.step = "write" /\ ~ mail.full /\ mail' = [mail EXCEPT !.step = "asked"]
    /\ UNCHANGED <<grant, fb, memory, before, drawn, calls>>

HasFrame(m) == m.response /\ m.depth = 32 /\ m.frame
mbox_read ==
    /\ mail.step \in {"asked", "answered"} /\ mail.inbox # <<>>
    /\ LET done == Head(mail.inbox) = "answer" IN
       /\ mail' = [mail EXCEPT !.inbox = Tail(@), !.step = IF done THEN "done" ELSE @]
       /\ fb' = IF done /\ HasFrame(mail.mbox)
                THEN [at |-> "frame", width |-> mail.mbox.width, height |-> mail.mbox.height,
                      pitch |-> mail.mbox.pitch, rgb |-> mail.mbox.rgb]
                ELSE fb
    /\ UNCHANGED <<grant, memory, before, drawn, calls>>
-----------------------------------------------------------------------------
(* What is added to the pointer behind a row of dx pixels.                 *)
(* Mutant: the row itself is not taken off.                                *)
RowStepWhole(pitch, dx) == pitch

RowStep(pitch, dx) == pitch - dx

(* A picture of dx by dy pixels from ptr on; of rows that overlap the last *)
(* one stays.                                                              *)
Paint(m, ptr, dx, dy, picture) ==
    LET Row[j \in 0 .. dy] == IF j = 0 THEN ptr ELSE Row[j - 1] + dx + RowStep(fb.pitch, dx)
        Rows(a) == {j \in 0 .. dy - 1 : a - Row[j] \in 0 .. dx - 1}
        Stored(c) == IF fb.rgb THEN Swapped(c) ELSE c
    IN [a \in DOMAIN m |-> IF Rows(a) = {} THEN m[a]
                           ELSE LET j == Max(Rows(a)) IN Stored(picture[<<a - Row[j], j>>])]

draw_cbox(m, x, y, dx, dy, c) ==
    Paint(m, fb.pitch * y + x, dx, dy, [q \in (0 .. dx - 1) \X (0 .. dy - 1) |-> c])
draw_cpixel(m, x, y, c) == draw_cbox(m, x, y, 1, 1, c)

draw_cletter(m, x, y, letter, c) ==
    Paint(m, fb.pitch * y * GlyphY + x * GlyphX, GlyphX, GlyphY,
          [q \in (0 .. GlyphX - 1) \X (0 .. GlyphY - 1) |->
              IF q \in Font[letter % 128] THEN c ELSE Black])
HexLetter(n) == (n % 16) + 48 + (IF n % 16 > 9 THEN 7 ELSE 0)

(* The loop of draw_cstring and draw_chex32.  The column is compared with  *)
(* > GG_MAX_X, so that a line takes one letter more than fits.             *)
NextLetter(S, letter, c) ==
    LET x == S.x + 1 IN
    [m |-> draw_cletter(S.m, S.x, S.y, letter, c),
     x |-> IF x > MaxX THEN 0 ELSE x, y |-> IF x > MaxX THEN S.y + 1 ELSE S.y]
Letters(m, x0, y0, s, c) ==
    LET S[k \in 0 .. Len(s)] ==
            IF k = 0 THEN [m |-> m, x |-> x0 % MaxX, y |-> y0 % MaxY]
            ELSE NextLetter(S[k - 1], s[k], c)
    IN S[Len(s)].m

(* The nibbles of val that draw_chex32 shows, as many as a glyph is wide;  *)
(* the digits of draw_cu10.                                                *)
HexLetters(v) == [i \in 1 .. GlyphX |-> HexLetter(v \div 16 ^ (GlyphX - i))]
Decimal(v) ==
    LET D[n \in 0 .. v] == IF n < 10 THEN <<n + 48>> ELSE Append(D[n \div 10], (n % 10) + 48)
    IN D[v]

(* clear_screen goes on from row to row without regard to the pitch. *)
clear_screen(m) ==
    [a \in DOMAIN m |-> IF a < fb.width * fb.height THEN Black ELSE m[a]]
lfb_showpicture(m, c, d) ==
    draw_cbox(draw_cbox(clear_screen(m), fb.width - FWidth, fb.height - FHeight * 2,
                        FWidth, FHeight, c),
              fb.width - FWidth, fb.height - FHeight, FWidth, FHeight, d)

Draw(call, m) ==
    /\ mail.step = "done" /\ calls < MaxCalls
    /\ calls' = calls + 1 /\ drawn' = call /\ before' = memory.frame
    /\ memory' = [memory EXCEPT ![fb.at] = m]
    /\ UNCHANGED <<grant, mail, fb>>

(* Boxes and pixels are called for inside the screen. *)
DrawBox(b, c) ==
    Draw([what |-> "box", box |-> b, c |-> c],
         IF b.dx = 1 /\ b.dy = 1 THEN draw_cpixel(memory[fb.at], b.x, b.y, c)
         ELSE draw_cbox(memory[fb.at], b.x, b.y, b.dx, b.dy, c))
DrawText(x, y, s, c) ==
    Draw([what |-> "text", x |-> x, y |-> y, s |-> s, c |-> c], Letters(memory[fb.at], x, y, s, c))
ShowPicture(c, d) ==
    Draw([what |-> "picture", c |-> c, d |-> d], lfb_showpicture(memory[fb.at], c, d))

ScreenNext ==
    \/ VideoCore \/ lfb_init \/ mbox_write \/ mbox_read
    \/ \E b \in Boxes, c \in Colours : DrawBox(b, c)
    \/ \E x \in 0 .. MaxX, y \in 0 .. MaxY - 1, c \in Colours :
          \/ \E s \in Texts : DrawText(x, y, s, c)
          \/ \E v \in Values : DrawText(x, y, HexLetters(v), c) \/ DrawText(x, y, Decimal(v), c)
    \/ \E c, d \in Colours : ShowPicture(c, d)

ScreenSpec == ScreenInit /\ [][ScreenNext]_screenVars
-----------------------------------------------------------------------------
(* The picture by coordinates: what a call shows at a pixel, Unchanged if  *)
(* it leaves the pixel alone.                                              *)
InBox(p, x, y, dx, dy) == p[1] \in x .. x + dx - 1 /\ p[2] \in y .. y + dy - 1
Place(k) ==                 \* column and line of the letter k of a text
    LET n == (drawn.x % MaxX) + k - 1 IN
    <<n % (MaxX + 1), (drawn.y % MaxY) + n \div (MaxX + 1)>>
TextPixel(p) ==
    LET ks == {k \in DOMAIN drawn.s : Place(k) = <<p[1] \div GlyphX, p[2] \div GlyphY>>}
    IN IF ks = {} THEN Unchanged
       ELSE IF <<p[1] % GlyphX, p[2] % GlyphY>> \in Font[drawn.s[Max(ks)] % 128] THEN drawn.c ELSE Black
Asked(p) ==
    CASE drawn.what = "box" ->
            IF InBox(p, drawn.box.x, drawn.box.y, drawn.box.dx, drawn.box.dy) THEN drawn.c ELSE Unchanged
      [] drawn.what = "text" -> TextPixel(p)
      [] drawn.what = "picture" ->
            IF p[1] < grant.width - FWidth \/ p[2] < grant.height - 2 * FHeight THEN Black
            ELSE IF p[2] < grant.height - FHeight THEN drawn.c ELSE drawn.d

(* Pixels that a letter lands on which does not fit between its column and *)
(* the end of the row in memory: its column is in a row above, past the    *)
(* pitch.  In the mode asked for this is the letter too many on a line.    *)
Spilled(p) ==
    /\ drawn.what = "text"
    /\ \E k \in DOMAIN drawn.s, r \in 1 .. p[2] :
          InBox(<<p[1] + r * grant.pitch, p[2] - r>>,
                Place(k)[1] * GlyphX, Place(k)[2] * GlyphY, GlyphX, GlyphY)

(* The screen, read in the mode that the VideoCore is really in, shows at  *)
(* every pixel what the last call asked for there, and elsewhere what it   *)
(* showed before: in the right order of channels, whatever the pitch, and  *)
(* with lines that wrap.  Left out are the pixels of a letter past the end *)
(* of a row, and clear_screen for a pitch that is not the width.           *)
ShownIn(m, p) ==
    LET c == m[p[2] * grant.pitch + p[1]] IN IF grant.rgb THEN Swapped(c) ELSE c
ShowsWhatWasAsked ==
    (fb.at = "frame" /\ drawn # Nothing /\ (drawn.what = "picture" => grant.pitch = grant.width)) =>
        \A p \in (0 .. grant.width - 1) \X (0 .. grant.height - 1) :
            Spilled(p) \/ ShownIn(memory.frame, p) =
                              (IF Asked(p) = Unchanged THEN ShownIn(before, p) ELSE Asked(p))
=============================================================================
