------------------------------- MODULE SdCard -------------------------------
(***************************************************************************)
(* The SD card driver of later/sd.c against a card and a host controller   *)
(* that may fail.  A loop that polls a register is the answer it ends with:*)
(* the flag in time, an error flag, or the count at zero, when the card    *)
(* may have done what it was asked or not.                                 *)
(*                                                                         *)
(* sd_status does not get past an error flag that is set, and only sd_cmd, *)
(* behind sd_status, and the reset clear it.  Clients: one call at a time, *)
(* and sd_readblock only after an sd_init that returned SD_OK.             *)
(***************************************************************************)
EXTENDS Integers, Sequences

CONSTANTS
    Cards,          \* kinds of card: high capacity, what its SCR offers, how often
                    \*   it answers ACMD41 with "busy" at first, and whether that
                    \*   answer has the bits of the voltage
    Requests,       \* lba and num of the calls of sd_readblock
    MaxFaults       \* faults in a behaviour

Tries == 6          \* attempts at ACMD41
Block == 512

ASSUME CardsAssumption ==
    Cards \subseteq [hc : BOOLEAN, scr : SUBSET {"BUS_WIDTH_4", "SET_BLKCNT"}, polls : Nat,
               volts : BOOLEAN]
ASSUME RequestsAssumption == Requests \subseteq [lba : Nat, num : Int] /\ MaxFaults \in Nat

VARIABLES
    card,           \* the card: kind, state, app (APP_CMD was last), width, rca,
                    \*   count (SET_BLOCKCNT was last), busy answers left, and the
                    \*   next block and the blocks left (-1: until STOP_TRANS) of a read
    host,           \* EMMC: bus width, clock, an error flag in INTERRUPT
    sd,             \* sd_scr, sd_rca, sd_err
    step,           \* where the driver is; "closed" or "ready" between calls
    ask,            \* lba and num of sd_readblock
    got,            \* the blocks in its buffer
    tries, ccs,     \* cnt and ccs of sd_init
    ended,          \* the last call that returned: its name and whether with success
    faults, blame   \* faults so far; this call met one, or what one left behind

sdVars == <<card, host, sd, step, ask, got, tries, ccs, ended, faults, blame>>

SdInit ==
    /\ \E k \in Cards :
          card = [kind |-> k, state |-> "idle", app |-> FALSE, width |-> 1, rca |-> 0,
                  count |-> 0, busy |-> k.polls, next |-> 0, left |-> 0]
    /\ host = [width |-> 1, clock |-> "off", error |-> FALSE]
    /\ sd = [scr |-> {}, rca |-> 0, err |-> "OK"]
    /\ step = "closed" /\ ask = [lba |-> 0, num |-> 1] /\ got = <<>>
    /\ tries = 0 /\ ccs = FALSE /\ ended = [call |-> "none", ok |-> TRUE]
    /\ faults = 0 /\ blame = FALSE

(* How a wait ends.  "lost": nothing happened; "late": it happened, and    *)
(* the count had run out; "error": an error flag.                          *)
Outcomes == {"ok"} \cup (IF faults < MaxFaults THEN {"lost", "late", "error"} ELSE {})
Blamed(os) ==
    LET bad == \E o \in os : o # "ok" IN
    faults' = (IF bad THEN faults + 1 ELSE faults) /\ blame' = (blame \/ bad)
-----------------------------------------------------------------------------
(* The card: in which state it takes a command, and what it does then.     *)
Accepts(c, cmd) ==
    \/ cmd \in {"GO_IDLE", "APP_CMD"}
    \/ cmd = "SEND_IF_COND"  /\ c.state = "idle"
    \/ cmd = "SEND_OP_COND"  /\ c.state = "idle" /\ c.app
    \/ cmd = "ALL_SEND_CID"  /\ c.state = "ready"
    \/ cmd = "SEND_REL_ADDR" /\ c.state \in {"ident", "stby"}
    \/ cmd = "CARD_SELECT"   /\ c.state = "stby"
    \/ cmd = "STOP_TRANS"    /\ c.state = "data"
    \/ cmd \in {"SEND_SCR", "SET_BUS_WIDTH"} /\ c.state = "tran" /\ c.app
    \/ cmd \in {"SET_BLOCKCNT", "READ_SINGLE", "READ_MULTI"} /\ c.state = "tran"

React(c, cmd, arg) ==
    LET d == [c EXCEPT !.app = (cmd = "APP_CMD"),
                       !.count = IF cmd = "SET_BLOCKCNT" THEN arg ELSE 0]
        first == IF c.kind.hc THEN arg ELSE arg \div Block
        Read(n, left) == [d EXCEPT !.state = "data", !.next = n, !.left = left]
    IN CASE cmd = "GO_IDLE"       -> [d EXCEPT !.state = "idle", !.width = 1, !.busy = c.kind.polls]
         [] cmd = "SEND_OP_COND"  -> IF c.busy > 0 THEN [d EXCEPT !.busy = @ - 1]
                                     ELSE [d EXCEPT !.state = "ready"]
         [] cmd = "ALL_SEND_CID"  -> [d EXCEPT !.state = "ident"]
         [] cmd = "SEND_REL_ADDR" -> [d EXCEPT !.state = "stby", !.rca = 1]
         [] cmd \in {"CARD_SELECT", "STOP_TRANS"} -> [d EXCEPT !.state = "tran"]
         [] cmd = "SET_BUS_WIDTH" -> [d EXCEPT !.width = 4]
         [] cmd = "SEND_SCR"      -> Read(0, 1)
         [] cmd = "READ_SINGLE"   -> Read(first, 1)
         [] cmd = "READ_MULTI"    -> Read(first, IF c.count = 0 THEN -1 ELSE c.count)
         [] OTHER                 -> d

(* What sd_cmd makes of the response of a card that is now in d. *)
Response(d, cmd) == /\ cmd = "SEND_OP_COND" => d.state = "ready"
                    /\ cmd = "APP_CMD" => d.app

(* An illegal command is not answered, and was a command all the same. *)
Refusing(c) == [c EXCEPT !.app = FALSE, !.count = 0]

(* sd_cmd for one command on the wire: the response is FALSE, 0 in C, when *)
(* there is none.                                                          *)
Issue(c, cmd, arg, o) ==
    IF host.error \/ o = "lost" THEN [card |-> c, err |-> "TIMEOUT", r |-> FALSE]
    ELSE IF o = "error" THEN [card |-> c, err |-> "ERROR", r |-> FALSE]
    ELSE IF ~ Accepts(c, cmd) THEN [card |-> Refusing(c), err |-> "TIMEOUT", r |-> FALSE]
    ELSE LET d == React(c, cmd, arg) IN
         IF o = "late" THEN [card |-> d, err |-> "TIMEOUT", r |-> FALSE]
         ELSE [card |-> d, err |-> "OK", r |-> Response(d, cmd)]

(* sd_cmd with APP_CMD in front when the command needs it.  The error of   *)
(* APP_CMD stays in sd_err even when the command itself succeeds.          *)
AppCommands == {"SEND_OP_COND", "SEND_SCR", "SET_BUS_WIDTH"}
AppOutcomes(cmd) == IF cmd \in AppCommands THEN Outcomes ELSE {"ok"}
sd_cmd(cmd, arg, app, o) ==
    IF cmd \notin AppCommands THEN Issue(card, cmd, arg, o)
    ELSE LET a == Issue(card, "APP_CMD", sd.rca, app)
             b == Issue(a.card, cmd, arg, o)
         IN IF sd.rca # 0 /\ ~ a.r THEN [card |-> a.card, err |-> "ERROR", r |-> FALSE]
            ELSE [b EXCEPT !.err = IF @ = "OK" THEN a.err ELSE @]
-----------------------------------------------------------------------------
Goto(s)       == step' = s /\ UNCHANGED ended
Return(c, ok) == /\ step' = (IF c = "init" /\ ~ ok THEN "closed" ELSE "ready")
                 /\ ended' = [call |-> c, ok |-> ok]
InitFailed == Return("init", FALSE)
ReadFailed == Return("read", FALSE)

(* sd_init, from the reset of the controller on.  Steps that send one      *)
(* command and return sd_err when it fails are in the table Plain.         *)
sd_init ==
    /\ step \in {"closed", "ready"}
    /\ step' = "reset" /\ blame' = FALSE /\ ended' = [call |-> "none", ok |-> TRUE]
    /\ UNCHANGED <<card, host, sd, ask, got, tries, ccs, faults>>

Reset ==
    /\ step = "reset"
    /\ host' = [width |-> 1, clock |-> "off", error |-> FALSE]
    /\ \E o \in Outcomes \ {"error"} :
          Blamed({o}) /\ IF o = "ok" THEN Goto("slow") ELSE InitFailed
    /\ UNCHANGED <<card, sd, ask, got, tries, ccs>>

(* sd_clk(400000) and sd_clk(25000000).  It may give up before the clock   *)
(* is set, or after; behind the first one the driver's variables are reset.*)
sd_clk ==
    /\ step \in {"slow", "fast"}
    /\ \E o \in Outcomes \ {"error"} :
          /\ Blamed({o})
          /\ host' = IF o = "lost" THEN host ELSE [host EXCEPT !.clock = step]
          /\ IF o = "ok" THEN Goto(IF step = "slow" THEN "idle" ELSE "select") ELSE InitFailed
          /\ sd' = IF o = "ok" /\ step = "slow" THEN [scr |-> {}, rca |-> 0, err |-> "OK"] ELSE sd
    /\ UNCHANGED <<card, ask, got, tries, ccs>>

Plain == [idle   |-> <<"GO_IDLE", "if_cond">>,
          if_cond |-> <<"SEND_IF_COND", "op_cond">>,
          select |-> <<"CARD_SELECT", "inhibit">>,
          scr    |-> <<"SEND_SCR", "scr_ready">>]
PlainCommand ==
    /\ step \in DOMAIN Plain
    /\ \E o \in Outcomes, app \in AppOutcomes(Plain[step][1]) :
          LET R == sd_cmd(Plain[step][1], sd.rca, app, o) IN
          /\ Blamed({o, app})
          /\ card' = R.card /\ sd' = [sd EXCEPT !.err = R.err]
          /\ IF R.err = "OK" THEN Goto(Plain[step][2]) ELSE InitFailed
    /\ tries' = 0
    /\ UNCHANGED <<host, ask, got, ccs>>

(* ACMD41 until the card is ready.  A time-out is tried again; success at  *)
(* the last try counts as a time-out, because cnt is 0 then.  A card that  *)
(* does not take the voltage is refused.                                   *)
(* Mutant: one attempt less.                                               *)
GivesUpEarly(n) == n = Tries - 1

GivesUp(n) == n = Tries
OpCond ==
    /\ step = "op_cond"
    /\ \E o, app \in Outcomes :
          LET R == sd_cmd("SEND_OP_COND", 0, app, o) IN
          /\ Blamed({o, app})
          /\ card' = R.card /\ sd' = [sd EXCEPT !.err = R.err]
          /\ IF R.err = "ERROR" \/ GivesUp(tries + 1) \/ (R.r /\ ~ card.kind.volts)
             THEN InitFailed
             ELSE Goto(IF R.r THEN "rel_addr" ELSE "op_cond")
          /\ ccs' = (R.r /\ R.card.kind.hc)
    /\ tries' = tries + 1
    /\ UNCHANGED <<host, ask, got>>

(* ALL_SEND_CID, whose error is not looked at, and SEND_REL_ADDR. *)
RelAddr ==
    /\ step = "rel_addr"
    /\ \E o, p \in Outcomes :
          LET Q == sd_cmd("ALL_SEND_CID", 0, "ok", o)
              R == Issue(Q.card, "SEND_REL_ADDR", 0, p)
          IN /\ Blamed({o, p})
             /\ card' = R.card
             /\ sd' = [sd EXCEPT !.err = R.err, !.rca = IF R.r THEN R.card.rca ELSE 0]
             /\ IF R.err = "OK" THEN Goto("fast") ELSE InitFailed
    /\ UNCHANGED <<host, ask, got, tries, ccs>>

(* sd_status(SR_DAT_INHIBIT) passes: no read is under way and no error     *)
(* flag is set.                                                            *)
DataLinesFree == card.state # "data" /\ ~ host.error
Inhibit ==
    /\ step = "inhibit"
    /\ IF DataLinesFree THEN Goto("scr") ELSE InitFailed
    /\ UNCHANGED <<card, host, sd, ask, got, tries, ccs, faults, blame>>

(* One block arrives, sd_int(INT_READ_RDY) in time.  Otherwise the card    *)
(* may be left sending, and the controller may set its error flag after    *)
(* sd_int has given up.                                                    *)
BlockArrives ==
    /\ card.state = "data" /\ host.width = card.width
    /\ card' = [card EXCEPT !.next = @ + 1,
                            !.left = IF @ > 0 THEN @ - 1 ELSE @,
                            !.state = IF card.left = 1 THEN "tran" ELSE "data"]
    /\ UNCHANGED host
BlockMissing(o) ==
    /\ \/ UNCHANGED card
       \/ card.left = 1 /\ card' = [card EXCEPT !.state = "tran"]
    /\ host' = [host EXCEPT !.error = (o = "late")]

(* The SCR register, and the loop that waits for its two words without     *)
(* counting: when they do not come, it never ends.                         *)
ScrReady ==
    /\ step = "scr_ready"
    /\ \E o \in Outcomes :
          /\ Blamed({o})
          /\ IF o = "ok" THEN BlockArrives /\ Goto("scr_data") ELSE BlockMissing(o) /\ InitFailed
    /\ UNCHANGED <<sd, ask, got, tries, ccs>>
ScrData ==
    /\ step = "scr_data"
    /\ \E o \in Outcomes \ {"late", "error"} :
          /\ Blamed({o})
          /\ IF o = "lost" THEN Goto("scr_forever") /\ UNCHANGED sd
             ELSE Goto("width") /\ sd' = [sd EXCEPT !.scr = card.kind.scr]
    /\ UNCHANGED <<card, host, ask, got, tries, ccs>>
ScrForever == step = "scr_forever" /\ UNCHANGED sdVars

(* The wide bus, when the card has one; then the software flag CCS.        *)
(* Mutant: sd_err is not looked at.                                        *)
WidthSetUnchecked(err) == TRUE

WidthSet(err) == err = "OK"
BusWidth ==
    /\ step = "width"
    /\ IF "BUS_WIDTH_4" \in sd.scr
       THEN \E o, app \in Outcomes :
               LET R == sd_cmd("SET_BUS_WIDTH", 2, app, o) IN
               /\ Blamed({o, app})
               /\ card' = R.card
               /\ IF WidthSet(R.err)
                  THEN /\ host' = [host EXCEPT !.width = 4] /\ Return("init", TRUE)
                       /\ sd' = [sd EXCEPT !.err = R.err,
                                           !.scr = @ \cup (IF ccs THEN {"CCS"} ELSE {})]
                  ELSE sd' = [sd EXCEPT !.err = R.err] /\ InitFailed /\ UNCHANGED host
       ELSE /\ Return("init", TRUE)
            /\ sd' = [sd EXCEPT !.scr = @ \cup (IF ccs THEN {"CCS"} ELSE {})]
            /\ UNCHANGED <<card, host, faults, blame>>
    /\ UNCHANGED <<ask, got, tries, ccs>>
-----------------------------------------------------------------------------
(* sd_readblock: one command in front of all blocks for a card of high     *)
(* capacity, one in front of each block otherwise.                         *)
sd_readblock(q) ==
    /\ step = "ready"
    /\ ask' = [q EXCEPT !.num = IF @ < 1 THEN 1 ELSE @] /\ got' = <<>>
    /\ blame' = (~ DataLinesFree /\ faults > 0)
    /\ IF DataLinesFree
       THEN /\ step' = (IF "CCS" \in sd.scr THEN "count" ELSE "single")
            /\ ended' = [call |-> "none", ok |-> TRUE] /\ UNCHANGED sd
       ELSE ReadFailed /\ sd' = [sd EXCEPT !.err = "TIMEOUT"]
    /\ UNCHANGED <<card, host, tries, ccs, faults>>

(* A command of sd_readblock: on to the step next, or return 0. *)
ReadCommand(cmd, arg, next) ==
    \E o \in Outcomes :
        LET R == sd_cmd(cmd, arg, "ok", o) IN
        /\ Blamed({o})
        /\ card' = R.card /\ sd' = [sd EXCEPT !.err = R.err]
        /\ IF R.err = "OK" THEN Goto(next) ELSE ReadFailed
        /\ UNCHANGED <<host, ask, got, tries, ccs>>

SetBlockCount ==
    /\ step = "count"
    /\ IF ask.num > 1 /\ "SET_BLKCNT" \in sd.scr THEN ReadCommand("SET_BLOCKCNT", ask.num, "command")
       ELSE Goto("command") /\ UNCHANGED <<card, host, sd, ask, got, tries, ccs, faults, blame>>
ReadAll == step = "command" /\ ReadCommand(IF ask.num = 1 THEN "READ_SINGLE" ELSE "READ_MULTI",
                                           ask.lba, "data")

(* Mutant: every block is the first one. *)
ReadOneAgain == step = "single" /\ ReadCommand("READ_SINGLE", ask.lba * Block, "data")

ReadOne == step = "single" /\ ReadCommand("READ_SINGLE", (ask.lba + Len(got)) * Block, "data")

(* The blocks, and behind the last one STOP_TRANS, when the card was not   *)
(* told how many.                                                          *)
AfterBlock(n) ==
    IF n < ask.num THEN (IF "CCS" \in sd.scr THEN "data" ELSE "single")
    ELSE IF ask.num > 1 /\ "SET_BLKCNT" \notin sd.scr /\ "CCS" \in sd.scr THEN "stop" ELSE "return"
ReadData ==
    /\ step = "data"
    /\ \E o \in Outcomes :
          /\ Blamed({o})
          /\ IF o = "ok"
             THEN /\ BlockArrives /\ got' = Append(got, card.next)
                  /\ Goto(AfterBlock(Len(got) + 1)) /\ UNCHANGED sd
             ELSE /\ BlockMissing(o) /\ ReadFailed /\ UNCHANGED got
                  /\ sd' = [sd EXCEPT !.err = IF o = "error" THEN "ERROR" ELSE "TIMEOUT"]
    /\ UNCHANGED <<ask, tries, ccs>>
StopTrans  == step = "stop" /\ ReadCommand("STOP_TRANS", 0, "return")
ReadReturn == /\ step = "return" /\ Return("read", TRUE)
              /\ UNCHANGED <<card, host, sd, ask, got, tries, ccs, faults, blame>>

SdNext ==
    \/ sd_init \/ Reset \/ sd_clk \/ PlainCommand \/ OpCond \/ RelAddr \/ Inhibit
    \/ ScrReady \/ ScrData \/ ScrForever \/ BusWidth
    \/ \E q \in Requests : sd_readblock(q)
    \/ SetBlockCount \/ ReadAll \/ ReadOne \/ ReadData \/ StopTrans \/ ReadReturn

SdSpec == SdInit /\ [][SdNext]_sdVars
-----------------------------------------------------------------------------
(* sd_readblock never returns data that is not what was asked for: the     *)
(* blocks from lba on, in order, whatever earlier calls left unfinished.   *)
ReadsWhatWasAsked ==
    ended = [call |-> "read", ok |-> TRUE] => got = [i \in 1 .. ask.num |-> ask.lba + i - 1]

(* After an sd_init that returned SD_OK, through all that follows, driver, *)
(* controller and card agree about the width of the bus, the address of    *)
(* the card, how it counts blocks, and what it can do.                     *)
AgreesWithCard ==
    step = "ready" =>
        /\ host.width = card.width /\ host.clock = "fast"
        /\ sd.rca = card.rca /\ card.state \in {"tran", "data"}
        /\ sd.scr = card.kind.scr \cup (IF card.kind.hc THEN {"CCS"} ELSE {})

(* A call fails only for a reason: a fault while it ran, a read that an    *)
(* earlier fault left unfinished or an error flag that came after it; and  *)
(* sd_init, which clears both away, for a card that is busy for all tries  *)
(* at ACMD41 but the last, or that does not take the voltage.              *)
FailsForAReason ==
    ~ ended.ok => \/ blame
                  \/ ended.call = "init" /\ (card.kind.polls >= Tries - 1 \/ ~ card.kind.volts)
=============================================================================
