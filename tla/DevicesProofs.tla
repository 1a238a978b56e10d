---------------------------- MODULE DevicesProofs ----------------------------
(***************************************************************************)
(* Proofs about the parts that run without the scheduler's state: the SD   *)
(* card's driver, the clock, the arithmetic, the strings and the numbers   *)
(* that are formatted, the page of status and the screen.  The parts share *)
(* nothing, and each of the theorems is about the specification of one.    *)
(***************************************************************************)
EXTENDS SdCard, Clock, Text, Status, Screen, SequenceTheorems, FiniteSetTheorems,
        WellFoundedInduction, TLAPS

(* A set of numbers that is not empty has a least one. *)
LEMMA FirstOne ==
    ASSUME NEW T \in SUBSET Nat, T # {}
    PROVE  \E x \in T : \A y \in T : x <= y
<1>1. PICK x \in T : \A y \in T : ~ (<<y, x>> \in OpToRel(<, Nat))
  BY WFMin, NatLessThanWellFounded
<1>2. \A y \in T : ~ (y < x)
  BY <1>1 DEF OpToRel
<1>3. QED
  BY <1>2
-----------------------------------------------------------------------------
CardStates == {"idle", "ready", "ident", "stby", "tran", "data"}
CardType == [kind : Cards, state : CardStates, app : BOOLEAN, width : {1, 4}, rca : {0, 1},
             count : Int, busy : Nat, next : Int, left : Int]
HostType == [width : {1, 4}, clock : {"off", "slow", "fast"}, error : BOOLEAN]
SdType   == [scr : SUBSET {"BUS_WIDTH_4", "SET_BLKCNT", "CCS"}, rca : {0, 1},
             err : {"OK", "TIMEOUT", "ERROR"}]

(* sd_init from the reset of the controller to the width of the bus, and   *)
(* sd_readblock.                                                           *)
Attached == {"inhibit", "scr", "scr_ready", "scr_data", "scr_forever", "width"}
Addressed == {"fast", "select"} \cup Attached
InInit == {"slow", "idle", "if_cond", "op_cond", "rel_addr"} \cup Addressed
InRead == {"count", "command", "single", "data", "stop", "return"}

SdTypeOK ==
    /\ card \in CardType /\ host \in HostType /\ sd \in SdType
    /\ step \in {"closed", "ready", "reset"} \cup InInit \cup InRead
    /\ ask \in [lba : Nat, num : Int] /\ ask.num >= 1
    /\ got \in Seq(Int) /\ tries \in Nat /\ ccs \in BOOLEAN
    /\ ended \in [call : {"none", "init", "read"}, ok : BOOLEAN]
    /\ faults \in Nat /\ blame \in BOOLEAN

(* Blocks are counted in advance only for a card that can, and only a      *)
(* fault is blamed.                                                        *)
HistoryOK ==
    /\ "SET_BLKCNT" \notin card.kind.scr => card.count = 0
    /\ blame => faults > 0
    /\ step \notin {"closed", "ready"} => ended.ok /\ ended.call = "none"
    /\ step = "closed" => ended.call # "read"

(* In sd_init. *)
InitOK ==
    /\ step \in InInit => ~ host.error /\ host.width = 1
    /\ step \in InInit \ {"slow", "idle"} => card.width = 1
    /\ step \in {"idle", "if_cond", "op_cond", "rel_addr"} => sd.rca = 0
    /\ step \in Addressed => sd.rca = card.rca
    /\ step \in Addressed \cup {"rel_addr"} => ccs = card.kind.hc
    /\ step \in Attached \cup {"select"} => host.clock = "fast"
    /\ step = "width" => sd.scr = card.kind.scr
    /\ step = "if_cond" => card.state = "idle" /\ card.busy = card.kind.polls
    /\ step = "rel_addr" => card.state = "ready"
    /\ step \in {"fast", "select"} => card.state = "stby"
    /\ step \in Attached \ {"scr_ready"} => card.state = "tran"
    /\ step = "scr_ready" => card.state = "data" /\ card.left = 1

(* ACMD41 without a fault: each attempt so far found the card busy. *)
OpCondOK ==
    step = "op_cond" /\ ~ blame => card.state = "idle" /\ card.busy + tries = card.kind.polls

(* Between and in the calls of sd_readblock. *)
Agrees ==
    /\ host.width = card.width /\ host.clock = "fast"
    /\ sd.rca = card.rca /\ card.state \in {"tran", "data"}
    /\ sd.scr = card.kind.scr \cup (IF card.kind.hc THEN {"CCS"} ELSE {})
ReadyOK ==
    /\ step \in InRead \cup {"ready"} => Agrees
    /\ step = "ready" => DataLinesFree \/ faults > 0

(* What the card still has to send. *)
Left ==
    IF ~ card.kind.hc \/ ask.num = 1 THEN 1
    ELSE IF "SET_BLKCNT" \in card.kind.scr THEN ask.num - Len(got) ELSE -1
ReadOK ==
    /\ step \in InRead \/ (ended.call = "read" /\ ended.ok)
          => \A i \in 1 .. Len(got) : got[i] = ask.lba + i - 1
    /\ step \in InRead => ~ host.error
    /\ step \in {"count", "command"} => Len(got) = 0 /\ card.kind.hc
    /\ step \in {"count", "command", "single", "return"} => card.state = "tran"
    /\ step = "command" /\ ask.num > 1 /\ "SET_BLKCNT" \in card.kind.scr => card.count = ask.num
    /\ step = "single" => ~ card.kind.hc
    /\ step \in {"single", "data"} => Len(got) < ask.num
    /\ step = "data" => /\ card.state = "data" /\ card.left = Left
                        /\ card.next = ask.lba + Len(got)
    /\ step = "stop" => card.state = "data" /\ Len(got) = ask.num
    /\ step = "return" \/ (ended.call = "read" /\ ended.ok) => Len(got) = ask.num

SInv == /\ SdTypeOK /\ HistoryOK /\ InitOK /\ OpCondOK /\ ReadyOK /\ ReadOK
        /\ FailsForAReason
-----------------------------------------------------------------------------
(***************************************************************************)
(* Commands.                                                               *)
(***************************************************************************)
Reads == {"READ_SINGLE", "READ_MULTI"}
Commands == {"GO_IDLE", "APP_CMD", "SEND_IF_COND", "SEND_OP_COND", "ALL_SEND_CID",
             "SEND_REL_ADDR", "CARD_SELECT", "SEND_SCR", "SET_BUS_WIDTH", "SET_BLOCKCNT",
             "STOP_TRANS"} \cup Reads

(* Updates of a card that come together, one by one. *)
WithAnswer(c, v, n) == [c EXCEPT !.app = v, !.count = n]
InTransfer(c, n, l) == [c EXCEPT !.state = "data", !.next = n, !.left = l]

LEMMA Answered ==
    ASSUME NEW c \in CardType, NEW v \in BOOLEAN, NEW n \in Int
    PROVE  LET y == WithAnswer(c, v, n) IN
           /\ y \in CardType /\ y.app = v /\ y.count = n
           /\ y.kind = c.kind /\ y.state = c.state /\ y.width = c.width /\ y.rca = c.rca
           /\ y.busy = c.busy /\ y.next = c.next /\ y.left = c.left
<1> DEFINE x == [c EXCEPT !.app = v]
           y == [x EXCEPT !.count = n]
<1>1. /\ x \in CardType /\ x.app = v /\ x.kind = c.kind /\ x.state = c.state /\ x.width = c.width
      /\ x.rca = c.rca /\ x.busy = c.busy /\ x.next = c.next /\ x.left = c.left
  BY DEF CardType
<1>2. WithAnswer(c, v, n) = y
  BY DEF WithAnswer
<1> HIDE DEF x
<1>3. /\ y \in CardType /\ y.app = x.app /\ y.count = n /\ y.kind = x.kind /\ y.state = x.state
      /\ y.width = x.width /\ y.rca = x.rca /\ y.busy = x.busy /\ y.next = x.next /\ y.left = x.left
  BY <1>1 DEF CardType
<1> HIDE DEF y
<1>4. QED
  BY <1>1, <1>2, <1>3

LEMMA RefusalFacts ==
    ASSUME NEW c \in CardType
    PROVE  LET y == Refusing(c) IN
           /\ y \in CardType /\ y.count = 0
           /\ y.kind = c.kind /\ y.state = c.state /\ y.width = c.width /\ y.rca = c.rca
           /\ y.busy = c.busy /\ y.next = c.next /\ y.left = c.left
<1> DEFINE v == FALSE
<1>1. Refusing(c) = WithAnswer(c, v, 0) /\ v \in BOOLEAN
  BY DEF Refusing, WithAnswer
<1> HIDE DEF v
<1>2. QED
  BY <1>1, Answered

LEMMA Sending ==
    ASSUME NEW c \in CardType, NEW n \in Int, NEW l \in Int
    PROVE  LET y == InTransfer(c, n, l) IN
           /\ y \in CardType /\ y.state = "data" /\ y.next = n /\ y.left = l
           /\ y.kind = c.kind /\ y.app = c.app /\ y.width = c.width /\ y.rca = c.rca
           /\ y.busy = c.busy /\ y.count = c.count
<1> DEFINE w == [c EXCEPT !.state = "data"]
           x == [w EXCEPT !.next = n]
           y == [x EXCEPT !.left = l]
<1>1. /\ w \in CardType /\ w.state = "data" /\ w.kind = c.kind /\ w.app = c.app
      /\ w.width = c.width /\ w.rca = c.rca /\ w.busy = c.busy /\ w.count = c.count
  BY DEF CardType, CardStates
<1>2. InTransfer(c, n, l) = y
  BY DEF InTransfer
<1> HIDE DEF w
<1>3. /\ x \in CardType /\ x.state = w.state /\ x.next = n /\ x.kind = w.kind /\ x.app = w.app
      /\ x.width = w.width /\ x.rca = w.rca /\ x.busy = w.busy /\ x.count = w.count
  BY <1>1 DEF CardType
<1> HIDE DEF x
<1>4. /\ y \in CardType /\ y.state = x.state /\ y.next = x.next /\ y.left = l /\ y.kind = x.kind
      /\ y.app = x.app /\ y.width = x.width /\ y.rca = x.rca /\ y.busy = x.busy
      /\ y.count = x.count
  BY <1>3 DEF CardType
<1> HIDE DEF y
<1>5. QED
  BY <1>1, <1>2, <1>3, <1>4

(* What each command changes in the card. *)
LEMMA Reactions ==
    ASSUME NEW c \in CardType, NEW cmd \in Commands, NEW a0 \in Int
    PROVE  LET d == React(c, cmd, a0) IN
           /\ d \in CardType /\ d.kind = c.kind /\ d.app = (cmd = "APP_CMD")
           /\ d.count = (IF cmd = "SET_BLOCKCNT" THEN a0 ELSE 0)
           /\ d.width = (IF cmd = "GO_IDLE" THEN 1 ELSE IF cmd = "SET_BUS_WIDTH" THEN 4 ELSE c.width)
           /\ d.rca = (IF cmd = "SEND_REL_ADDR" THEN 1 ELSE c.rca)
           /\ cmd = "GO_IDLE" => d.state = "idle" /\ d.busy = c.kind.polls
           /\ cmd = "SEND_OP_COND" =>
                 IF c.busy > 0 THEN d.state = c.state /\ d.busy = c.busy - 1
                 ELSE d.state = "ready" /\ d.busy = c.busy
           /\ cmd \notin {"GO_IDLE", "SEND_OP_COND"} => d.busy = c.busy
           /\ cmd = "ALL_SEND_CID" => d.state = "ident"
           /\ cmd = "SEND_REL_ADDR" => d.state = "stby"
           /\ cmd \in {"CARD_SELECT", "STOP_TRANS"} => d.state = "tran"
           /\ cmd \in {"APP_CMD", "SEND_IF_COND", "SET_BUS_WIDTH", "SET_BLOCKCNT"} => d.state = c.state
           /\ cmd \in Reads \cup {"SEND_SCR"} => d.state = "data"
           /\ cmd \in Reads => d.next = (IF c.kind.hc THEN a0 ELSE a0 \div Block)
           /\ cmd \in {"READ_SINGLE", "SEND_SCR"} => d.left = 1
           /\ cmd = "READ_MULTI" => d.left = (IF c.count = 0 THEN -1 ELSE c.count)
<1> DEFINE b == [c EXCEPT !.app = (cmd = "APP_CMD"),
                          !.count = IF cmd = "SET_BLOCKCNT" THEN a0 ELSE 0]
           first == IF c.kind.hc THEN a0 ELSE a0 \div Block
<1>1. /\ b \in CardType /\ b.busy = c.busy
      /\ b.kind = c.kind /\ b.app = (cmd = "APP_CMD") /\ b.width = c.width /\ b.rca = c.rca
      /\ b.state = c.state /\ b.count = (IF cmd = "SET_BLOCKCNT" THEN a0 ELSE 0)
  <2> DEFINE v == cmd = "APP_CMD"
             n == IF cmd = "SET_BLOCKCNT" THEN a0 ELSE 0
  <2>1. v \in BOOLEAN /\ n \in Int
    OBVIOUS
  <2>2. b = WithAnswer(c, v, n)
    BY DEF WithAnswer
  <2> HIDE DEF v, n, b
  <2>3. QED
    BY <2>1, <2>2, Answered DEF v, n
<1>2. c.kind.polls \in Nat
  BY CardsAssumption DEF CardType
<1>3. first \in Int
  <2>1. a0 \div 512 \in Int
    OBVIOUS
  <2>2. QED
    BY <2>1 DEF Block
<1>a. CASE cmd = "GO_IDLE"
  <2>1. React(c, cmd, a0) = [b EXCEPT !.state = "idle", !.width = 1, !.busy = c.kind.polls]
    BY <1>a DEF React
  <2> HIDE DEF b, first
  <2>2. QED
    BY <1>a, <1>1, <1>2, <1>3, <2>1 DEF CardType, CardStates, Reads
<1>b. CASE cmd = "SEND_OP_COND"
  <2>1. React(c, cmd, a0) = IF c.busy > 0 THEN [b EXCEPT !.busy = b.busy - 1]
                             ELSE [b EXCEPT !.state = "ready"]
    BY <1>b DEF React
  <2> HIDE DEF b, first
  <2>2. QED
    BY <1>b, <1>1, <1>2, <1>3, <2>1 DEF CardType, CardStates, Reads
<1>c. CASE cmd = "ALL_SEND_CID"
  <2>1. React(c, cmd, a0) = [b EXCEPT !.state = "ident"]
    BY <1>c DEF React
  <2> HIDE DEF b, first
  <2>2. QED
    BY <1>c, <1>1, <1>2, <1>3, <2>1 DEF CardType, CardStates, Reads
<1>d. CASE cmd = "SEND_REL_ADDR"
  <2>1. React(c, cmd, a0) = [b EXCEPT !.state = "stby", !.rca = 1]
    BY <1>d DEF React
  <2> HIDE DEF b, first
  <2>2. QED
    BY <1>d, <1>1, <1>2, <1>3, <2>1 DEF CardType, CardStates, Reads
<1>e. CASE cmd \in {"CARD_SELECT", "STOP_TRANS"}
  <2>1. React(c, cmd, a0) = [b EXCEPT !.state = "tran"]
    BY <1>e DEF React
  <2> HIDE DEF b, first
  <2>2. QED
    BY <1>e, <1>1, <1>2, <1>3, <2>1 DEF CardType, CardStates, Reads
<1>f. CASE cmd = "SET_BUS_WIDTH"
  <2>1. React(c, cmd, a0) = [b EXCEPT !.width = 4]
    BY <1>f DEF React
  <2> HIDE DEF b, first
  <2>2. QED
    BY <1>f, <1>1, <1>2, <1>3, <2>1 DEF CardType, CardStates, Reads
<1>g. CASE cmd = "SEND_SCR"
  <2> DEFINE l == 1
  <2>1. React(c, cmd, a0) = InTransfer(b, 0, l)
    BY <1>g DEF React, InTransfer
  <2>2. l \in Int
    BY DEF CardType
  <2> HIDE DEF b, first, l
  <2>3. QED
    BY <1>g, <1>1, <1>3, <2>1, <2>2, Sending DEF Reads, first, l
<1>h. CASE cmd = "READ_SINGLE"
  <2> DEFINE l == 1
  <2>1. React(c, cmd, a0) = InTransfer(b, first, l)
    BY <1>h DEF React, InTransfer
  <2>2. l \in Int
    BY DEF CardType
  <2> HIDE DEF b, first, l
  <2>3. QED
    BY <1>h, <1>1, <1>3, <2>1, <2>2, Sending DEF Reads, first, l
<1>i. CASE cmd = "READ_MULTI"
  <2> DEFINE l == IF c.count = 0 THEN -1 ELSE c.count
  <2>1. React(c, cmd, a0) = InTransfer(b, first, l)
    BY <1>i DEF React, InTransfer
  <2>2. l \in Int
    BY DEF CardType
  <2> HIDE DEF b, first, l
  <2>3. QED
    BY <1>i, <1>1, <1>3, <2>1, <2>2, Sending DEF Reads, first, l
<1>j. CASE cmd \in {"APP_CMD", "SEND_IF_COND", "SET_BLOCKCNT"}
  <2>1. React(c, cmd, a0) = b
    BY <1>j DEF React
  <2> HIDE DEF b, first
  <2>2. QED
    BY <1>j, <1>1, <1>2, <1>3, <2>1 DEF CardType, CardStates, Reads
<1>k. QED
  BY <1>a, <1>b, <1>c, <1>d, <1>e, <1>f, <1>g, <1>h, <1>i, <1>j DEF Commands, Reads

(* A command that succeeds was taken and met no fault; without a fault and *)
(* an error flag, one that the card takes succeeds; and a command does all *)
(* of it or nothing.                                                       *)
LEMMA IssueFacts ==
    ASSUME NEW c \in CardType, NEW cmd \in Commands, NEW a0 \in Int, NEW o \in Outcomes
    PROVE  /\ Issue(c, cmd, a0, o).err \in {"OK", "TIMEOUT", "ERROR"}
           /\ Issue(c, cmd, a0, o).card \in {c, Refusing(c), React(c, cmd, a0)}
           /\ Issue(c, cmd, a0, o).card = Refusing(c) =>
                 Refusing(c) \in {c, React(c, cmd, a0)} \/ ~ Accepts(c, cmd)
           /\ Issue(c, cmd, a0, o).err = "OK" <=> o = "ok" /\ ~ host.error /\ Accepts(c, cmd)
           /\ Issue(c, cmd, a0, o).err = "OK" => Issue(c, cmd, a0, o).card = React(c, cmd, a0)
<1>1. React(c, cmd, a0) \in CardType
  BY Reactions
<1>2. Refusing(c) \in CardType
  BY RefusalFacts
<1>3. o \in {"ok", "lost", "late", "error"}
  BY DEF Outcomes
<1>4. QED
  <2>1. CASE host.error \/ o = "lost"
    BY <1>3, <2>1 DEF Issue
  <2>2. CASE ~ (host.error \/ o = "lost") /\ (o = "error" \/ ~ Accepts(c, cmd))
    BY <1>2, <1>3, <2>2 DEF Issue
  <2>3. CASE ~ host.error /\ Accepts(c, cmd) /\ o \in {"ok", "late"}
    BY <1>1, <2>3 DEF Issue
  <2>4. QED
    BY <1>3, <2>1, <2>2, <2>3

(* What sd_cmd makes of the response. *)
LEMMA ResponseFacts ==
    ASSUME NEW c \in CardType, NEW cmd \in Commands, NEW a0 \in Int, NEW o \in Outcomes
    PROVE  Issue(c, cmd, a0, o).r <=> /\ Issue(c, cmd, a0, o).err = "OK"
                                      /\ Response(React(c, cmd, a0), cmd)
<1>1. React(c, cmd, a0) \in CardType
  BY Reactions
<1>2. Refusing(c) \in CardType
  BY RefusalFacts
<1>3. o \in {"ok", "lost", "late", "error"}
  BY DEF Outcomes
<1>4. QED
  <2>1. CASE host.error \/ o = "lost"
    BY <1>3, <2>1 DEF Issue
  <2>2. CASE ~ (host.error \/ o = "lost") /\ (o = "error" \/ ~ Accepts(c, cmd))
    BY <1>2, <1>3, <2>2 DEF Issue
  <2>3. CASE ~ host.error /\ Accepts(c, cmd) /\ o \in {"ok", "late"}
    BY <1>1, <2>3 DEF Issue
  <2>4. QED
    BY <1>3, <2>1, <2>2, <2>3

(* What a command keeps, whether it succeeds or not. *)
Kept(c, d, cmd) ==
    /\ d \in CardType /\ d.kind = c.kind
    /\ cmd \notin {"GO_IDLE", "SET_BUS_WIDTH"} => d.width = c.width
    /\ cmd # "SEND_REL_ADDR" => d.rca = c.rca
    /\ cmd # "SET_BLOCKCNT" => d.count \in {0, c.count}
    /\ cmd \in Reads \cup {"SET_BLOCKCNT", "STOP_TRANS"} /\ c.state \in {"tran", "data"}
          => d.state \in {"tran", "data"}

LEMMA IssueKeeps ==
    ASSUME NEW c \in CardType, NEW cmd \in Commands, NEW a0 \in Int, NEW o \in Outcomes
    PROVE  Kept(c, Issue(c, cmd, a0, o).card, cmd)
<1> DEFINE d == Issue(c, cmd, a0, o).card
<1>1. d = c \/ d = Refusing(c) \/ d = React(c, cmd, a0)
  BY IssueFacts
<1> HIDE DEF d
<1> SUFFICES Kept(c, d, cmd)
  BY DEF d
<1>2. CASE d = c
  BY <1>2 DEF Kept
<1>3. CASE d = Refusing(c)
  BY <1>3, RefusalFacts DEF Kept
<1>4. CASE d = React(c, cmd, a0)
  <2>1. /\ d \in CardType /\ d.kind = c.kind
        /\ cmd \notin {"GO_IDLE", "SET_BUS_WIDTH"} => d.width = c.width
        /\ cmd # "SEND_REL_ADDR" => d.rca = c.rca
        /\ cmd # "SET_BLOCKCNT" => d.count = 0
    BY <1>4, Reactions
  <2>2. /\ cmd \in {"STOP_TRANS"} => d.state = "tran"
        /\ cmd = "SET_BLOCKCNT" => d.state = c.state
        /\ cmd \in Reads => d.state = "data"
    BY <1>4, Reactions
  <2>3. QED
    BY <2>1, <2>2 DEF Kept
<1>5. QED
  BY <1>1, <1>2, <1>3, <1>4

(* sd_cmd for a command behind APP_CMD, which succeeds when both do. *)
StateFor(cmd) == IF cmd = "SEND_OP_COND" THEN "idle" ELSE "tran"
LEMMA AppFacts ==
    ASSUME card \in CardType, sd.rca \in Int, NEW cmd \in AppCommands, NEW a0 \in Int,
           NEW app \in Outcomes, NEW o \in Outcomes
    PROVE  LET R == sd_cmd(cmd, a0, app, o) IN
           /\ Kept(card, R.card, cmd) /\ R.err \in {"OK", "TIMEOUT", "ERROR"}
           /\ R.err = "OK" <=> /\ app = "ok" /\ o = "ok" /\ ~ host.error
                              /\ card.state = StateFor(cmd)
           /\ R.err = "OK" /\ cmd = "SEND_OP_COND" =>
                 IF card.busy > 0 THEN R.card.state = "idle" /\ R.card.busy = card.busy - 1 ELSE R.r
           /\ cmd = "SEND_OP_COND" /\ R.r => R.card.state = "ready"
           /\ R.err = "OK" /\ cmd = "SEND_SCR" => R.card.state = "data" /\ R.card.left = 1
           /\ R.err = "OK" /\ cmd = "SET_BUS_WIDTH" => R.card.state = "tran" /\ R.card.width = 4
<1> DEFINE a == Issue(card, "APP_CMD", sd.rca, app)
           c == a.card
           b == Issue(c, cmd, a0, o)
           R == sd_cmd(cmd, a0, app, o)
<1>c. "APP_CMD" \in Commands /\ cmd \in Commands /\ cmd \notin Reads
      /\ cmd \notin {"APP_CMD", "SET_BLOCKCNT", "SEND_REL_ADDR", "GO_IDLE", "STOP_TRANS"}
  BY DEF Commands, AppCommands, Reads
<1>1. /\ Kept(card, c, "APP_CMD") /\ a.err \in {"OK", "TIMEOUT", "ERROR"}
      /\ a.err = "OK" <=> app = "ok" /\ ~ host.error
      /\ a.err = "OK" => c = React(card, "APP_CMD", sd.rca)
      /\ c \in {card, React(card, "APP_CMD", sd.rca)}
      /\ a.r <=> a.err = "OK" /\ Response(React(card, "APP_CMD", sd.rca), "APP_CMD")
  <2>1. Accepts(card, "APP_CMD")
    BY DEF Accepts
  <2>2. /\ c \in {card, Refusing(card), React(card, "APP_CMD", sd.rca)}
        /\ c = Refusing(card) =>
                 Refusing(card) \in {card, React(card, "APP_CMD", sd.rca)} \/ ~ Accepts(card, "APP_CMD")
        /\ a.err = "OK" <=> app = "ok" /\ ~ host.error /\ Accepts(card, "APP_CMD")
        /\ a.err \in {"OK", "TIMEOUT", "ERROR"}
        /\ a.err = "OK" => c = React(card, "APP_CMD", sd.rca)
    BY <1>c, IssueFacts
  <2>3. a.r <=> a.err = "OK" /\ Response(React(card, "APP_CMD", sd.rca), "APP_CMD")
    BY <1>c, ResponseFacts
  <2>4. Kept(card, c, "APP_CMD")
    BY <1>c, IssueKeeps
  <2>5. QED
    BY <2>1, <2>2, <2>3, <2>4
<1>2. /\ c \in CardType /\ c.state = card.state /\ c.busy = card.busy
      /\ a.err = "OK" => c.app /\ a.r
  <2>1. LET d == React(card, "APP_CMD", sd.rca) IN
        /\ d \in CardType /\ d.state = card.state /\ d.busy = card.busy
        /\ d.app = ("APP_CMD" = "APP_CMD")
    <3> DEFINE d == React(card, "APP_CMD", sd.rca)
    <3>1. d \in CardType
      BY <1>c, Reactions
    <3>2. d.state = card.state
      BY <1>c, Reactions
    <3>3. d.busy = card.busy
      BY <1>c, Reactions
    <3>4. d.app = ("APP_CMD" = "APP_CMD")
      BY <1>c, Reactions
    <3>5. QED
      BY <3>1, <3>2, <3>3, <3>4
  <2>2. Response(React(card, "APP_CMD", sd.rca), "APP_CMD")
    BY <2>1 DEF Response
  <2>3. QED
    BY <1>1, <2>1, <2>2
<1>3. R = IF sd.rca # 0 /\ ~ a.r THEN [card |-> c, err |-> "ERROR", r |-> FALSE]
          ELSE [b EXCEPT !.err = IF b.err = "OK" THEN a.err ELSE b.err]
  BY DEF sd_cmd
<1>4. /\ DOMAIN b = {"card", "err", "r"} /\ b.err \in {"OK", "TIMEOUT", "ERROR"}
      /\ b.err = "OK" <=> o = "ok" /\ ~ host.error /\ Accepts(c, cmd)
      /\ b.err = "OK" => b.card = React(c, cmd, a0)
      /\ Kept(c, b.card, cmd)
  <2>1. DOMAIN b = {"card", "err", "r"}
    BY DEF Issue
  <2> HIDE DEF c
  <2>2. QED
    BY <1>c, <1>2, <2>1, IssueFacts, IssueKeeps
<1>5. b.r <=> b.err = "OK" /\ Response(React(c, cmd, a0), cmd)
  <2> HIDE DEF c
  <2>1. QED
    BY <1>c, <1>2, ResponseFacts
<1> HIDE DEF a, b, c
<1>6. Kept(card, b.card, cmd) /\ Kept(card, c, cmd)
  BY <1>c, <1>1, <1>4 DEF Kept, Reads
<1>7. Accepts(c, cmd) <=> c.app /\ card.state = StateFor(cmd)
  BY <1>2 DEF Accepts, AppCommands, StateFor
<1>8. LET d == React(c, cmd, a0) IN
      /\ cmd = "SEND_OP_COND" =>
            IF card.busy > 0 THEN d.state = card.state /\ d.busy = card.busy - 1
            ELSE d.state = "ready"
      /\ cmd = "SEND_SCR" => d.state = "data" /\ d.left = 1
      /\ cmd = "SET_BUS_WIDTH" => d.state = card.state /\ d.width = 4
  <2>1. LET d == React(c, cmd, a0) IN
        cmd = "SEND_OP_COND" =>
            IF c.busy > 0 THEN d.state = c.state /\ d.busy = c.busy - 1
            ELSE d.state = "ready" /\ d.busy = c.busy
    BY <1>c, <1>2, Reactions
  <2>2. LET d == React(c, cmd, a0) IN
        cmd = "SEND_SCR" => d.state = "data" /\ d.left = 1
    <3>1. "SEND_SCR" \in Commands /\ "SEND_SCR" \in {"READ_SINGLE", "SEND_SCR"}
          /\ "SEND_SCR" \in Reads \cup {"SEND_SCR"}
      BY DEF Commands
    <3>2. LET d == React(c, "SEND_SCR", a0) IN
          /\ "SEND_SCR" \in Reads \cup {"SEND_SCR"} => d.state = "data"
          /\ "SEND_SCR" \in {"READ_SINGLE", "SEND_SCR"} => d.left = 1
      BY <1>2, <3>1, Reactions
    <3>3. QED
      BY <3>1, <3>2
  <2>3. LET d == React(c, cmd, a0) IN
        /\ cmd \in {"APP_CMD", "SEND_IF_COND", "SET_BUS_WIDTH", "SET_BLOCKCNT"} => d.state = c.state
        /\ d.width = (IF cmd = "GO_IDLE" THEN 1 ELSE IF cmd = "SET_BUS_WIDTH" THEN 4 ELSE c.width)
    BY <1>c, <1>2, Reactions
  <2>4. QED
    BY <1>2, <2>1, <2>2, <2>3
<1>9. Response(React(c, cmd, a0), cmd) <=> (cmd = "SEND_OP_COND" => React(c, cmd, a0).state = "ready")
  BY <1>c DEF Response
<1>10. CASE sd.rca # 0 /\ ~ a.r
  <2>1. R = [card |-> c, err |-> "ERROR", r |-> FALSE]
    BY <1>3, <1>10
  <2>2. R.card = c /\ R.err = "ERROR" /\ ~ R.r
    BY <2>1
  <2>3. ~ (app = "ok" /\ ~ host.error)
    BY <1>1, <1>2, <1>10
  <2>4. QED
    BY <1>6, <2>2, <2>3
<1>11. CASE ~ (sd.rca # 0 /\ ~ a.r)
  <2>1. R = [b EXCEPT !.err = IF b.err = "OK" THEN a.err ELSE b.err]
    BY <1>3, <1>11
  <2>2. /\ R.card = b.card /\ R.err = (IF b.err = "OK" THEN a.err ELSE b.err) /\ R.r = b.r
    BY <1>4, <2>1
  <2>3. R.r <=> b.err = "OK" /\ Response(React(c, cmd, a0), cmd)
    BY <1>5, <2>2
  <2> DEFINE d == React(c, cmd, a0)
  <2> HIDE DEF R, d
  <2>4. R.err = "OK" <=> a.err = "OK" /\ b.err = "OK"
    BY <1>1, <1>4, <2>2
  <2>5. R.err \in {"OK", "TIMEOUT", "ERROR"} /\ Kept(card, R.card, cmd)
    BY <1>1, <1>4, <1>6, <2>2
  <2>6. R.err = "OK" <=> app = "ok" /\ o = "ok" /\ ~ host.error /\ card.state = StateFor(cmd)
    BY <1>1, <1>2, <1>4, <1>7, <2>4
  <2>7. b.err = "OK" => R.card = d
    BY <1>4, <2>2 DEF d
  <2>8. /\ R.err = "OK" => b.err = "OK" /\ card.state = StateFor(cmd)
        /\ R.r <=> b.err = "OK" /\ (cmd = "SEND_OP_COND" => d.state = "ready")
    BY <1>9, <2>3, <2>4, <2>6 DEF d
  <2>9. /\ cmd = "SEND_OP_COND" =>
              IF card.busy > 0 THEN d.state = card.state /\ d.busy = card.busy - 1
              ELSE d.state = "ready"
        /\ cmd = "SEND_SCR" => d.state = "data" /\ d.left = 1
        /\ cmd = "SET_BUS_WIDTH" => d.state = card.state /\ d.width = 4
    BY <1>8 DEF d
  <2>10. R.err = "OK" /\ cmd = "SEND_OP_COND" =>
             IF card.busy > 0 THEN R.card.state = "idle" /\ R.card.busy = card.busy - 1 ELSE R.r
    BY <2>7, <2>8, <2>9 DEF StateFor
  <2>11. cmd = "SEND_OP_COND" /\ R.r => R.card.state = "ready"
    BY <2>7, <2>8
  <2>12. /\ R.err = "OK" /\ cmd = "SEND_SCR" => R.card.state = "data" /\ R.card.left = 1
         /\ R.err = "OK" /\ cmd = "SET_BUS_WIDTH" => R.card.state = "tran" /\ R.card.width = 4
    BY <2>7, <2>8, <2>9 DEF StateFor
  <2>13. QED
    BY <2>5, <2>6, <2>10, <2>11, <2>12 DEF R
<1>12. QED
  BY <1>10, <1>11

(* sd_cmd for a command of its own. *)
LEMMA PlainFacts ==
    ASSUME card \in CardType, NEW cmd \in Commands \ AppCommands, NEW a0 \in Int,
           NEW app, NEW o \in Outcomes
    PROVE  LET R == sd_cmd(cmd, a0, app, o) IN
           /\ Kept(card, R.card, cmd) /\ R.err \in {"OK", "TIMEOUT", "ERROR"}
           /\ R.err = "OK" <=> o = "ok" /\ ~ host.error /\ Accepts(card, cmd)
           /\ R.err = "OK" => R.card = React(card, cmd, a0)
<1>1. sd_cmd(cmd, a0, app, o) = Issue(card, cmd, a0, o)
  BY DEF sd_cmd
<1>2. QED
  BY <1>1, IssueFacts, IssueKeeps
-----------------------------------------------------------------------------
(***************************************************************************)
(* Steps.                                                                  *)
(***************************************************************************)

(* Faults only add up, and a fault is blamed. *)
LEMMA BlameFacts ==
    ASSUME SInv, NEW os, Blamed(os)
    PROVE  /\ faults' \in Nat /\ faults' >= faults /\ blame' \in BOOLEAN
           /\ blame' => faults' > 0
           /\ blame => blame'
           /\ (\E o \in os : o # "ok") => blame'
           /\ (\A o \in os : o = "ok") => (blame' <=> blame) /\ faults' = faults
<1> DEFINE bad == \E o \in os : o # "ok"
<1>1. /\ faults \in Nat /\ blame \in BOOLEAN /\ (blame => faults > 0)
  BY DEF SInv, SdTypeOK, HistoryOK
<1>2. faults' = (IF bad THEN faults + 1 ELSE faults) /\ blame' = (blame \/ bad)
  BY DEF Blamed
<1>3. (\A o \in os : o = "ok") <=> ~ bad
  OBVIOUS
<1>4. bad \in BOOLEAN
  OBVIOUS
<1> HIDE DEF bad
<1>5. CASE bad
  <2>1. faults' = faults + 1 /\ blame' = TRUE
    BY <1>1, <1>2, <1>5
  <2>2. QED
    BY <1>1, <1>3, <1>5, <2>1 DEF bad
<1>6. CASE ~ bad
  <2>1. faults' = faults /\ blame' = blame
    BY <1>1, <1>2, <1>6
  <2>2. QED
    BY <1>1, <1>3, <1>6, <2>1 DEF bad
<1>7. QED
  BY <1>5, <1>6

(* The part of the invariant that no step endangers by itself. *)
Framed ==
    /\ SdTypeOK'
    /\ card'.kind = card.kind /\ card'.count \in {0, card.count}
    /\ blame' => faults' > 0

(* From one step of sd_init to another. *)
LEMMA InitMoves ==
    ASSUME SInv, Framed, NEW s \in InInit, step \in {"reset"} \cup InInit, Goto(s),
           InitOK', OpCondOK'
    PROVE  SInv'
<1>1. step' = s /\ ended' = ended /\ ended.ok /\ ended.call = "none"
  <2>1. step \notin {"closed", "ready"}
    BY DEF InInit, Addressed, Attached
  <2>2. QED
    BY <2>1 DEF Goto, SInv, HistoryOK
<1>2. /\ step' \notin InRead \cup {"ready", "closed"}
  BY <1>1 DEF InInit, Addressed, Attached, InRead
<1>3. HistoryOK'
  <2>1. "SET_BLKCNT" \notin card'.kind.scr => card'.count = 0
    BY DEF SInv, HistoryOK, Framed
  <2>2. QED
    BY <1>1, <1>2, <2>1 DEF HistoryOK, Framed
<1>4. ReadyOK'
  BY <1>2 DEF ReadyOK
<1>5. ReadOK'
  BY <1>1, <1>2 DEF ReadOK, InRead
<1>6. FailsForAReason'
  BY <1>1 DEF FailsForAReason
<1>7. QED
  BY <1>3, <1>4, <1>5, <1>6 DEF SInv, Framed

(* sd_init gives up. *)
LEMMA InitFails ==
    ASSUME SInv, Framed, InitFailed,
           blame' \/ card.kind.polls >= Tries - 1 \/ ~ card.kind.volts
    PROVE  SInv'
<1>1. step' = "closed" /\ ended'.call = "init" /\ ended'.ok = FALSE
  BY DEF InitFailed, Return
<1>2. HistoryOK'
  <2>1. "SET_BLKCNT" \notin card'.kind.scr => card'.count = 0
    BY DEF SInv, HistoryOK, Framed
  <2>2. QED
    BY <1>1, <2>1 DEF HistoryOK, Framed
<1>3. step' \notin InInit /\ step' \notin InRead /\ step' # "ready"
  BY <1>1 DEF InInit, Addressed, Attached, InRead
<1>4. InitOK' /\ OpCondOK'
  BY <1>1, <1>3 DEF InitOK, OpCondOK, InInit, Addressed, Attached
<1>5. ReadyOK' /\ ReadOK'
  BY <1>1, <1>3 DEF ReadyOK, ReadOK, InRead
<1>6. FailsForAReason'
  BY <1>1 DEF FailsForAReason, Framed
<1>7. QED
  BY <1>2, <1>4, <1>5, <1>6 DEF SInv, Framed

(* sd_init succeeds. *)
LEMMA InitSucceeds ==
    ASSUME SInv, Framed, Return("init", TRUE), Agrees', DataLinesFree'
    PROVE  SInv'
<1>1. step' = "ready" /\ ended'.call = "init" /\ ended'.ok = TRUE
  BY DEF Return
<1>2. HistoryOK'
  <2>1. "SET_BLKCNT" \notin card'.kind.scr => card'.count = 0
    BY DEF SInv, HistoryOK, Framed
  <2>2. QED
    BY <1>1, <2>1 DEF HistoryOK, Framed
<1>3. step' \notin InInit /\ step' \notin InRead
  BY <1>1 DEF InInit, Addressed, Attached, InRead
<1>4. InitOK' /\ OpCondOK'
  BY <1>1, <1>3 DEF InitOK, OpCondOK, InInit, Addressed, Attached
<1>5. ReadyOK' /\ ReadOK'
  BY <1>1, <1>3 DEF ReadyOK, ReadOK, InRead
<1>6. FailsForAReason'
  BY <1>1 DEF FailsForAReason
<1>7. QED
  BY <1>2, <1>4, <1>5, <1>6 DEF SInv, Framed

(* The types, and the frame of a step of sd_init. *)
LEMMA Types ==
    ASSUME SInv, card' \in CardType, host' \in HostType, sd' \in SdType,
           UNCHANGED ask, got' \in Seq(Int), tries' \in Nat, ccs' \in BOOLEAN,
           NEW os, Blamed(os),
           \/ \E s \in InInit \cup InRead : Goto(s)
           \/ \E c \in {"init", "read"}, ok \in BOOLEAN : Return(c, ok)
    PROVE  SdTypeOK'
<1>1. step' \in {"closed", "ready", "reset"} \cup InInit \cup InRead
  BY DEF Goto, Return
<1>2. ended' \in [call : {"none", "init", "read"}, ok : BOOLEAN]
  <2>1. CASE \E s \in InInit \cup InRead : Goto(s)
    BY <2>1 DEF Goto, SInv, SdTypeOK
  <2>2. CASE \E c \in {"init", "read"}, ok \in BOOLEAN : Return(c, ok)
    BY <2>2 DEF Return
  <2>3. QED
    BY <2>1, <2>2
<1>3. faults' \in Nat /\ blame' \in BOOLEAN
  BY BlameFacts
<1>4. ask' \in [lba : Nat, num : Int] /\ ask'.num >= 1
  BY DEF SInv, SdTypeOK
<1>5. QED
  BY <1>1, <1>2, <1>3, <1>4 DEF SdTypeOK

LEMMA InitFrame ==
    ASSUME SInv, card' \in CardType, card'.kind = card.kind, card'.count \in {0, card.count},
           host' \in HostType, sd' \in SdType, UNCHANGED <<ask, got>>, tries' \in Nat,
           ccs' \in BOOLEAN, NEW os, Blamed(os),
           (\E s \in InInit : Goto(s)) \/ InitFailed \/ Return("init", TRUE)
    PROVE  Framed
<1>1. got' \in Seq(Int)
  BY DEF SInv, SdTypeOK
<1>2. \/ \E s \in InInit \cup InRead : Goto(s)
      \/ \E c \in {"init", "read"}, ok \in BOOLEAN : Return(c, ok)
  <2>1. CASE \E s \in InInit : Goto(s)
    BY <2>1
  <2>2. CASE InitFailed
    BY <2>2, Zenon DEF InitFailed
  <2>3. CASE Return("init", TRUE)
    BY <2>3, Zenon
  <2>4. QED
    BY <2>1, <2>2, <2>3
<1>3. SdTypeOK'
  BY <1>1, <1>2, Types
<1>4. blame' => faults' > 0
  BY BlameFacts
<1>5. QED
  BY <1>3, <1>4 DEF Framed

(* sd_err. *)
LEMMA NewError ==
    ASSUME sd \in SdType, NEW e \in {"OK", "TIMEOUT", "ERROR"}, sd' = [sd EXCEPT !.err = e]
    PROVE  sd' \in SdType /\ sd'.scr = sd.scr /\ sd'.rca = sd.rca
BY DEF SdType
-----------------------------------------------------------------------------
(***************************************************************************)
(* The actions of sd_init.                                                 *)
(***************************************************************************)
LEMMA sd_initKeeps == SInv /\ sd_init => SInv'
<1> SUFFICES ASSUME SInv, sd_init PROVE SInv'
  OBVIOUS
<1>1. /\ step' = "reset" /\ blame' = FALSE /\ ended' = [call |-> "none", ok |-> TRUE]
      /\ UNCHANGED <<card, host, sd, ask, got, tries, ccs, faults>>
  BY DEF sd_init
<1>2. step' \notin InInit /\ step' \notin InRead /\ step' \notin {"ready", "closed"}
  BY <1>1 DEF InInit, Addressed, Attached, InRead
<1>3. SdTypeOK'
  BY <1>1 DEF SInv, SdTypeOK
<1>4. HistoryOK'
  BY <1>1 DEF SInv, HistoryOK
<1>5. InitOK' /\ OpCondOK'
  BY <1>1, <1>2 DEF InitOK, OpCondOK, InInit, Addressed, Attached
<1>6. ReadyOK' /\ ReadOK' /\ FailsForAReason'
  BY <1>1, <1>2 DEF ReadyOK, ReadOK, InRead, FailsForAReason
<1>7. QED
  BY <1>3, <1>4, <1>5, <1>6 DEF SInv

LEMMA ResetKeeps == SInv /\ Reset => SInv'
<1> SUFFICES ASSUME SInv, Reset PROVE SInv'
  OBVIOUS
<1>1. PICK o \in Outcomes \ {"error"} :
         Blamed({o}) /\ IF o = "ok" THEN Goto("slow") ELSE InitFailed
  BY DEF Reset
<1>2. /\ step = "reset" /\ host' = [width |-> 1, clock |-> "off", error |-> FALSE]
      /\ UNCHANGED <<card, sd, ask, got, tries, ccs>>
  BY DEF Reset
<1>3. Framed
  <2>1. /\ card' \in CardType /\ sd' \in SdType /\ tries' \in Nat /\ ccs' \in BOOLEAN
        /\ card' = card /\ UNCHANGED <<ask, got>>
    BY <1>2 DEF SInv, SdTypeOK
  <2>2. host' \in HostType
    BY <1>2 DEF HostType
  <2>3. (\E s \in InInit : Goto(s)) \/ InitFailed
    BY <1>1 DEF InInit
  <2>4. QED
    BY <1>1, <2>1, <2>2, <2>3, InitFrame
<1>4. CASE o = "ok"
  <2>1. Goto("slow") /\ "slow" \in InInit /\ step' = "slow"
    BY <1>1, <1>4 DEF InInit, Goto
  <2>2. InitOK' /\ OpCondOK'
    BY <1>2, <2>1 DEF InitOK, OpCondOK, Addressed, Attached
  <2>3. QED
    BY <1>2, <1>3, <2>1, <2>2, InitMoves
<1>5. CASE o # "ok"
  <2>1. InitFailed /\ blame'
    BY <1>1, <1>5, BlameFacts
  <2>2. QED
    BY <1>3, <2>1, InitFails
<1>6. QED
  BY <1>4, <1>5

LEMMA sd_clkKeeps == SInv /\ sd_clk => SInv'
<1> SUFFICES ASSUME SInv, sd_clk PROVE SInv'
  OBVIOUS
<1>1. PICK o \in Outcomes \ {"error"} :
         /\ Blamed({o})
         /\ host' = IF o = "lost" THEN host ELSE [host EXCEPT !.clock = step]
         /\ IF o = "ok" THEN Goto(IF step = "slow" THEN "idle" ELSE "select") ELSE InitFailed
         /\ sd' = IF o = "ok" /\ step = "slow" THEN [scr |-> {}, rca |-> 0, err |-> "OK"] ELSE sd
  BY DEF sd_clk
<1>2. step \in {"slow", "fast"} /\ UNCHANGED <<card, ask, got, tries, ccs>>
  BY DEF sd_clk
<1>3. step \in InInit
  BY <1>2 DEF InInit, Addressed
<1>4. /\ host' \in HostType /\ host'.width = host.width /\ host'.error = host.error
      /\ o = "ok" => host'.clock = step
  <2>1. host \in HostType
    BY DEF SInv, SdTypeOK
  <2>2. QED
    BY <1>1, <1>2, <2>1 DEF HostType
<1>5. Framed
  <2>1. /\ card' \in CardType /\ tries' \in Nat /\ ccs' \in BOOLEAN
        /\ card' = card /\ UNCHANGED <<ask, got>>
    BY <1>2 DEF SInv, SdTypeOK
  <2>2. sd' \in SdType
    BY <1>1 DEF SdType, SInv, SdTypeOK
  <2>3. (\E s \in InInit : Goto(s)) \/ InitFailed
    BY <1>1 DEF InInit, Addressed
  <2>4. QED
    BY <1>1, <1>4, <2>1, <2>2, <2>3, InitFrame
<1>6. CASE o = "ok" /\ step = "slow"
  <2>1. Goto("idle") /\ "idle" \in InInit /\ step' = "idle" /\ sd'.rca = 0
    BY <1>1, <1>6 DEF InInit, Goto
  <2>2. InitOK' /\ OpCondOK'
    BY <1>3, <1>4, <2>1 DEF SInv, InitOK, OpCondOK, Addressed, Attached
  <2>3. QED
    BY <1>3, <1>5, <2>1, <2>2, InitMoves
<1>7. CASE o = "ok" /\ step = "fast"
  <2>1. Goto("select") /\ "select" \in InInit /\ step' = "select" /\ sd' = sd
    BY <1>1, <1>7 DEF InInit, Addressed, Goto
  <2>2. InitOK' /\ OpCondOK'
    BY <1>2, <1>3, <1>4, <1>7, <2>1 DEF SInv, InitOK, OpCondOK, InInit, Addressed, Attached
  <2>3. QED
    BY <1>3, <1>5, <2>1, <2>2, InitMoves
<1>8. CASE o # "ok"
  <2>1. InitFailed /\ blame'
    BY <1>1, <1>8, BlameFacts
  <2>2. QED
    BY <1>5, <2>1, InitFails
<1>9. QED
  BY <1>2, <1>6, <1>7, <1>8

(* The four commands of the table Plain: each is one that the card takes   *)
(* where it is sent.                                                       *)
LEMMA PlainCommandKeeps == SInv /\ PlainCommand => SInv'
<1> SUFFICES ASSUME SInv, PlainCommand PROVE SInv'
  OBVIOUS
<1> DEFINE cmd == Plain[step][1]
<1>1. PICK o \in Outcomes, app \in AppOutcomes(cmd) :
         LET R == sd_cmd(cmd, sd.rca, app, o) IN
         /\ Blamed({o, app})
         /\ card' = R.card /\ sd' = [sd EXCEPT !.err = R.err]
         /\ IF R.err = "OK" THEN Goto(Plain[step][2]) ELSE InitFailed
  BY DEF PlainCommand
<1>2. /\ step \in {"idle", "if_cond", "select", "scr"}
      /\ tries' = 0 /\ UNCHANGED <<host, ask, got, ccs>>
  BY DEF PlainCommand, Plain
<1>3. /\ step = "idle" => cmd = "GO_IDLE" /\ Plain[step][2] = "if_cond"
      /\ step = "if_cond" => cmd = "SEND_IF_COND" /\ Plain[step][2] = "op_cond"
      /\ step = "select" => cmd = "CARD_SELECT" /\ Plain[step][2] = "inhibit"
      /\ step = "scr" => cmd = "SEND_SCR" /\ Plain[step][2] = "scr_ready"
  BY DEF Plain
<1> DEFINE R == sd_cmd(cmd, sd.rca, app, o)
           next == Plain[step][2]
<1>4. /\ card \in CardType /\ sd \in SdType /\ host \in HostType /\ sd.rca \in Int
      /\ step \in InInit /\ ~ host.error /\ host.width = 1
  <2>1. step \in InInit
    BY <1>2 DEF InInit, Addressed, Attached
  <2>2. QED
    BY <2>1 DEF SInv, SdTypeOK, InitOK, SdType
<1> HIDE DEF cmd, next, R
<1>5. /\ Kept(card, R.card, cmd) /\ R.err \in {"OK", "TIMEOUT", "ERROR"}
      /\ R.err # "OK" => o # "ok" \/ app # "ok"
      /\ R.err = "OK" =>
            /\ cmd # "SEND_SCR" => R.card = React(card, cmd, sd.rca)
            /\ cmd = "SEND_SCR" => R.card.state = "data" /\ R.card.left = 1
  <2>1. CASE step = "scr"
    <3>1. cmd \in AppCommands /\ cmd = "SEND_SCR" /\ cmd # "SEND_OP_COND"
      BY <1>3, <2>1 DEF AppCommands, cmd
    <3>2. app \in Outcomes
      BY <1>1, <3>1 DEF AppOutcomes
    <3>3. card.state = "tran" /\ StateFor(cmd) = "tran"
      BY <2>1, <3>1 DEF SInv, InitOK, Attached, StateFor
    <3>4. QED
      BY <1>4, <3>1, <3>2, <3>3, AppFacts DEF R
  <2>2. CASE step # "scr"
    <3>1. cmd \in Commands \ AppCommands /\ cmd # "SEND_SCR"
      BY <1>2, <1>3, <2>2 DEF Commands, AppCommands, cmd
    <3>2. Accepts(card, cmd)
      BY <1>2, <1>3, <2>2 DEF SInv, InitOK, Accepts, cmd
    <3>3. QED
      BY <1>4, <3>1, <3>2, PlainFacts DEF R
  <2>3. QED
    BY <2>1, <2>2
<1>6. /\ card' = R.card /\ sd' = [sd EXCEPT !.err = R.err] /\ Blamed({o, app})
      /\ IF R.err = "OK" THEN Goto(next) ELSE InitFailed
  BY <1>1 DEF R, next, cmd
<1>7. sd' \in SdType /\ sd'.scr = sd.scr /\ sd'.rca = sd.rca
  BY <1>4, <1>5, <1>6, NewError
<1>8. Framed
  <2>1. /\ card' \in CardType /\ card'.kind = card.kind /\ card'.count \in {0, card.count}
    BY <1>2, <1>3, <1>5, <1>6 DEF Kept, cmd
  <2>2. host' \in HostType /\ UNCHANGED <<ask, got>> /\ tries' \in Nat /\ ccs' \in BOOLEAN
    BY <1>2, <1>4 DEF SInv, SdTypeOK
  <2>3. (\E s \in InInit : Goto(s)) \/ InitFailed
    BY <1>2, <1>3, <1>6 DEF InInit, Addressed, Attached, next
  <2>4. QED
    BY <1>6, <1>7, <2>1, <2>2, <2>3, InitFrame
<1>9. CASE R.err # "OK"
  <2>1. InitFailed /\ blame'
    BY <1>5, <1>6, <1>9, BlameFacts
  <2>2. QED
    BY <1>8, <2>1, InitFails
<1>10. CASE R.err = "OK" /\ step = "idle"
  <2>1. Goto("if_cond") /\ step' = "if_cond" /\ "if_cond" \in InInit
    BY <1>3, <1>6, <1>10 DEF Goto, InInit, next
  <2>2. "GO_IDLE" \in Commands /\ card' = React(card, "GO_IDLE", sd.rca)
    BY <1>3, <1>5, <1>6, <1>10 DEF Commands, cmd
  <2>3. /\ card'.state = "idle" /\ card'.busy = card.kind.polls /\ card'.width = 1
        /\ card'.kind = card.kind
    BY <1>4, <2>2, Reactions
  <2>4. InitOK' /\ OpCondOK'
    BY <1>2, <1>4, <1>7, <1>10, <2>1, <2>3 DEF SInv, InitOK, OpCondOK, Addressed, Attached
  <2>5. QED
    BY <1>4, <1>8, <2>1, <2>4, InitMoves
<1>11. CASE R.err = "OK" /\ step = "if_cond"
  <2>1. Goto("op_cond") /\ step' = "op_cond" /\ "op_cond" \in InInit
    BY <1>3, <1>6, <1>11 DEF Goto, InInit, next
  <2>2. "SEND_IF_COND" \in Commands /\ card' = React(card, "SEND_IF_COND", sd.rca)
    BY <1>3, <1>5, <1>6, <1>11 DEF Commands, cmd
  <2>3. /\ card'.state = card.state /\ card'.busy = card.busy /\ card'.width = card.width
        /\ card'.kind = card.kind
    BY <1>4, <2>2, Reactions
  <2>4. card.width = 1 /\ card.state = "idle" /\ card.busy = card.kind.polls /\ card.busy \in Nat
    BY <1>4, <1>11 DEF SInv, InitOK, CardType, InInit
  <2>5. InitOK' /\ OpCondOK'
    BY <1>2, <1>4, <1>7, <1>11, <2>1, <2>3, <2>4 DEF SInv, InitOK, OpCondOK, Addressed, Attached
  <2>6. QED
    BY <1>4, <1>8, <2>1, <2>5, InitMoves
<1>12. CASE R.err = "OK" /\ step = "select"
  <2>1. Goto("inhibit") /\ step' = "inhibit" /\ "inhibit" \in InInit
    BY <1>3, <1>6, <1>12 DEF Goto, InInit, Addressed, Attached, next
  <2>2. "CARD_SELECT" \in Commands /\ card' = React(card, "CARD_SELECT", sd.rca)
    BY <1>3, <1>5, <1>6, <1>12 DEF Commands, cmd
  <2>3. /\ card'.state = "tran" /\ card'.width = card.width /\ card'.rca = card.rca
        /\ card'.kind = card.kind
    BY <1>4, <2>2, Reactions
  <2>4. card.width = 1 /\ sd.rca = card.rca /\ ccs = card.kind.hc /\ host.clock = "fast"
    BY <1>4, <1>12 DEF SInv, InitOK, Addressed
  <2>5. InitOK' /\ OpCondOK'
    BY <1>2, <1>4, <1>7, <1>12, <2>1, <2>3, <2>4 DEF InitOK, OpCondOK, Addressed, Attached
  <2>6. QED
    BY <1>4, <1>8, <2>1, <2>5, InitMoves
<1>13. CASE R.err = "OK" /\ step = "scr"
  <2>1. Goto("scr_ready") /\ step' = "scr_ready" /\ "scr_ready" \in InInit
    BY <1>3, <1>6, <1>13 DEF Goto, InInit, Addressed, Attached, next
  <2>2. /\ card'.state = "data" /\ card'.left = 1 /\ card'.width = card.width
        /\ card'.rca = card.rca /\ card'.kind = card.kind
    BY <1>3, <1>5, <1>6, <1>13 DEF Kept, cmd
  <2>3. card.width = 1 /\ sd.rca = card.rca /\ ccs = card.kind.hc /\ host.clock = "fast"
    BY <1>4, <1>13 DEF SInv, InitOK, Addressed, Attached
  <2>4. InitOK' /\ OpCondOK'
    BY <1>2, <1>4, <1>7, <1>13, <2>1, <2>2, <2>3 DEF InitOK, OpCondOK, Addressed, Attached
  <2>5. QED
    BY <1>4, <1>8, <2>1, <2>4, InitMoves
<1>14. QED
  BY <1>2, <1>9, <1>10, <1>11, <1>12, <1>13

(* ACMD41: as long as nothing goes wrong, each attempt counts the card's   *)
(* busy answers down by one.                                               *)
LEMMA OpCondKeeps == SInv /\ OpCond => SInv'
<1> SUFFICES ASSUME SInv, OpCond PROVE SInv'
  OBVIOUS
<1>1. PICK o \in Outcomes, app \in Outcomes :
         LET R == sd_cmd("SEND_OP_COND", 0, app, o) IN
         /\ Blamed({o, app})
         /\ card' = R.card /\ sd' = [sd EXCEPT !.err = R.err]
         /\ IF R.err = "ERROR" \/ GivesUp(tries + 1) \/ (R.r /\ ~ card.kind.volts)
            THEN InitFailed
            ELSE Goto(IF R.r THEN "rel_addr" ELSE "op_cond")
         /\ ccs' = (R.r /\ R.card.kind.hc)
  BY DEF OpCond
<1>2. /\ step = "op_cond" /\ tries' = tries + 1 /\ UNCHANGED <<host, ask, got>>
  BY DEF OpCond
<1> DEFINE R == sd_cmd("SEND_OP_COND", 0, app, o)
<1>3. /\ card \in CardType /\ sd \in SdType /\ host \in HostType /\ sd.rca = 0 /\ tries \in Nat
      /\ step \in InInit /\ ~ host.error /\ host.width = 1 /\ card.width = 1 /\ blame \in BOOLEAN
  <2>1. step \in InInit
    BY <1>2 DEF InInit
  <2>2. QED
    BY <1>2, <2>1 DEF SInv, SdTypeOK, InitOK
<1>4. /\ Kept(card, R.card, "SEND_OP_COND") /\ R.err \in {"OK", "TIMEOUT", "ERROR"}
      /\ R.err = "OK" <=> app = "ok" /\ o = "ok" /\ ~ host.error /\ card.state = "idle"
      /\ R.err = "OK" =>
            IF card.busy > 0 THEN R.card.state = "idle" /\ R.card.busy = card.busy - 1 ELSE R.r
      /\ R.r => R.card.state = "ready"
  <2>1. "SEND_OP_COND" \in AppCommands /\ sd.rca \in Int
    BY <1>3 DEF AppCommands
  <2>2. StateFor("SEND_OP_COND") = "idle"
    BY DEF StateFor
  <2>3. QED
    BY <1>3, <2>1, <2>2, AppFacts
<1>5. /\ card' = R.card /\ sd' = [sd EXCEPT !.err = R.err] /\ Blamed({o, app})
      /\ IF R.err = "ERROR" \/ GivesUp(tries + 1) \/ (R.r /\ ~ card.kind.volts)
         THEN InitFailed
         ELSE Goto(IF R.r THEN "rel_addr" ELSE "op_cond")
      /\ ccs' = (R.r /\ R.card.kind.hc)
  BY <1>1
<1> HIDE DEF R
<1>6. sd' \in SdType /\ sd'.scr = sd.scr /\ sd'.rca = sd.rca
  BY <1>3, <1>4, <1>5, NewError
<1>7. /\ card' \in CardType /\ card'.kind = card.kind /\ card'.count \in {0, card.count}
      /\ card'.width = card.width /\ card'.rca = card.rca
  BY <1>4, <1>5 DEF Kept
<1>8. card'.kind.hc \in BOOLEAN
  BY <1>7, CardsAssumption DEF CardType
<1>9. Framed
  <2>1. host' \in HostType /\ UNCHANGED <<ask, got>> /\ tries' \in Nat
    BY <1>2, <1>3
  <2>2. ccs' \in BOOLEAN
    BY <1>5
  <2>3. (\E s \in InInit : Goto(s)) \/ InitFailed
    BY <1>5 DEF InInit
  <2>4. QED
    BY <1>5, <1>6, <1>7, <2>1, <2>2, <2>3, InitFrame
<1>10. ~ blame' =>
          /\ R.err = "OK" /\ card.state = "idle" /\ card.busy + tries = card.kind.polls
          /\ card.busy > 0 => card'.state = "idle" /\ card'.busy = card.busy - 1
          /\ card.busy = 0 => R.r
  <2>1. ~ blame' => ~ blame /\ o = "ok" /\ app = "ok"
    BY <1>5, BlameFacts
  <2>2. ~ blame' => card.state = "idle" /\ card.busy + tries = card.kind.polls
    BY <1>2, <2>1 DEF SInv, OpCondOK
  <2>3. card.busy \in Nat
    BY <1>3 DEF CardType
  <2>4. QED
    BY <1>3, <1>4, <1>5, <2>1, <2>2, <2>3
<1>11. CASE R.err = "ERROR" \/ GivesUp(tries + 1) \/ (R.r /\ ~ card.kind.volts)
  <2>1. InitFailed
    BY <1>5, <1>11
  <2>2. ~ blame' => card.kind.polls >= Tries - 1 \/ ~ card.kind.volts
    <3>1. card.busy \in Nat
      BY <1>3 DEF CardType
    <3>2. QED
      BY <1>3, <1>10, <1>11, <3>1 DEF GivesUp, Tries
  <2>3. QED
    BY <1>9, <2>1, <2>2, InitFails
<1>12. CASE ~ (R.err = "ERROR" \/ GivesUp(tries + 1) \/ ~ card.kind.volts) /\ R.r
  <2>1. Goto("rel_addr") /\ step' = "rel_addr" /\ "rel_addr" \in InInit
    BY <1>5, <1>12 DEF Goto, InInit
  <2>2. card'.state = "ready" /\ ccs' = card'.kind.hc
    BY <1>4, <1>5, <1>8, <1>12
  <2>3. InitOK' /\ OpCondOK'
    BY <1>2, <1>3, <1>6, <1>7, <2>1, <2>2 DEF InitOK, OpCondOK, Addressed, Attached
  <2>4. QED
    BY <1>3, <1>9, <2>1, <2>3, InitMoves
<1>13. CASE ~ (R.err = "ERROR" \/ GivesUp(tries + 1)) /\ ~ R.r
  <2>1. Goto("op_cond") /\ step' = "op_cond" /\ "op_cond" \in InInit
    BY <1>5, <1>13 DEF Goto, InInit
  <2>2. InitOK'
    BY <1>2, <1>3, <1>6, <1>7, <2>1 DEF InitOK, Addressed, Attached
  <2>3. OpCondOK'
    <3>1. card.busy \in Nat /\ card.kind.polls \in Nat
      BY <1>3, CardsAssumption DEF CardType
    <3>2. QED
      BY <1>2, <1>3, <1>7, <1>10, <1>13, <3>1 DEF OpCondOK
  <2>4. QED
    BY <1>3, <1>9, <2>1, <2>2, <2>3, InitMoves
<1>14. QED
  BY <1>11, <1>12, <1>13

(* SEND_REL_ADDR succeeds only for a card that ALL_SEND_CID, or its time-  *)
(* out, left in "ident".                                                   *)
LEMMA RelAddrKeeps == SInv /\ RelAddr => SInv'
<1> SUFFICES ASSUME SInv, RelAddr PROVE SInv'
  OBVIOUS
<1>1. PICK o \in Outcomes, p \in Outcomes :
         LET Q == sd_cmd("ALL_SEND_CID", 0, "ok", o)
             R == Issue(Q.card, "SEND_REL_ADDR", 0, p)
         IN /\ Blamed({o, p})
            /\ card' = R.card
            /\ sd' = [sd EXCEPT !.err = R.err, !.rca = IF R.r THEN R.card.rca ELSE 0]
            /\ IF R.err = "OK" THEN Goto("fast") ELSE InitFailed
  BY DEF RelAddr
<1>2. step = "rel_addr" /\ UNCHANGED <<host, ask, got, tries, ccs>>
  BY DEF RelAddr
<1> DEFINE q == sd_cmd("ALL_SEND_CID", 0, "ok", o)
           c == q.card
           R == Issue(c, "SEND_REL_ADDR", 0, p)
<1>3. /\ card \in CardType /\ sd \in SdType /\ host \in HostType /\ card.state = "ready"
      /\ step \in InInit /\ ~ host.error /\ host.width = 1 /\ card.width = 1
      /\ ccs = card.kind.hc
  <2>1. step \in InInit
    BY <1>2 DEF InInit
  <2>2. QED
    BY <1>2, <2>1 DEF SInv, SdTypeOK, InitOK
<1>4. /\ card' = R.card
      /\ sd' = [sd EXCEPT !.err = R.err, !.rca = IF R.r THEN R.card.rca ELSE 0]
      /\ IF R.err = "OK" THEN Goto("fast") ELSE InitFailed
      /\ Blamed({o, p})
  BY <1>1
<1>c. /\ "ALL_SEND_CID" \in Commands \ AppCommands /\ "SEND_REL_ADDR" \in Commands
      /\ "ALL_SEND_CID" \in Commands
  BY DEF Commands, AppCommands
<1>5. /\ Kept(card, c, "ALL_SEND_CID") /\ c \in CardType
      /\ o = "ok" => c.state = "ident"
  <2>1. Accepts(card, "ALL_SEND_CID")
    BY <1>3 DEF Accepts
  <2>2. /\ Kept(card, c, "ALL_SEND_CID")
        /\ q.err = "OK" <=> o = "ok" /\ ~ host.error /\ Accepts(card, "ALL_SEND_CID")
        /\ q.err = "OK" => c = React(card, "ALL_SEND_CID", 0)
    BY <1>3, <1>c, PlainFacts
  <2>3. React(card, "ALL_SEND_CID", 0).state = "ident"
    BY <1>3, <1>c, Reactions
  <2>4. QED
    BY <1>3, <2>1, <2>2, <2>3 DEF Kept
<1>6. /\ Kept(c, R.card, "SEND_REL_ADDR") /\ R.err \in {"OK", "TIMEOUT", "ERROR"}
      /\ R.err = "OK" <=> p = "ok" /\ ~ host.error /\ Accepts(c, "SEND_REL_ADDR")
      /\ R.err = "OK" => R.r /\ R.card.state = "stby" /\ R.card.rca = 1
  <2> HIDE DEF c
  <2>1. /\ R.err \in {"OK", "TIMEOUT", "ERROR"}
        /\ R.err = "OK" <=> p = "ok" /\ ~ host.error /\ Accepts(c, "SEND_REL_ADDR")
        /\ R.err = "OK" => R.card = React(c, "SEND_REL_ADDR", 0)
    BY <1>5, <1>c, IssueFacts
  <2>2. /\ Kept(c, R.card, "SEND_REL_ADDR")
    <3>1. c \in CardType /\ "SEND_REL_ADDR" \in Commands /\ 0 \in Int /\ p \in Outcomes
      BY <1>5, <1>c
    <3> HIDE DEF R
    <3>2. Kept(c, Issue(c, "SEND_REL_ADDR", 0, p).card, "SEND_REL_ADDR")
      BY ONLY <3>1, IssueKeeps
    <3>3. QED
      BY <3>2 DEF R
  <2>3. R.r <=> R.err = "OK" /\ Response(React(c, "SEND_REL_ADDR", 0), "SEND_REL_ADDR")
    BY <1>5, <1>c, ResponseFacts
  <2>4. Response(React(c, "SEND_REL_ADDR", 0), "SEND_REL_ADDR")
    BY DEF Response
  <2>5. React(c, "SEND_REL_ADDR", 0).state = "stby"
    BY <1>5, <1>c, Reactions
  <2>6. React(c, "SEND_REL_ADDR", 0).rca = 1
    BY <1>5, <1>c, Reactions
  <2>7. QED
    BY <2>1, <2>2, <2>3, <2>4, <2>5, <2>6
<1> HIDE DEF c, R, q
<1>7. /\ card' \in CardType /\ card'.kind = card.kind /\ card'.count \in {0, card.count}
      /\ card'.width = card.width
  BY <1>4, <1>5, <1>6 DEF Kept
<1>8. /\ sd' \in SdType
      /\ R.err = "OK" => sd'.rca = card'.rca
  <2> DEFINE a == IF R.r THEN R.card.rca ELSE 0
             s == [sd EXCEPT !.err = R.err]
  <2>1. a \in {0, 1} /\ (R.err = "OK" => a = card'.rca)
    BY <1>4, <1>6, <1>7 DEF CardType
  <2>2. s \in SdType
    BY <1>3, <1>6 DEF SdType
  <2>3. sd' = [s EXCEPT !.rca = a]
    BY <1>4, Zenon
  <2> HIDE DEF a, s
  <2>4. QED
    BY <2>1, <2>2, <2>3 DEF SdType
<1>9. Framed
  <2>1. /\ host' \in HostType /\ UNCHANGED <<ask, got>> /\ tries' \in Nat /\ ccs' \in BOOLEAN
    BY <1>2 DEF SInv, SdTypeOK
  <2>2. (\E s \in InInit : Goto(s)) \/ InitFailed
    BY <1>4 DEF InInit, Addressed
  <2>3. QED
    BY <1>4, <1>7, <1>8, <2>1, <2>2, InitFrame
<1>10. CASE R.err = "OK"
  <2>1. Goto("fast") /\ step' = "fast" /\ "fast" \in InInit
    BY <1>4, <1>10 DEF Goto, InInit, Addressed
  <2>2. card'.state = "stby"
    BY <1>4, <1>6, <1>10
  <2>3. InitOK' /\ OpCondOK'
    BY <1>2, <1>3, <1>7, <1>8, <1>10, <2>1, <2>2 DEF InitOK, OpCondOK, Addressed, Attached
  <2>4. QED
    BY <1>3, <1>9, <2>1, <2>3, InitMoves
<1>11. CASE R.err # "OK"
  <2>1. InitFailed
    BY <1>4, <1>11
  <2>2. o # "ok" \/ p # "ok"
    BY <1>3, <1>5, <1>6, <1>11 DEF Accepts
  <2>3. blame'
    BY <1>4, <2>2, BlameFacts
  <2>4. QED
    BY <1>9, <2>1, <2>3, InitFails
<1>12. QED
  BY <1>10, <1>11

LEMMA InhibitKeeps == SInv /\ Inhibit => SInv'
<1> SUFFICES ASSUME SInv, Inhibit PROVE SInv'
  OBVIOUS
<1>1. /\ step = "inhibit" /\ IF DataLinesFree THEN Goto("scr") ELSE InitFailed
      /\ UNCHANGED <<card, host, sd, ask, got, tries, ccs, faults, blame>>
  BY DEF Inhibit
<1>2. step \in InInit /\ "scr" \in InInit
  BY <1>1 DEF InInit, Addressed, Attached
<1>3. DataLinesFree
  BY <1>1, <1>2 DEF SInv, InitOK, Attached, DataLinesFree
<1>4. Goto("scr") /\ step' = "scr"
  BY <1>1, <1>3 DEF Goto
<1>5. Framed
  <2>1. SdTypeOK'
    BY <1>1, <1>2, <1>4 DEF SInv, SdTypeOK, Goto
  <2>2. blame' => faults' > 0
    BY <1>1 DEF SInv, HistoryOK
  <2>3. QED
    BY <1>1, <2>1, <2>2 DEF Framed
<1>6. InitOK' /\ OpCondOK'
  BY <1>1, <1>2, <1>4 DEF SInv, InitOK, OpCondOK, Addressed, Attached
<1>7. QED
  BY <1>2, <1>4, <1>5, <1>6, InitMoves

(* A block that arrives, and one that does not. *)
LEMMA Arrives ==
    ASSUME card \in CardType, BlockArrives
    PROVE  /\ card.state = "data" /\ host.width = card.width
           /\ card' \in CardType /\ card'.kind = card.kind /\ card'.count = card.count
           /\ card'.width = card.width /\ card'.rca = card.rca /\ card'.next = card.next + 1
           /\ card'.left = (IF card.left > 0 THEN card.left - 1 ELSE card.left)
           /\ card'.state = (IF card.left = 1 THEN "tran" ELSE "data")
<1> DEFINE l == IF card.left > 0 THEN card.left - 1 ELSE card.left
           n == card.next + 1
           t == IF card.left = 1 THEN "tran" ELSE "data"
           c == [card EXCEPT !.next = n]
           d == [c EXCEPT !.left = l]
<1>1. card' = [d EXCEPT !.state = t]
  BY Zenon DEF BlockArrives
<1>2. card.state = "data" /\ host.width = card.width
  BY DEF BlockArrives
<1>3. l \in Int /\ n \in Int /\ t \in CardStates
  BY DEF CardType, CardStates
<1> HIDE DEF l, n, t
<1>4. /\ c \in CardType /\ c.kind = card.kind /\ c.count = card.count /\ c.width = card.width
      /\ c.rca = card.rca /\ c.next = n
  BY <1>3 DEF CardType
<1> HIDE DEF c
<1>5. /\ d \in CardType /\ d.kind = c.kind /\ d.count = c.count /\ d.width = c.width
      /\ d.rca = c.rca /\ d.next = c.next /\ d.left = l
  BY <1>3, <1>4 DEF CardType
<1> HIDE DEF d
<1>6. /\ card' \in CardType /\ card'.kind = d.kind /\ card'.count = d.count /\ card'.width = d.width
      /\ card'.rca = d.rca /\ card'.next = d.next /\ card'.left = d.left /\ card'.state = t
  BY <1>1, <1>3, <1>5 DEF CardType
<1>7. QED
  BY <1>2, <1>4, <1>5, <1>6 DEF l, n, t

LEMMA Missing ==
    ASSUME card \in CardType, host \in HostType, NEW o, BlockMissing(o)
    PROVE  /\ card' \in CardType /\ card'.kind = card.kind /\ card'.count = card.count
           /\ card'.width = card.width /\ card'.rca = card.rca
           /\ card'.state \in {"tran", card.state}
           /\ host' \in HostType /\ host'.width = host.width /\ host'.clock = host.clock
<1>1. /\ host' \in HostType /\ host'.width = host.width /\ host'.clock = host.clock
  <2> DEFINE e == o = "late"
  <2>1. e \in BOOLEAN /\ host' = [host EXCEPT !.error = e]
    BY DEF BlockMissing
  <2> HIDE DEF e
  <2>2. QED
    BY <2>1 DEF HostType
<1>2. CASE UNCHANGED card
  BY <1>1, <1>2
<1>3. CASE card' = [card EXCEPT !.state = "tran"]
  BY <1>1, <1>3 DEF CardType, CardStates
<1>4. QED
  BY <1>2, <1>3 DEF BlockMissing

LEMMA ScrReadyKeeps == SInv /\ ScrReady => SInv'
<1> SUFFICES ASSUME SInv, ScrReady PROVE SInv'
  OBVIOUS
<1>1. PICK o \in Outcomes :
         /\ Blamed({o})
         /\ IF o = "ok" THEN BlockArrives /\ Goto("scr_data") ELSE BlockMissing(o) /\ InitFailed
  BY DEF ScrReady
<1>2. step = "scr_ready" /\ UNCHANGED <<sd, ask, got, tries, ccs>>
  BY DEF ScrReady
<1>3. step \in InInit /\ "scr_data" \in InInit
  BY <1>2 DEF InInit, Addressed, Attached
<1>4. /\ card \in CardType /\ host \in HostType /\ card.left = 1 /\ host.width = 1
      /\ ~ host.error /\ card.width = 1 /\ sd.rca = card.rca /\ ccs = card.kind.hc
      /\ host.clock = "fast"
  BY <1>2, <1>3 DEF SInv, SdTypeOK, InitOK, Addressed, Attached
<1>5. /\ sd' \in SdType /\ UNCHANGED <<ask, got>> /\ tries' \in Nat /\ ccs' \in BOOLEAN
  BY <1>2 DEF SInv, SdTypeOK
<1>6. CASE o = "ok"
  <2>1. BlockArrives /\ Goto("scr_data") /\ step' = "scr_data" /\ UNCHANGED host
    BY <1>1, <1>6 DEF Goto, BlockArrives
  <2>2. /\ card' \in CardType /\ card'.kind = card.kind /\ card'.count = card.count
        /\ card'.width = card.width /\ card'.rca = card.rca /\ card'.state = "tran"
    BY <1>4, <2>1, Arrives
  <2>3. Framed
    BY <1>1, <1>3, <1>4, <1>5, <2>1, <2>2, InitFrame
  <2>4. InitOK' /\ OpCondOK'
    BY <1>2, <1>4, <2>1, <2>2 DEF InitOK, OpCondOK, Addressed, Attached
  <2>5. QED
    BY <1>3, <2>1, <2>3, <2>4, InitMoves
<1>7. CASE o # "ok"
  <2>1. InitFailed /\ blame' /\ BlockMissing(o)
    BY <1>1, <1>7, BlameFacts
  <2>2. /\ card' \in CardType /\ card'.kind = card.kind /\ card'.count = card.count
        /\ host' \in HostType
    BY <1>4, <2>1, Missing
  <2>3. Framed
    BY <1>1, <1>5, <2>1, <2>2, InitFrame
  <2>4. QED
    BY <2>1, <2>3, InitFails
<1>8. QED
  BY <1>6, <1>7

LEMMA ScrDataKeeps == SInv /\ ScrData => SInv'
<1> SUFFICES ASSUME SInv, ScrData PROVE SInv'
  OBVIOUS
<1>1. PICK o \in Outcomes \ {"late", "error"} :
         /\ Blamed({o})
         /\ IF o = "lost" THEN Goto("scr_forever") /\ UNCHANGED sd
            ELSE Goto("width") /\ sd' = [sd EXCEPT !.scr = card.kind.scr]
  BY DEF ScrData
<1>2. step = "scr_data" /\ UNCHANGED <<card, host, ask, got, tries, ccs>>
  BY DEF ScrData
<1>3. step \in InInit /\ {"scr_forever", "width"} \subseteq InInit
  BY <1>2 DEF InInit, Addressed, Attached
<1>4. card.kind.scr \in SUBSET {"BUS_WIDTH_4", "SET_BLKCNT"}
  BY CardsAssumption DEF SInv, SdTypeOK, CardType
<1>5. /\ sd' \in SdType /\ sd'.rca = sd.rca
      /\ o # "lost" => sd'.scr = card'.kind.scr
  BY <1>1, <1>2, <1>4 DEF SInv, SdTypeOK, SdType
<1>6. step' \in {"scr_forever", "width"} /\ Goto(step') /\ (step' = "width" => o # "lost")
  BY <1>1 DEF Goto
<1>7. Framed
  <2>1. /\ card' \in CardType /\ host' \in HostType /\ tries' \in Nat /\ ccs' \in BOOLEAN
        /\ card' = card /\ UNCHANGED <<ask, got>>
    BY <1>2 DEF SInv, SdTypeOK
  <2>2. \E s \in InInit : Goto(s)
    BY <1>3, <1>6
  <2>3. QED
    BY <1>1, <1>5, <2>1, <2>2, InitFrame
<1>8. InitOK' /\ OpCondOK'
  <2>1. card.width = 1 /\ sd.rca = card.rca /\ ccs = card.kind.hc /\ host.clock = "fast"
        /\ card.state = "tran" /\ ~ host.error /\ host.width = 1
    BY <1>2, <1>3 DEF SInv, InitOK, Addressed, Attached
  <2>2. QED
    BY <1>2, <1>5, <1>6, <2>1 DEF InitOK, OpCondOK, Addressed, Attached
<1>9. QED
  BY <1>3, <1>6, <1>7, <1>8, InitMoves

(* A state that did not change. *)
LEMMA SdStutter == SInv /\ UNCHANGED sdVars => SInv'
<1> SUFFICES ASSUME SInv, UNCHANGED sdVars PROVE SInv'
  OBVIOUS
<1>1. UNCHANGED <<card, host, sd, step, ask, got, tries, ccs, ended, faults, blame>>
  BY DEF sdVars
<1>2. SdTypeOK' /\ HistoryOK' /\ FailsForAReason'
  BY <1>1 DEF SInv, SdTypeOK, HistoryOK, FailsForAReason
<1>3. InitOK' /\ OpCondOK'
  BY <1>1 DEF SInv, InitOK, OpCondOK
<1>4. ReadyOK' /\ ReadOK'
  BY <1>1 DEF SInv, ReadyOK, ReadOK, Agrees, DataLinesFree, Left
<1>5. QED
  BY <1>2, <1>3, <1>4 DEF SInv

LEMMA BusWidthKeeps == SInv /\ BusWidth => SInv'
<1> SUFFICES ASSUME SInv, BusWidth PROVE SInv'
  OBVIOUS
<1> DEFINE flags == sd.scr \cup (IF ccs THEN {"CCS"} ELSE {})
<1>1. step = "width" /\ UNCHANGED <<ask, got, tries, ccs>>
  BY DEF BusWidth
<1>2. step \in InInit
  BY <1>1 DEF InInit, Addressed, Attached
<1>3. /\ card \in CardType /\ host \in HostType /\ sd \in SdType /\ sd.rca \in Int
      /\ host.width = 1 /\ ~ host.error /\ card.width = 1 /\ card.state = "tran"
      /\ sd.rca = card.rca /\ ccs = card.kind.hc /\ host.clock = "fast" /\ sd.scr = card.kind.scr
  BY <1>1, <1>2 DEF SInv, SdTypeOK, InitOK, Addressed, Attached, SdType
<1>4. UNCHANGED <<ask, got>> /\ tries' \in Nat /\ ccs' \in BOOLEAN
  BY <1>1 DEF SInv, SdTypeOK
<1>5. flags \in SUBSET {"BUS_WIDTH_4", "SET_BLKCNT", "CCS"}
  BY <1>3 DEF SdType
<1>6. CASE "BUS_WIDTH_4" \in sd.scr
  <2>1. PICK o \in Outcomes, app \in Outcomes :
           LET R == sd_cmd("SET_BUS_WIDTH", 2, app, o) IN
           /\ Blamed({o, app})
           /\ card' = R.card
           /\ IF WidthSet(R.err)
              THEN /\ host' = [host EXCEPT !.width = 4] /\ Return("init", TRUE)
                   /\ sd' = [sd EXCEPT !.err = R.err, !.scr = flags]
              ELSE sd' = [sd EXCEPT !.err = R.err] /\ InitFailed /\ UNCHANGED host
    BY <1>6, Zenon DEF BusWidth
  <2> DEFINE R == sd_cmd("SET_BUS_WIDTH", 2, app, o)
  <2>2. /\ Kept(card, R.card, "SET_BUS_WIDTH") /\ R.err \in {"OK", "TIMEOUT", "ERROR"}
        /\ R.err = "OK" <=> app = "ok" /\ o = "ok" /\ ~ host.error /\ card.state = "tran"
        /\ R.err = "OK" => R.card.state = "tran" /\ R.card.width = 4
    <3>1. "SET_BUS_WIDTH" \in AppCommands /\ StateFor("SET_BUS_WIDTH") = "tran"
      BY DEF AppCommands, StateFor
    <3>2. QED
      BY <1>3, <3>1, AppFacts
  <2>3. /\ card' = R.card /\ Blamed({o, app})
        /\ R.err = "OK" => /\ host' = [host EXCEPT !.width = 4] /\ Return("init", TRUE)
                           /\ sd' = [sd EXCEPT !.err = R.err, !.scr = flags]
        /\ R.err # "OK" => sd' = [sd EXCEPT !.err = R.err] /\ InitFailed /\ UNCHANGED host
    BY <2>1, Zenon DEF WidthSet
  <2> HIDE DEF R, flags
  <2>4. /\ card' \in CardType /\ card'.kind = card.kind /\ card'.count \in {0, card.count}
        /\ card'.rca = card.rca
    BY <2>2, <2>3 DEF Kept
  <2>5. CASE R.err = "OK"
    <3>1. /\ host' \in HostType /\ host'.width = 4 /\ host'.error = host.error
          /\ host'.clock = host.clock
      BY <1>3, <2>3, <2>5 DEF HostType
    <3>2. sd' \in SdType /\ sd'.rca = sd.rca /\ sd'.scr = flags
      <4> DEFINE s == [sd EXCEPT !.err = R.err]
      <4>1. s \in SdType /\ s.rca = sd.rca
        BY <1>3, <2>2 DEF SdType
      <4>2. sd' = [s EXCEPT !.scr = flags]
        BY <2>3, <2>5, Zenon
      <4> HIDE DEF s
      <4>3. QED
        BY <1>5, <4>1, <4>2 DEF SdType
    <3>3. Framed
      BY <1>4, <2>3, <2>4, <2>5, <3>1, <3>2, InitFrame
    <3>4. Agrees' /\ DataLinesFree'
      BY <1>3, <2>2, <2>3, <2>4, <2>5, <3>1, <3>2 DEF Agrees, DataLinesFree, flags
    <3>5. QED
      BY <2>3, <2>5, <3>3, <3>4, InitSucceeds
  <2>6. CASE R.err # "OK"
    <3>1. host' \in HostType /\ InitFailed
      BY <1>3, <2>3, <2>6
    <3>2. sd' \in SdType
      BY <1>3, <2>2, <2>3, <2>6, NewError
    <3>3. Framed
      BY <1>4, <2>3, <2>4, <3>1, <3>2, InitFrame
    <3>4. blame'
      BY <1>3, <2>2, <2>3, <2>6, BlameFacts
    <3>5. QED
      BY <3>1, <3>3, <3>4, InitFails
  <2>7. QED
    BY <2>5, <2>6
<1>7. CASE "BUS_WIDTH_4" \notin sd.scr
  <2>1. /\ Return("init", TRUE) /\ sd' = [sd EXCEPT !.scr = flags]
        /\ UNCHANGED <<card, host, faults, blame>>
    BY <1>7, Zenon DEF BusWidth
  <2> HIDE DEF flags
  <2>2. sd' \in SdType /\ sd'.rca = sd.rca /\ sd'.scr = flags
    BY <1>3, <1>5, <2>1 DEF SdType
  <2>3. Blamed({})
    BY <2>1 DEF Blamed, SInv, SdTypeOK
  <2>4. Framed
    BY <1>3, <1>4, <2>1, <2>2, <2>3, InitFrame
  <2>5. Agrees' /\ DataLinesFree'
    BY <1>3, <2>1, <2>2 DEF Agrees, DataLinesFree, flags
  <2>6. QED
    BY <2>1, <2>4, <2>5, InitSucceeds
<1>8. QED
  BY <1>6, <1>7
-----------------------------------------------------------------------------
(***************************************************************************)
(* The actions of sd_readblock.                                            *)
(***************************************************************************)
ReadFramed ==
    /\ SdTypeOK' /\ Agrees'
    /\ card'.kind = card.kind /\ ("SET_BLKCNT" \notin card.kind.scr => card'.count = 0)
    /\ blame' => faults' > 0

LEMMA NotInInit == \A s \in InRead \cup {"ready", "closed", "reset"} : s \notin InInit
BY DEF InRead, InInit, Addressed, Attached

(* From one step of sd_readblock to another. *)
LEMMA ReadMoves ==
    ASSUME SInv, ReadFramed, NEW s \in InRead, step \in InRead, Goto(s), ReadOK'
    PROVE  SInv'
<1>1. step' = s /\ ended' = ended /\ ended.ok /\ ended.call = "none"
  <2>1. step \notin {"closed", "ready"}
    BY DEF InRead
  <2>2. QED
    BY <2>1 DEF Goto, SInv, HistoryOK
<1>2. step' \notin InInit /\ step' \notin {"ready", "closed"}
  BY <1>1, NotInInit DEF InRead
<1>3. HistoryOK'
  BY <1>1, <1>2 DEF HistoryOK, ReadFramed
<1>4. InitOK' /\ OpCondOK'
  BY <1>2 DEF InitOK, OpCondOK, InInit, Addressed, Attached
<1>5. ReadyOK'
  BY <1>2 DEF ReadyOK, ReadFramed
<1>6. FailsForAReason'
  BY <1>1 DEF FailsForAReason
<1>7. QED
  BY <1>3, <1>4, <1>5, <1>6 DEF SInv, ReadFramed

(* sd_readblock returns. *)
LEMMA ReadReturns ==
    ASSUME SInv, ReadFramed, NEW ok \in BOOLEAN, Return("read", ok),
           ok => DataLinesFree' /\ ReadOK', ~ ok => blame'
    PROVE  SInv'
<1>1. step' = "ready" /\ ended'.call = "read" /\ ended'.ok = ok
  BY DEF Return
<1>2. step' \notin InInit /\ step' \notin InRead
  BY <1>1, NotInInit DEF InRead
<1>3. HistoryOK'
  BY <1>1 DEF HistoryOK, ReadFramed
<1>4. InitOK' /\ OpCondOK'
  BY <1>2 DEF InitOK, OpCondOK, InInit, Addressed, Attached
<1>5. ReadyOK'
  BY DEF ReadyOK, ReadFramed
<1>6. ReadOK'
  <2>1. CASE ok
    BY <2>1
  <2>2. CASE ~ ok
    BY <1>1, <1>2, <2>2 DEF ReadOK, InRead
  <2>3. QED
    BY <2>1, <2>2
<1>7. FailsForAReason'
  BY <1>1 DEF FailsForAReason
<1>8. QED
  BY <1>3, <1>4, <1>5, <1>6, <1>7 DEF SInv, ReadFramed

(* A command of sd_readblock that the card takes: it fails, for a fault,   *)
(* and ends the call, or the card did what it was asked.                   *)
LEMMA ReadCommandFacts ==
    ASSUME SInv, step \in InRead, NEW cmd \in Reads \cup {"SET_BLOCKCNT", "STOP_TRANS"},
           NEW a0 \in Int, NEW next \in InRead, ReadCommand(cmd, a0, next),
           Accepts(card, cmd), cmd = "SET_BLOCKCNT" => "SET_BLKCNT" \in card.kind.scr
    PROVE  \/ SInv'
           \/ /\ ReadFramed /\ Goto(next) /\ card' = React(card, cmd, a0)
              /\ UNCHANGED <<host, ask, got, ended>>
<1>1. PICK o \in Outcomes :
         LET R == sd_cmd(cmd, a0, "ok", o) IN
         /\ Blamed({o})
         /\ card' = R.card /\ sd' = [sd EXCEPT !.err = R.err]
         /\ IF R.err = "OK" THEN Goto(next) ELSE ReadFailed
         /\ UNCHANGED <<host, ask, got, tries, ccs>>
  BY Zenon DEF ReadCommand
<1> DEFINE R == sd_cmd(cmd, a0, "ok", o)
<1>2. /\ card \in CardType /\ host \in HostType /\ sd \in SdType /\ got \in Seq(Int)
      /\ tries \in Nat /\ ccs \in BOOLEAN
      /\ ~ host.error /\ Agrees
  BY DEF SInv, SdTypeOK, ReadOK, ReadyOK
<1>3. /\ Kept(card, R.card, cmd) /\ R.err \in {"OK", "TIMEOUT", "ERROR"}
      /\ R.err = "OK" <=> o = "ok" /\ ~ host.error /\ Accepts(card, cmd)
      /\ R.err = "OK" => R.card = React(card, cmd, a0)
  <2>1. cmd \in Commands \ AppCommands
    BY DEF Commands, AppCommands, Reads
  <2>2. QED
    BY <1>2, <2>1, PlainFacts
<1>4. /\ card' = R.card /\ sd' = [sd EXCEPT !.err = R.err] /\ Blamed({o})
      /\ IF R.err = "OK" THEN Goto(next) ELSE ReadFailed
      /\ UNCHANGED <<host, ask, got, tries, ccs>>
  BY <1>1
<1> HIDE DEF R
<1>5. sd' \in SdType /\ sd'.scr = sd.scr /\ sd'.rca = sd.rca
  BY <1>2, <1>3, <1>4, NewError
<1>6. /\ card' \in CardType /\ card'.kind = card.kind /\ card'.width = card.width
      /\ card'.rca = card.rca /\ card'.state \in {"tran", "data"}
      /\ cmd # "SET_BLOCKCNT" => card'.count \in {0, card.count}
  BY <1>2, <1>3, <1>4 DEF Kept, Reads, Agrees
<1>7. ReadFramed
  <2>1. \/ \E s \in InInit \cup InRead : Goto(s)
        \/ \E c \in {"init", "read"}, ok \in BOOLEAN : Return(c, ok)
    <3>1. CASE R.err = "OK"
      BY <1>4, <3>1
    <3>2. CASE R.err # "OK"
      BY <1>4, <3>2, Zenon DEF ReadFailed
    <3>3. QED
      BY <3>1, <3>2
  <2>2. SdTypeOK'
    BY <1>2, <1>4, <1>5, <1>6, <2>1, Types
  <2>3. Agrees'
    BY <1>2, <1>4, <1>5, <1>6 DEF Agrees
  <2>4. "SET_BLKCNT" \notin card.kind.scr => card'.count = 0
    BY <1>6 DEF SInv, HistoryOK
  <2>5. blame' => faults' > 0
    BY <1>4, BlameFacts
  <2>6. QED
    BY <1>6, <2>2, <2>3, <2>4, <2>5 DEF ReadFramed
<1>8. CASE R.err = "OK"
  BY <1>3, <1>4, <1>7, <1>8 DEF Goto
<1>9. CASE R.err # "OK"
  <2>1. blame'
    BY <1>2, <1>3, <1>4, <1>9, BlameFacts
  <2> DEFINE ok == FALSE
  <2>2. Return("read", ok) /\ ok \in BOOLEAN /\ ~ ok
    BY <1>4, <1>9 DEF ReadFailed
  <2> HIDE DEF ok
  <2>3. SInv'
    BY <1>7, <2>1, <2>2, ReadReturns
  <2>4. QED
    BY <2>3
<1>10. QED
  BY <1>8, <1>9

(* What the driver's flags say of the card. *)
LEMMA Flags ==
    ASSUME card \in CardType, Agrees
    PROVE  /\ "CCS" \in sd.scr <=> card.kind.hc
           /\ "SET_BLKCNT" \in sd.scr <=> "SET_BLKCNT" \in card.kind.scr
           /\ card.kind.hc \in BOOLEAN
<1>1. card.kind \in [hc : BOOLEAN, scr : SUBSET {"BUS_WIDTH_4", "SET_BLKCNT"}, polls : Nat,
                       volts : BOOLEAN]
  BY CardsAssumption DEF CardType
<1>2. sd.scr = card.kind.scr \cup (IF card.kind.hc THEN {"CCS"} ELSE {})
  BY DEF Agrees
<1>3. QED
  BY <1>1, <1>2

LEMMA sd_readblockKeeps == \A q \in Requests : SInv /\ sd_readblock(q) => SInv'
<1> SUFFICES ASSUME NEW q \in Requests, SInv, sd_readblock(q) PROVE SInv'
  OBVIOUS
<1> DEFINE n == IF q.num < 1 THEN 1 ELSE q.num
<1>1. /\ step = "ready" /\ ask' = [q EXCEPT !.num = n] /\ got' = <<>>
      /\ blame' = (~ DataLinesFree /\ faults > 0)
      /\ IF DataLinesFree
         THEN /\ step' = (IF "CCS" \in sd.scr THEN "count" ELSE "single")
              /\ ended' = [call |-> "none", ok |-> TRUE] /\ UNCHANGED sd
         ELSE ReadFailed /\ sd' = [sd EXCEPT !.err = "TIMEOUT"]
      /\ UNCHANGED <<card, host, tries, ccs, faults>>
  BY Zenon DEF sd_readblock
<1>2. /\ card \in CardType /\ host \in HostType /\ sd \in SdType /\ tries \in Nat
      /\ ccs \in BOOLEAN /\ faults \in Nat
      /\ Agrees /\ (DataLinesFree \/ faults > 0)
  BY <1>1 DEF SInv, SdTypeOK, ReadyOK
<1>3. ask' \in [lba : Nat, num : Int] /\ ask'.num >= 1
  <2>1. q \in [lba : Nat, num : Int] /\ n \in Int /\ n >= 1
    BY RequestsAssumption
  <2> HIDE DEF n
  <2>2. QED
    BY <1>1, <2>1
<1>4. got' \in Seq(Int) /\ Len(got') = 0
  BY <1>1
<1>5. blame' \in BOOLEAN /\ (blame' => faults' > 0)
  <2>1. blame' <=> ~ DataLinesFree /\ faults > 0
    BY <1>1
  <2>2. blame' \in BOOLEAN
    BY <1>1, Zenon
  <2>3. QED
    BY <1>1, <2>1, <2>2
<1>6. sd' \in SdType /\ sd'.scr = sd.scr /\ sd'.rca = sd.rca
  BY <1>1, <1>2 DEF SdType
<1>7. Agrees' /\ (DataLinesFree' <=> DataLinesFree)
  BY <1>1, <1>2, <1>6 DEF Agrees, DataLinesFree
<1>8. "SET_BLKCNT" \notin card'.kind.scr => card'.count = 0
  BY <1>1 DEF SInv, HistoryOK
<1> HIDE DEF n
<1>9. CASE DataLinesFree
  <2>1. /\ step' = (IF "CCS" \in sd.scr THEN "count" ELSE "single")
        /\ ended'.call = "none" /\ ended'.ok
        /\ ended' \in [call : {"none", "init", "read"}, ok : BOOLEAN]
    <3> DEFINE yes == TRUE
    <3>1. /\ step' = (IF "CCS" \in sd.scr THEN "count" ELSE "single")
          /\ ended' = [call |-> "none", ok |-> yes]
      BY <1>1, <1>9
    <3>2. yes \in BOOLEAN /\ yes
      OBVIOUS
    <3> HIDE DEF yes
    <3>3. QED
      BY <3>1, <3>2
  <2>2. step' \in {"count", "single"} /\ (step' = "count" <=> card'.kind.hc)
        /\ step' \in InRead /\ step' \notin InInit
    BY <1>1, <1>2, <2>1, Flags, NotInInit DEF InRead
  <2>3. SdTypeOK'
    BY <1>1, <1>2, <1>3, <1>4, <1>5, <1>6, <2>1, <2>2 DEF SdTypeOK
  <2>4. HistoryOK'
    BY <1>5, <1>8, <2>1, <2>2 DEF HistoryOK
  <2>5. InitOK' /\ OpCondOK'
    BY <2>2 DEF InitOK, OpCondOK, InInit, Addressed, Attached
  <2>6. ReadyOK'
    BY <1>7, <2>2 DEF ReadyOK
  <2>7. ReadOK'
    <3>1. ~ host'.error /\ card'.state = "tran"
      BY <1>1, <1>2, <1>9 DEF DataLinesFree, Agrees
    <3>2. Len(got') < ask'.num
      BY <1>3, <1>4
    <3>3. \A i \in 1 .. Len(got') : got'[i] = ask'.lba + i - 1
      BY <1>4
    <3>4. QED
      BY <1>4, <2>1, <2>2, <3>1, <3>2, <3>3 DEF ReadOK
  <2>8. FailsForAReason'
    BY <2>1 DEF FailsForAReason
  <2>9. QED
    BY <2>3, <2>4, <2>5, <2>6, <2>7, <2>8 DEF SInv
<1>10. CASE ~ DataLinesFree
  <2> DEFINE ok == FALSE
  <2>1. step' = "ready" /\ ended' = [call |-> "read", ok |-> ok] /\ ok \in BOOLEAN /\ ~ ok
    BY <1>1, <1>10 DEF ReadFailed, Return
  <2> HIDE DEF ok
  <2>2. /\ ended'.call = "read" /\ ~ ended'.ok /\ step' \notin InRead /\ step' \notin InInit
        /\ ended' \in [call : {"none", "init", "read"}, ok : BOOLEAN]
    BY <2>1, NotInInit DEF InRead
  <2>3. blame'
    BY <1>1, <1>2, <1>10
  <2>4. SdTypeOK'
    BY <1>1, <1>2, <1>3, <1>4, <1>5, <1>6, <2>1, <2>2 DEF SdTypeOK
  <2>5. HistoryOK'
    BY <1>5, <1>8, <2>1, <2>2 DEF HistoryOK
  <2>6. InitOK' /\ OpCondOK'
    BY <2>1, <2>2 DEF InitOK, OpCondOK, InInit, Addressed, Attached
  <2>7. ReadyOK'
    BY <1>5, <1>7, <2>3 DEF ReadyOK
  <2>8. ReadOK'
    BY <2>1, <2>2 DEF ReadOK, InRead
  <2>9. FailsForAReason'
    BY <2>3 DEF FailsForAReason
  <2>10. QED
    BY <2>4, <2>5, <2>6, <2>7, <2>8, <2>9 DEF SInv
<1>11. QED
  BY <1>9, <1>10

(* What every step of sd_readblock may rely on. *)
LEMMA InCall ==
    ASSUME SInv, step \in InRead
    PROVE  /\ card \in CardType /\ sd \in SdType /\ host \in HostType /\ got \in Seq(Int)
           /\ ask.lba \in Nat /\ ask.num \in Int /\ ask.num >= 1 /\ tries \in Nat /\ ccs \in BOOLEAN
           /\ ~ host.error /\ Agrees /\ ended.ok /\ ended.call = "none"
           /\ \A i \in 1 .. Len(got) : got[i] = ask.lba + i - 1
BY DEF SInv, SdTypeOK, HistoryOK, ReadyOK, ReadOK, InRead

LEMMA SetBlockCountKeeps == SInv /\ SetBlockCount => SInv'
<1> SUFFICES ASSUME SInv, SetBlockCount PROVE SInv'
  OBVIOUS
<1>1. step = "count" /\ step \in InRead /\ "command" \in InRead
  BY DEF SetBlockCount, InRead
<1>2. /\ card \in CardType /\ ask.num \in Int /\ ~ host.error /\ Agrees
      /\ ended.ok /\ ended.call = "none"
      /\ \A i \in 1 .. Len(got) : got[i] = ask.lba + i - 1
  BY <1>1, InCall
<1>3. Len(got) = 0 /\ card.kind.hc /\ card.state = "tran"
  BY <1>1 DEF SInv, ReadOK
<1>4. CASE ask.num > 1 /\ "SET_BLKCNT" \in sd.scr
  <2>1. ReadCommand("SET_BLOCKCNT", ask.num, "command")
    BY <1>4 DEF SetBlockCount
  <2>2. "SET_BLKCNT" \in card.kind.scr
    BY <1>2, <1>4, Flags
  <2>3. Accepts(card, "SET_BLOCKCNT")
    BY <1>3 DEF Accepts
  <2>4. \/ SInv'
        \/ /\ ReadFramed /\ Goto("command") /\ card' = React(card, "SET_BLOCKCNT", ask.num)
           /\ UNCHANGED <<host, ask, got, ended>>
    BY <1>1, <1>2, <2>1, <2>2, <2>3, ReadCommandFacts
  <2>5. SUFFICES ASSUME ReadFramed, Goto("command"),
                        card' = React(card, "SET_BLOCKCNT", ask.num),
                        UNCHANGED <<host, ask, got, ended>>
                 PROVE  SInv'
    BY <2>4
  <2>6. card'.state = card.state /\ card'.count = ask.num
    <3>1. "SET_BLOCKCNT" \in Commands
      BY DEF Commands
    <3>2. QED
      BY <1>2, <2>5, <3>1, Reactions
  <2>7. step' = "command" /\ card'.kind = card.kind
    BY <2>5 DEF Goto, ReadFramed
  <2>8. ReadOK'
    BY <1>2, <1>3, <2>5, <2>6, <2>7 DEF ReadOK
  <2>9. QED
    BY <1>1, <2>5, <2>8, ReadMoves
<1>5. CASE ~ (ask.num > 1 /\ "SET_BLKCNT" \in sd.scr)
  <2>1. /\ Goto("command") /\ step' = "command" /\ ended' = ended
        /\ UNCHANGED <<card, host, sd, ask, got, tries, ccs, faults, blame>>
    BY <1>5 DEF SetBlockCount, Goto
  <2>2. ReadFramed
    BY <1>1, <1>2, <2>1 DEF SInv, SdTypeOK, HistoryOK, ReadFramed, Agrees
  <2>3. ReadOK'
    <3>1. ~ (ask.num > 1 /\ "SET_BLKCNT" \in card.kind.scr)
      BY <1>2, <1>5, Flags
    <3>2. QED
      BY <1>2, <1>3, <2>1, <3>1 DEF ReadOK
  <2>4. QED
    BY <1>1, <2>1, <2>2, <2>3, ReadMoves
<1>6. QED
  BY <1>4, <1>5

LEMMA ReadAllKeeps == SInv /\ ReadAll => SInv'
<1> SUFFICES ASSUME SInv, ReadAll PROVE SInv'
  OBVIOUS
<1> DEFINE cmd == IF ask.num = 1 THEN "READ_SINGLE" ELSE "READ_MULTI"
<1>1. step = "command" /\ ReadCommand(cmd, ask.lba, "data")
  BY DEF ReadAll
<1>2. step \in InRead /\ "data" \in InRead /\ cmd \in Reads /\ cmd # "SET_BLOCKCNT"
  BY <1>1 DEF InRead, Reads
<1>3. /\ card \in CardType /\ ask.lba \in Nat /\ ask.num \in Int /\ ask.num >= 1 /\ ~ host.error
      /\ Agrees /\ ended.ok /\ ended.call = "none"
      /\ \A i \in 1 .. Len(got) : got[i] = ask.lba + i - 1
  BY <1>2, InCall
<1>4. /\ Len(got) = 0 /\ card.kind.hc /\ card.state = "tran"
      /\ ask.num > 1 /\ "SET_BLKCNT" \in card.kind.scr => card.count = ask.num
      /\ "SET_BLKCNT" \notin card.kind.scr => card.count = 0
  BY <1>1 DEF SInv, ReadOK, HistoryOK
<1> HIDE DEF cmd
<1>5. \/ SInv'
      \/ /\ ReadFramed /\ Goto("data") /\ card' = React(card, cmd, ask.lba)
         /\ UNCHANGED <<host, ask, got, ended>>
  <2>1. Accepts(card, cmd)
    BY <1>2, <1>4 DEF Accepts, Reads
  <2>2. cmd \in Reads \cup {"SET_BLOCKCNT", "STOP_TRANS"} /\ ask.lba \in Int
    BY <1>2, <1>3
  <2>3. QED
    BY <1>1, <1>2, <2>1, <2>2, ReadCommandFacts
<1>6. SUFFICES ASSUME ReadFramed, Goto("data"), card' = React(card, cmd, ask.lba),
                      UNCHANGED <<host, ask, got, ended>>
               PROVE  SInv'
  BY <1>5
<1>7. step' = "data" /\ card'.kind = card.kind
  BY <1>6 DEF Goto, ReadFramed
<1>8. /\ card'.state = "data" /\ card'.next = ask.lba
      /\ card'.left = (IF ask.num = 1 THEN 1 ELSE IF card.count = 0 THEN -1 ELSE card.count)
  <2>1. CASE ask.num = 1
    <3>1. card' = React(card, "READ_SINGLE", ask.lba) /\ "READ_SINGLE" \in Commands
          /\ "READ_SINGLE" \in Reads /\ "READ_SINGLE" \in Reads \cup {"SEND_SCR"}
          /\ "READ_SINGLE" \in {"READ_SINGLE", "SEND_SCR"}
      BY <1>6, <2>1 DEF cmd, Commands, Reads
    <3>2. /\ card'.state = "data" /\ card'.left = 1
          /\ card'.next = (IF card.kind.hc THEN ask.lba ELSE ask.lba \div Block)
      BY <1>3, <3>1, Reactions
    <3>3. QED
      BY <1>4, <2>1, <3>2
  <2>2. CASE ask.num # 1
    <3>1. card' = React(card, "READ_MULTI", ask.lba) /\ "READ_MULTI" \in Commands
          /\ "READ_MULTI" \in Reads /\ "READ_MULTI" \in Reads \cup {"SEND_SCR"}
      BY <1>6, <2>2 DEF cmd, Commands, Reads
    <3>2. /\ card'.state = "data" /\ card'.left = (IF card.count = 0 THEN -1 ELSE card.count)
          /\ card'.next = (IF card.kind.hc THEN ask.lba ELSE ask.lba \div Block)
      BY <1>3, <3>1, Reactions
    <3>3. QED
      BY <1>4, <2>2, <3>2
  <2>3. QED
    BY <2>1, <2>2
<1>9. card'.left = Left'
  BY <1>3, <1>4, <1>6, <1>7, <1>8 DEF Left
<1>10. ReadOK'
  BY <1>3, <1>4, <1>6, <1>7, <1>8, <1>9 DEF ReadOK
<1>11. QED
  BY <1>2, <1>6, <1>10, ReadMoves

LEMMA Division == \A k \in Nat : (k * Block) \div Block = k
BY DEF Block

LEMMA ReadOneKeeps == SInv /\ ReadOne => SInv'
<1> SUFFICES ASSUME SInv, ReadOne PROVE SInv'
  OBVIOUS
<1> DEFINE k == ask.lba + Len(got)
           a0 == k * Block
<1>1. step = "single" /\ ReadCommand("READ_SINGLE", a0, "data")
  BY DEF ReadOne
<1>2. step \in InRead /\ "data" \in InRead /\ "READ_SINGLE" \in Reads
      /\ "READ_SINGLE" \in Commands /\ "READ_SINGLE" # "SET_BLOCKCNT"
      /\ "READ_SINGLE" \in Reads \cup {"SEND_SCR"} /\ "READ_SINGLE" \in {"READ_SINGLE", "SEND_SCR"}
  BY <1>1 DEF InRead, Reads, Commands
<1>3. /\ card \in CardType /\ got \in Seq(Int) /\ ask.lba \in Nat /\ ask.num \in Int
      /\ ask.num >= 1 /\ ~ host.error /\ Agrees /\ ended.ok /\ ended.call = "none"
      /\ \A i \in 1 .. Len(got) : got[i] = ask.lba + i - 1
  BY <1>2, InCall
<1>4. ~ card.kind.hc /\ card.state = "tran" /\ Len(got) < ask.num
  BY <1>1 DEF SInv, ReadOK
<1>5. k \in Nat /\ a0 \in Int /\ a0 \div Block = k
  BY <1>3, Division DEF Block
<1> HIDE DEF a0
<1>6. \/ SInv'
      \/ /\ ReadFramed /\ Goto("data") /\ card' = React(card, "READ_SINGLE", a0)
         /\ UNCHANGED <<host, ask, got, ended>>
  <2>1. Accepts(card, "READ_SINGLE")
    BY <1>4 DEF Accepts
  <2>2. "READ_SINGLE" \in Reads \cup {"SET_BLOCKCNT", "STOP_TRANS"}
    BY <1>2
  <2>3. QED
    BY <1>1, <1>2, <1>5, <2>1, <2>2, ReadCommandFacts
<1>7. SUFFICES ASSUME ReadFramed, Goto("data"), card' = React(card, "READ_SINGLE", a0),
                      UNCHANGED <<host, ask, got, ended>>
               PROVE  SInv'
  BY <1>6
<1>8. step' = "data" /\ card'.kind = card.kind
  BY <1>7 DEF Goto, ReadFramed
<1>9. card'.state = "data" /\ card'.next = ask.lba + Len(got) /\ card'.left = 1
  <2>1. /\ card'.state = "data" /\ card'.left = 1
        /\ card'.next = (IF card.kind.hc THEN a0 ELSE a0 \div Block)
    <3>1. a0 \in Int /\ card \in CardType
      BY <1>3, <1>5
    <3>2. LET d == React(card, "READ_SINGLE", a0) IN
          /\ "READ_SINGLE" \in Reads \cup {"SEND_SCR"} => d.state = "data"
          /\ "READ_SINGLE" \in Reads =>
                d.next = (IF card.kind.hc THEN a0 ELSE a0 \div Block)
          /\ "READ_SINGLE" \in {"READ_SINGLE", "SEND_SCR"} => d.left = 1
      BY <1>2, <3>1, Reactions
    <3>3. QED
      BY <1>2, <1>7, <3>2
  <2>2. QED
    BY <1>4, <1>5, <2>1
<1>10. card'.left = Left'
  BY <1>4, <1>8, <1>9 DEF Left
<1>11. ReadOK'
  BY <1>3, <1>4, <1>7, <1>8, <1>9, <1>10 DEF ReadOK
<1>12. QED
  BY <1>2, <1>7, <1>11, ReadMoves

LEMMA StopTransKeeps == SInv /\ StopTrans => SInv'
<1> SUFFICES ASSUME SInv, StopTrans PROVE SInv'
  OBVIOUS
<1>1. step = "stop" /\ ReadCommand("STOP_TRANS", 0, "return")
  BY DEF StopTrans
<1>2. step \in InRead /\ "return" \in InRead /\ "STOP_TRANS" \in Commands
  BY <1>1 DEF InRead, Commands
<1>3. /\ card \in CardType /\ ~ host.error /\ Agrees /\ ended.ok /\ ended.call = "none"
      /\ \A i \in 1 .. Len(got) : got[i] = ask.lba + i - 1
  BY <1>2, InCall
<1>4. card.state = "data" /\ Len(got) = ask.num
  BY <1>1 DEF SInv, ReadOK
<1>5. \/ SInv'
      \/ /\ ReadFramed /\ Goto("return") /\ card' = React(card, "STOP_TRANS", 0)
         /\ UNCHANGED <<host, ask, got, ended>>
  <2>1. Accepts(card, "STOP_TRANS")
    BY <1>4 DEF Accepts
  <2>2. QED
    BY <1>1, <1>2, <2>1, ReadCommandFacts
<1>6. SUFFICES ASSUME ReadFramed, Goto("return"), card' = React(card, "STOP_TRANS", 0),
                      UNCHANGED <<host, ask, got, ended>>
               PROVE  SInv'
  BY <1>5
<1>7. card'.state = "tran"
  BY <1>2, <1>3, <1>6, Reactions
<1>8. step' = "return"
  BY <1>6 DEF Goto
<1>9. ReadOK'
  BY <1>3, <1>4, <1>6, <1>7, <1>8 DEF ReadOK
<1>10. QED
  BY <1>2, <1>6, <1>9, ReadMoves

LEMMA ReadReturnKeeps == SInv /\ ReadReturn => SInv'
<1> SUFFICES ASSUME SInv, ReadReturn PROVE SInv'
  OBVIOUS
<1> DEFINE ok == TRUE
<1>1. /\ step = "return" /\ Return("read", ok) /\ ok \in BOOLEAN /\ ok
      /\ UNCHANGED <<card, host, sd, ask, got, tries, ccs, faults, blame>>
  BY DEF ReadReturn
<1> HIDE DEF ok
<1>2. step \in InRead
  BY <1>1 DEF InRead
<1>3. /\ card \in CardType /\ ~ host.error /\ Agrees
      /\ \A i \in 1 .. Len(got) : got[i] = ask.lba + i - 1
  BY <1>2, InCall
<1>4. card.state = "tran" /\ Len(got) = ask.num
  BY <1>1 DEF SInv, ReadOK
<1>5. /\ step' = "ready" /\ step' \notin InRead /\ ended' = [call |-> "read", ok |-> ok]
      /\ ended' \in [call : {"none", "init", "read"}, ok : BOOLEAN]
  BY <1>1 DEF Return, InRead
<1>6. ReadFramed
  <2>1. SdTypeOK'
    BY <1>1, <1>5 DEF SInv, SdTypeOK
  <2>2. QED
    BY <1>1, <1>3, <2>1 DEF SInv, HistoryOK, ReadFramed, Agrees
<1>7. DataLinesFree' /\ ReadOK'
  BY <1>1, <1>3, <1>4, <1>5 DEF DataLinesFree, ReadOK
<1>8. QED
  BY <1>1, <1>6, <1>7, ReadReturns

(* The block that arrives is the next one of those asked for; behind the   *)
(* last one the card has none left, or is told to stop.                    *)
LEMMA ReadDataKeeps == SInv /\ ReadData => SInv'
<1> SUFFICES ASSUME SInv, ReadData PROVE SInv'
  OBVIOUS
<1>1. PICK o \in Outcomes :
         /\ Blamed({o})
         /\ IF o = "ok"
            THEN /\ BlockArrives /\ got' = Append(got, card.next)
                 /\ Goto(AfterBlock(Len(got) + 1)) /\ UNCHANGED sd
            ELSE /\ BlockMissing(o) /\ ReadFailed /\ UNCHANGED got
                 /\ sd' = [sd EXCEPT !.err = IF o = "error" THEN "ERROR" ELSE "TIMEOUT"]
  BY DEF ReadData
<1>2. step = "data" /\ step \in InRead /\ UNCHANGED <<ask, tries, ccs>>
  BY DEF ReadData, InRead
<1>3. /\ card \in CardType /\ sd \in SdType /\ host \in HostType /\ got \in Seq(Int)
      /\ ask.lba \in Nat /\ ask.num \in Int /\ ask.num >= 1 /\ tries \in Nat /\ ccs \in BOOLEAN
      /\ ~ host.error /\ Agrees /\ ended.ok /\ ended.call = "none"
      /\ \A i \in 1 .. Len(got) : got[i] = ask.lba + i - 1
  BY <1>2, InCall
<1>4. /\ Len(got) < ask.num /\ card.state = "data" /\ card.left = Left
      /\ card.next = ask.lba + Len(got)
  BY <1>2 DEF SInv, ReadOK
<1>5. CASE o = "ok"
  <2> DEFINE n == Len(got) + 1
             s == AfterBlock(n)
  <2>1. BlockArrives /\ got' = Append(got, card.next) /\ Goto(s) /\ UNCHANGED <<sd, host>>
    BY <1>1, <1>5 DEF BlockArrives
  <2>2. /\ card' \in CardType /\ card'.kind = card.kind /\ card'.count = card.count
        /\ card'.width = card.width /\ card'.rca = card.rca /\ card'.next = card.next + 1
        /\ card'.left = (IF card.left > 0 THEN card.left - 1 ELSE card.left)
        /\ card'.state = (IF card.left = 1 THEN "tran" ELSE "data")
    BY <1>3, <2>1, Arrives
  <2>3. /\ got' \in Seq(Int) /\ Len(got') = n /\ n \in Nat /\ n >= 1 /\ n <= ask.num
        /\ \A i \in 1 .. Len(got') : got'[i] = ask.lba + i - 1
    <3>1. card.next \in Int
      BY <1>3 DEF CardType
    <3>2. got' \in Seq(Int) /\ Len(got') = n /\ n \in Nat /\ n >= 1 /\ n <= ask.num
      BY <1>3, <1>4, <2>1, <3>1
    <3>3. ASSUME NEW i \in 1 .. n PROVE got'[i] = ask.lba + i - 1
      <4>1. CASE i = n
        BY <1>3, <1>4, <2>1, <3>1, <4>1
      <4>2. CASE i # n
        <5>1. i \in 1 .. Len(got) /\ got'[i] = got[i]
          BY <1>3, <2>1, <3>1, <4>2
        <5>2. QED
          BY <1>3, <5>1
      <4>3. QED
        BY <4>1, <4>2
    <3>4. QED
      BY <3>2, <3>3
  <2> HIDE DEF n
  <2>4. /\ s = IF n < ask.num THEN (IF card.kind.hc THEN "data" ELSE "single")
               ELSE IF ask.num > 1 /\ "SET_BLKCNT" \notin card.kind.scr /\ card.kind.hc
                    THEN "stop" ELSE "return"
        /\ s \in InRead /\ card.kind.hc \in BOOLEAN
    BY <1>3, Flags DEF AfterBlock, InRead
  <2>5. step' = s /\ ended' = ended
    BY <2>1 DEF Goto
  <2> HIDE DEF s
  <2>6. ReadFramed
    <3>1. host' \in HostType /\ sd' \in SdType /\ tries' \in Nat /\ ccs' \in BOOLEAN
      BY <1>2, <1>3, <2>1
    <3>2. \E t \in InInit \cup InRead : Goto(t)
      BY <2>1, <2>4
    <3>3. SdTypeOK'
      BY <1>1, <1>2, <2>2, <2>3, <3>1, <3>2, Types
    <3>4. Agrees'
      BY <1>3, <2>1, <2>2 DEF Agrees
    <3>5. "SET_BLKCNT" \notin card.kind.scr => card'.count = 0
      BY <2>2 DEF SInv, HistoryOK
    <3>6. blame' => faults' > 0
      BY <1>1, BlameFacts
    <3>7. QED
      BY <2>2, <3>3, <3>4, <3>5, <3>6 DEF ReadFramed
  <2>7. card.left = (IF ~ card.kind.hc \/ ask.num = 1 THEN 1
                     ELSE IF "SET_BLKCNT" \in card.kind.scr THEN ask.num - (n - 1) ELSE -1)
    BY <1>3, <1>4 DEF Left, n
  <2>8. card.next = ask.lba + n - 1
    BY <1>3, <1>4 DEF n
  <2>9. s = "data" => card'.state = "data" /\ card'.left = Left' /\ card'.next = ask.lba + n
    <3>1. SUFFICES ASSUME s = "data"
                   PROVE  card'.state = "data" /\ card'.left = Left' /\ card'.next = ask.lba + n
      OBVIOUS
    <3>2. n < ask.num /\ card.kind.hc /\ ask.num # 1
      BY <1>3, <2>3, <2>4, <3>1
    <3>3. card.left = (IF "SET_BLKCNT" \in card.kind.scr THEN ask.num - (n - 1) ELSE -1)
      BY <2>7, <3>2
    <3>4. Left' = (IF "SET_BLKCNT" \in card.kind.scr THEN ask.num - n ELSE -1)
      BY <1>2, <2>2, <2>3, <3>2 DEF Left
    <3>5. card'.state = "data" /\ card'.left = Left'
      BY <1>3, <2>2, <2>3, <3>2, <3>3, <3>4
    <3>6. QED
      BY <1>3, <2>2, <2>3, <2>8, <3>5
  <2>10. s = "single" => ~ card.kind.hc /\ n < ask.num
    BY <2>4
  <2>11. s = "stop" => card'.state = "data" /\ n = ask.num
    BY <1>3, <2>2, <2>3, <2>4, <2>7
  <2>12. s = "return" => card'.state = "tran" /\ n = ask.num
    BY <1>3, <2>2, <2>3, <2>4, <2>7
  <2>13. s = "single" => card'.state = "tran"
    BY <2>2, <2>7, <2>10
  <2>14. s = "data" => n < ask.num
    BY <2>4
  <2>15. s \in {"data", "single", "stop", "return"}
    BY <2>4
  <2>16. ReadOK'
    BY <1>2, <1>3, <2>1, <2>2, <2>3, <2>5, <2>9, <2>10, <2>11, <2>12, <2>13, <2>14, <2>15 DEF ReadOK
  <2>17. QED
    BY <1>2, <2>1, <2>4, <2>6, <2>16, ReadMoves
<1>6. CASE o # "ok"
  <2> DEFINE e == IF o = "error" THEN "ERROR" ELSE "TIMEOUT"
             ok == FALSE
  <2>1. /\ BlockMissing(o) /\ Return("read", ok) /\ ok \in BOOLEAN /\ ~ ok /\ UNCHANGED got
        /\ sd' = [sd EXCEPT !.err = e] /\ e \in {"OK", "TIMEOUT", "ERROR"} /\ blame'
    <3>1. blame'
      BY <1>1, <1>6, BlameFacts
    <3>2. QED
      BY <1>1, <1>6, <3>1 DEF ReadFailed
  <2> HIDE DEF e, ok
  <2>2. sd' \in SdType /\ sd'.scr = sd.scr /\ sd'.rca = sd.rca
    BY <1>3, <2>1, NewError
  <2>3. /\ card' \in CardType /\ card'.kind = card.kind /\ card'.count = card.count
        /\ card'.width = card.width /\ card'.rca = card.rca
        /\ card'.state \in {"tran", card.state}
        /\ host' \in HostType /\ host'.width = host.width /\ host'.clock = host.clock
    BY <1>3, <2>1, Missing
  <2>4. ReadFramed
    <3>1. \E c \in {"init", "read"}, r \in BOOLEAN : Return(c, r)
      BY <2>1
    <3>2. SdTypeOK'
      BY <1>1, <1>2, <1>3, <2>1, <2>2, <2>3, <3>1, Types
    <3>3. Agrees'
      BY <1>3, <1>4, <2>2, <2>3 DEF Agrees
    <3>4. "SET_BLKCNT" \notin card.kind.scr => card'.count = 0
      BY <2>3 DEF SInv, HistoryOK
    <3>5. blame' => faults' > 0
      BY <1>1, BlameFacts
    <3>6. QED
      BY <2>3, <3>2, <3>3, <3>4, <3>5 DEF ReadFramed
  <2>5. QED
    BY <2>1, <2>4, ReadReturns
<1>7. QED
  BY <1>5, <1>6
-----------------------------------------------------------------------------
LEMMA InitSInv == SdInit => SInv
<1> SUFFICES ASSUME SdInit PROVE SInv
  OBVIOUS
<1>1. PICK k \in Cards :
         card = [kind |-> k, state |-> "idle", app |-> FALSE, width |-> 1, rca |-> 0,
                 count |-> 0, busy |-> k.polls, next |-> 0, left |-> 0]
  BY DEF SdInit
<1>2. /\ host = [width |-> 1, clock |-> "off", error |-> FALSE]
      /\ sd = [scr |-> {}, rca |-> 0, err |-> "OK"]
      /\ step = "closed" /\ ask = [lba |-> 0, num |-> 1] /\ got = <<>>
      /\ tries = 0 /\ ccs = FALSE /\ ended = [call |-> "none", ok |-> TRUE]
      /\ faults = 0 /\ blame = FALSE
  BY DEF SdInit
<1>3. k.polls \in Nat
  BY CardsAssumption
<1>4. SdTypeOK
  <2>1. card \in CardType
    BY <1>1, <1>3 DEF CardType, CardStates
  <2>2. host \in HostType
    BY <1>2 DEF HostType
  <2>3. sd \in SdType
    BY <1>2 DEF SdType
  <2>4. ended \in [call : {"none", "init", "read"}, ok : BOOLEAN] /\ ccs \in BOOLEAN
        /\ blame \in BOOLEAN
    BY <1>2, Zenon
  <2>5. ask \in [lba : Nat, num : Int] /\ ask.num >= 1 /\ got \in Seq(Int)
    BY <1>2
  <2>6. step \in {"closed", "ready", "reset"} \cup InInit \cup InRead
        /\ tries \in Nat /\ faults \in Nat
    BY <1>2
  <2>7. QED
    BY <2>1, <2>2, <2>3, <2>4, <2>5, <2>6 DEF SdTypeOK
<1>5. step \notin InInit /\ step \notin InRead /\ step # "ready" /\ ended.ok /\ ended.call = "none"
  <2> DEFINE yes == TRUE
  <2>1. step \notin InInit /\ step \notin InRead /\ step # "ready"
    BY <1>2, NotInInit DEF InRead
  <2>2. ended = [call |-> "none", ok |-> yes] /\ yes
    BY <1>2
  <2> HIDE DEF yes
  <2>3. QED
    BY <2>1, <2>2
<1>6. HistoryOK
  BY <1>1, <1>2, <1>5 DEF HistoryOK
<1>7. InitOK /\ OpCondOK
  BY <1>5 DEF InitOK, OpCondOK, InInit, Addressed, Attached
<1>8. ReadyOK /\ ReadOK /\ FailsForAReason
  BY <1>5 DEF ReadyOK, ReadOK, InRead, FailsForAReason
<1>9. QED
  BY <1>4, <1>6, <1>7, <1>8 DEF SInv

LEMMA NextSInv == SInv /\ [SdNext]_sdVars => SInv'
<1> SUFFICES ASSUME SInv, [SdNext]_sdVars PROVE SInv'
  OBVIOUS
<1>1. CASE sd_init \/ Reset \/ sd_clk \/ PlainCommand \/ OpCond \/ RelAddr
  BY <1>1, sd_initKeeps, ResetKeeps, sd_clkKeeps, PlainCommandKeeps, OpCondKeeps, RelAddrKeeps
<1>2. CASE Inhibit \/ ScrReady \/ ScrData \/ ScrForever \/ BusWidth
  BY <1>2, InhibitKeeps, ScrReadyKeeps, ScrDataKeeps, BusWidthKeeps, SdStutter DEF ScrForever
<1>3. CASE \E q \in Requests : sd_readblock(q)
  BY <1>3, sd_readblockKeeps
<1>4. CASE SetBlockCount \/ ReadAll \/ ReadOne \/ ReadData \/ StopTrans \/ ReadReturn
  BY <1>4, SetBlockCountKeeps, ReadAllKeeps, ReadOneKeeps, ReadDataKeeps, StopTransKeeps,
     ReadReturnKeeps
<1>5. CASE UNCHANGED sdVars
  BY <1>5, SdStutter
<1>6. QED
  BY <1>1, <1>2, <1>3, <1>4, <1>5 DEF SdNext

LEMMA SInvAlways == SdSpec => []SInv
BY InitSInv, NextSInv, PTL DEF SdSpec

(* Between two calls driver, controller and card agree, whatever faults    *)
(* the calls met: sd_init sets up all of it or is not a success, and       *)
(* sd_readblock, however it ends, changes none of it.                      *)
THEOREM CardAgreement == SdSpec => []AgreesWithCard
<1>1. SInv => AgreesWithCard
  BY DEF SInv, ReadyOK, Agrees, AgreesWithCard
<1>2. QED
  BY <1>1, SInvAlways, PTL

(* sd_readblock returns the blocks asked for, all of them and in order, or *)
(* reports that it failed: for any kind of card, any block, any number of  *)
(* blocks and any faults, in this call and before it.                      *)
THEOREM RightBlocks == SdSpec => []ReadsWhatWasAsked
<1>1. SInv => ReadsWhatWasAsked
  <2>1. SUFFICES ASSUME SInv, ended = [call |-> "read", ok |-> TRUE]
                 PROVE  got = [i \in 1 .. ask.num |-> ask.lba + i - 1]
    BY DEF ReadsWhatWasAsked
  <2>2. ended.call = "read" /\ ended.ok
    <3> DEFINE yes == TRUE
    <3>1. ended = [call |-> "read", ok |-> yes] /\ yes
      BY <2>1
    <3> HIDE DEF yes
    <3>2. QED
      BY <3>1
  <2>3. /\ Len(got) = ask.num /\ got \in Seq(Int)
        /\ \A i \in 1 .. Len(got) : got[i] = ask.lba + i - 1
    BY <2>1, <2>2 DEF SInv, ReadOK, SdTypeOK
  <2>4. QED
    BY <2>3
<1>2. QED
  BY <1>1, SInvAlways, PTL

(* A call that fails met a fault, or pays for one that an earlier call     *)
(* left behind; only sd_init has a failure of its own, for a card that is  *)
(* busy for five of the six tries at ACMD41.                               *)
THEOREM FailureHasAReason == SdSpec => []FailsForAReason
<1>1. SInv => FailsForAReason
  BY DEF SInv
<1>2. QED
  BY <1>1, SInvAlways, PTL
-----------------------------------------------------------------------------
(* The two words of a counter. *)
Upper(a) == a \div Word
Lower(a) == a % Word

LEMMA WordsOf ==
    ASSUME NEW a \in Int
    PROVE  /\ Upper(a) \in Int /\ Lower(a) \in Int /\ 0 <= Lower(a) /\ Lower(a) < Word
           /\ a = Upper(a) * Word + Lower(a)
<1>1. Word \in Int /\ Word > 0
  BY ClockAssumption
<1>2. a \div Word \in Int /\ a % Word \in 0 .. Word - 1
  BY <1>1
<1>3. a % Word = a - Word * (a \div Word)
  BY <1>1
<1>4. Upper(a) \in Int /\ Lower(a) \in 0 .. Word - 1 /\ Lower(a) = a - Word * Upper(a)
  BY <1>2, <1>3 DEF Upper, Lower
<1>5. QED
  BY <1>1, <1>4

LEMMA DivisionIsUnique ==
    ASSUME NEW W \in Nat \ {0}, NEW a \in Int, NEW k \in Int, NEW r \in 0 .. W - 1,
           a = k * W + r
    PROVE  a \div W = k /\ a % W = r
OBVIOUS

LEMMA WordsAreUnique ==
    ASSUME NEW a \in Int, NEW k \in Int, NEW r \in 0 .. Word - 1, a = k * Word + r
    PROVE  Upper(a) = k /\ Lower(a) = r
<1>1. Word \in Nat \ {0}
  BY ClockAssumption
<1>2. a \div Word = k /\ a % Word = r
  BY <1>1, DivisionIsUnique
<1>3. QED
  BY <1>2 DEF Upper, Lower

LEMMA TimesMonotone ==
    ASSUME NEW k \in Int, NEW m \in Int, k <= m
    PROVE  k * Word \in Int /\ m * Word \in Int /\ k * Word <= m * Word
<1>1. ASSUME NEW W \in Nat \ {0}
      PROVE  k * W \in Int /\ m * W \in Int /\ k * W <= m * W
  OBVIOUS
<1>2. QED
  BY <1>1, ClockAssumption

LEMMA UpperMonotone ==
    ASSUME NEW a \in Int, NEW b \in Int, a <= b
    PROVE  Upper(a) <= Upper(b)
<1>1. /\ Word \in Int /\ Upper(a) \in Int /\ Upper(b) \in Int
      /\ a = Upper(a) * Word + Lower(a) /\ Lower(a) \in Int /\ 0 <= Lower(a)
      /\ b = Upper(b) * Word + Lower(b) /\ Lower(b) \in Int /\ Lower(b) < Word
  BY WordsOf, ClockAssumption
<1>2. Upper(a) * Word <= a /\ b < Upper(b) * Word + Word
  <2>1. Upper(a) * Word \in Int /\ Upper(b) * Word \in Int
    BY <1>1
  <2>2. QED
    BY <1>1, <2>1
<1>3. ASSUME Upper(b) + 1 <= Upper(a) PROVE FALSE
  <2> DEFINE k == Upper(b) + 1
  <2>0. k \in Int /\ k <= Upper(a)
    BY <1>1, <1>3
  <2>1. k * Word <= Upper(a) * Word
    <3> HIDE DEF k
    <3>1. QED
      BY <1>1, <2>0, TimesMonotone
  <2>2. (Upper(b) + 1) * Word = Upper(b) * Word + Word
    BY <1>1
  <2>3. QED
    BY <1>1, <1>2, <2>1, <2>2
<1>4. QED
  BY <1>1, <1>3

(* The time that has gone by between a and b, of which only the lower      *)
(* words are known, is no less than what they say.                         *)
LEMMA ElapsedAtLeast ==
    ASSUME NEW a \in Nat, NEW b \in Nat, a <= b
    PROVE  Lower(Lower(b) - Lower(a)) \in Int /\ Lower(Lower(b) - Lower(a)) <= b - a
<1> DEFINE k == Upper(a)
           m == Upper(b)
           x == Lower(a)
           y == Lower(b)
           e == Upper(b - a)
           r == Lower(b - a)
<1>1. /\ k \in Int /\ m \in Int /\ e \in Int /\ x \in Int /\ y \in Int /\ r \in 0 .. Word - 1
      /\ a = k * Word + x /\ b = m * Word + y /\ b - a = e * Word + r
      /\ Word \in Int
  BY WordsOf, ClockAssumption
<1>2. Upper(0) = 0
  BY WordsAreUnique, ClockAssumption
<1>3. e >= 0
  BY <1>2, UpperMonotone
<1> HIDE DEF k, m, x, y, e, r
<1>4. y - x = (e - m + k) * Word + r
  <2>1. (e - m + k) * Word = e * Word - m * Word + k * Word
    BY <1>1
  <2>2. k * Word \in Int /\ m * Word \in Int /\ e * Word \in Int
    BY <1>1
  <2>3. QED
    BY <1>1, <2>1, <2>2
<1>5. Lower(y - x) = r
  <2>1. y - x \in Int /\ e - m + k \in Int
    BY <1>1
  <2>2. QED
    BY <1>1, <1>4, <2>1, WordsAreUnique
<1>6. 0 * Word <= e * Word
  BY <1>1, <1>3, TimesMonotone
<1>7. Lower(y - x) \in Int /\ Lower(y - x) <= b - a
  BY <1>1, <1>5, <1>6
<1>8. QED
  BY <1>7 DEF x, y
-----------------------------------------------------------------------------
(* A call that has loaded the upper word has one between that of its start *)
(* and that of now; a wait has the lower word of its start.                *)
Calling == {"first", "second", "returned", "waiting", "waited"}
CInv ==
    /\ now \in Nat /\ since \in Nat /\ ticks \in Nat /\ start \in Int
    /\ word \in [{"upper", "lower"} -> Int] /\ time \in Int
    /\ at \in {"idle"} \cup Calling
    /\ at \in Calling => since <= now
    /\ at = "second" => Upper(since) <= word.upper /\ word.upper <= Upper(now)
    /\ at \in {"waiting", "waited"} => start = Lower(since)
    /\ NeverAhead /\ WaitsLongEnough

LEMMA InitCInv == ClockInit => CInv
BY ClockAssumption DEF ClockInit, CInv, Calling, NeverAhead, WaitsLongEnough

LEMMA NextCInv == CInv /\ [ClockNext]_clockVars => CInv'
<1> SUFFICES ASSUME CInv, [ClockNext]_clockVars PROVE CInv'
  OBVIOUS
<1>w. /\ now \in Nat /\ since \in Nat /\ Word \in Int /\ Word > 0
      /\ at \in Calling => since <= now /\ Upper(since) <= Upper(now)
      /\ Upper(now) \in Int /\ Upper(since) \in Int /\ Lower(now) \in Int
  BY ClockAssumption, WordsOf, UpperMonotone DEF CInv
<1>1. CASE Tick
  <2>1. /\ now' = now + 1 /\ UNCHANGED <<at, since, word, start, ticks, time>>
        /\ Upper(now) <= Upper(now + 1) /\ Upper(now + 1) \in Int
    <3>1. now + 1 \in Int /\ now \in Int /\ now <= now + 1
      BY <1>w
    <3>2. Upper(now) <= Upper(now + 1) /\ Upper(now + 1) \in Int
      BY <3>1, WordsOf, UpperMonotone
    <3>3. QED
      BY <1>1, <3>2 DEF Tick
  <2>2. at = "second" => Upper(since) <= word.upper /\ word.upper <= Upper(now + 1)
    BY <1>w, <2>1 DEF CInv
  <2>3. at = "returned" => /\ time <= now + 1 /\ since - Word < time
                           /\ Upper(since) = Upper(now + 1) => since <= time
    BY <1>w, <2>1 DEF CInv, Calling, NeverAhead, Upper
  <2>4. at = "waited" => now + 1 - since >= ticks
    BY <1>w DEF CInv, WaitsLongEnough
  <2>5. QED
    BY <1>w, <2>1, <2>2, <2>3, <2>4 DEF CInv, Calling, NeverAhead, WaitsLongEnough, Upper
<1>2. CASE get_time
  BY <1>2 DEF get_time, CInv, Calling, NeverAhead, WaitsLongEnough
<1>3. CASE LoadFirst
  <2>1. /\ at = "first" /\ at' = "second" /\ word' = [word EXCEPT !["upper"] = Upper(now)]
        /\ UNCHANGED <<now, since, start, ticks, time>>
    BY <1>3 DEF LoadFirst, Load, Order, SYS_TIMER_CLO, Upper
  <2>2. word' \in [{"upper", "lower"} -> Int] /\ word'.upper = Upper(now)
    BY <1>w, <2>1 DEF CInv
  <2>3. QED
    BY <1>w, <2>1, <2>2 DEF CInv, Calling, NeverAhead, WaitsLongEnough
<1>4. CASE LoadSecond
  <2> DEFINE u == word.upper
  <2>1. /\ at = "second" /\ at' = "returned" /\ word' = [word EXCEPT !["lower"] = Lower(now)]
        /\ time' = word'.upper * Word + word'.lower
        /\ UNCHANGED <<now, since, start, ticks>>
    BY <1>4 DEF LoadSecond, Load, Order, SYS_TIMER_CHI, Lower
  <2>2. word' \in [{"upper", "lower"} -> Int] /\ time' = u * Word + Lower(now)
    BY <1>w, <2>1 DEF CInv
  <2>3. /\ u \in Int /\ Upper(since) <= u /\ u <= Upper(now)
        /\ now = Upper(now) * Word + Lower(now) /\ 0 <= Lower(now)
        /\ since < Upper(since) * Word + Word /\ since <= now
    BY <1>w, <2>1, WordsOf DEF CInv, Calling
  <2> HIDE DEF u
  <2>4. /\ Upper(since) * Word <= u * Word /\ u * Word <= Upper(now) * Word
        /\ Upper(since) * Word \in Int /\ u * Word \in Int /\ Upper(now) * Word \in Int
    BY <1>w, <2>3, TimesMonotone
  <2>5. /\ time' \in Int /\ time' <= now /\ since - Word < time'
        /\ Upper(since) = Upper(now) => since <= time'
    BY <1>w, <2>2, <2>3, <2>4
  <2>6. QED
    BY <1>w, <2>1, <2>2, <2>5 DEF CInv, Calling, NeverAhead, WaitsLongEnough, Upper
<1>5. ASSUME NEW n \in Waits, wait_msec(n)
      PROVE  CInv'
  <2>1. /\ at' = "waiting" /\ since' = now /\ ticks' = n /\ start' = Lower(now) /\ time' = -1
        /\ UNCHANGED <<now, word>> /\ n \in Nat
    BY <1>5, ClockAssumption DEF wait_msec, SYS_TIMER_CHI, Lower
  <2>2. QED
    BY <1>w, <2>1 DEF CInv, Calling, NeverAhead, WaitsLongEnough
<1>6. CASE Poll
  <2>1. /\ at = "waiting" /\ at' = "waited" /\ ~ (Lower(Lower(now) - start) < ticks)
        /\ start = Lower(since)
        /\ UNCHANGED <<now, since, word, start, ticks, time>>
    BY <1>6 DEF Poll, StillWaiting, SYS_TIMER_CHI, CInv, Lower
  <2>2. now - since >= ticks
    <3>1. /\ Lower(Lower(now) - Lower(since)) \in Int
          /\ Lower(Lower(now) - Lower(since)) <= now - since
      BY <1>w, <2>1, ElapsedAtLeast DEF Calling
    <3>2. QED
      BY <1>w, <2>1, <3>1 DEF CInv
  <2>3. QED
    BY <2>1, <2>2 DEF CInv, Calling, NeverAhead, WaitsLongEnough
<1>7. CASE Leave
  BY <1>7 DEF Leave, CInv, Calling, NeverAhead, WaitsLongEnough
<1>8. CASE UNCHANGED clockVars
  BY <1>8 DEF clockVars, CInv, Calling, NeverAhead, WaitsLongEnough
<1>9. QED
  BY <1>1, <1>2, <1>3, <1>4, <1>5, <1>6, <1>7, <1>8 DEF ClockNext

LEMMA ClockInvariant == ClockSpec => []CInv
<1>1. QED
  BY InitCInv, NextCInv, PTL DEF ClockSpec

(* The time that get_time puts together from two loads, of which the upper *)
(* word comes first, is never ahead of the clock, however long the caller  *)
(* was preempted between them; and it is behind the start of the call only *)
(* when the lower word has wrapped, by less than one wrap.                 *)
THEOREM TimeIsNeverAhead == ClockSpec => []NeverAhead
<1>1. CInv => NeverAhead
  BY DEF CInv
<1>2. QED
  BY <1>1, ClockInvariant, PTL

(* wait_msec, which reads the lower word only, waits for its ticks.        *)
THEOREM WaitsAreLongEnough == ClockSpec => []WaitsLongEnough
<1>1. CInv => WaitsLongEnough
  BY DEF CInv
<1>2. QED
  BY <1>1, ClockInvariant, PTL
-----------------------------------------------------------------------------
(***************************************************************************)
(* sqrt_rnd.  With the bits down to that of p tried, op is what is left of *)
(* v, res is p times the root so far, and the root is less than p too low. *)
(***************************************************************************)
RootSoFar(S, v, p) ==
    \E r \in Nat : /\ S = [op |-> v - r * r, res |-> p * r]
                   /\ r * r <= v /\ v < (r + p) * (r + p)

LEMMA NextBit ==
    ASSUME NEW v \in Nat, NEW p \in Nat, NEW k \in Nat, 4 ^ k = p * p, p > 0,
           NEW S, RootSoFar(S, v, 2 * p)
    PROVE  RootSoFar(RootBit(S, k), v, p)
<1>1. PICK r \in Nat : /\ S = [op |-> v - r * r, res |-> (2 * p) * r]
                       /\ r * r <= v /\ v < (r + 2 * p) * (r + 2 * p)
  BY DEF RootSoFar
<1>2. S.op = v - r * r /\ S.res = (2 * p) * r
  BY <1>1
<1>3. S.res \div 2 = p * r
  <2>1. p * r \in Nat /\ (2 * p) * r = 2 * (p * r)
    OBVIOUS
  <2>2. \A y \in Nat : (2 * y) \div 2 = y
    OBVIOUS
  <2>3. QED
    BY <1>2, <2>1, <2>2
<1>4. (r + p) * (r + p) = r * r + (2 * p) * r + p * p
  OBVIOUS
<1>t. p * r \in Nat /\ p * p \in Nat /\ r * r \in Nat /\ (2 * p) * r \in Nat
      /\ (r + p) * (r + p) \in Nat
  OBVIOUS
<1>5. CASE S.op >= S.res + 4 ^ k
  <2>1. RootBit(S, k) = [op |-> S.op - S.res - 4 ^ k, res |-> S.res \div 2 + 4 ^ k]
    BY <1>5 DEF RootBit
  <2>2. S.op - S.res - 4 ^ k = v - (r + p) * (r + p)
    BY <1>2, <1>4, <1>t
  <2>3. S.res \div 2 + 4 ^ k = p * (r + p)
    BY <1>3
  <2>4. (r + p) * (r + p) <= v
    BY <1>2, <1>4, <1>5, <1>t
  <2>5. v < ((r + p) + p) * ((r + p) + p)
    <3>1. (r + 2 * p) * (r + 2 * p) = ((r + p) + p) * ((r + p) + p)
      OBVIOUS
    <3>2. QED
      BY <1>1, <3>1
  <2>6. r + p \in Nat
    OBVIOUS
  <2>7. QED
    BY <2>1, <2>2, <2>3, <2>4, <2>5, <2>6 DEF RootSoFar
<1>6. CASE ~ (S.op >= S.res + 4 ^ k)
  <2>1. RootBit(S, k) = [op |-> v - r * r, res |-> p * r]
    <3>1. RootBit(S, k) = [S EXCEPT !.res = @ \div 2]
      BY <1>6 DEF RootBit
    <3>2. QED
      BY <1>1, <1>3, <3>1
  <2>2. v < (r + p) * (r + p)
    BY <1>2, <1>4, <1>6, <1>t
  <2>3. QED
    BY <1>1, <2>1, <2>2 DEF RootSoFar
<1>7. QED
  BY <1>5, <1>6

(* The loop from the bit 15 down to the bit n. *)
Bits(f, v, n) ==
    f = [k \in n .. 16 |->
            IF k = 16 \/ 4 ^ k > v THEN [op |-> v, res |-> 0] ELSE RootBit(f[k + 1], k)]

LEMMA BitsExist == \A v : \E f : Bits(f, v, 0)
<1> SUFFICES ASSUME NEW v PROVE \E f : Bits(f, v, 0)
  OBVIOUS
<1> DEFINE None == {n \in 0 .. 16 : ~ \E f : Bits(f, v, 16 - n)}
<1>1. None = {}
  <2> SUFFICES ASSUME None # {} PROVE FALSE
    OBVIOUS
  <2>1. PICK n \in None : \A m \in None : n <= m
    <3>1. None \in SUBSET Nat
      OBVIOUS
    <3> HIDE DEF None
    <3>2. QED
      BY <3>1, FirstOne
  <2>2. n # 0
    <3> SUFFICES ASSUME n = 0 PROVE FALSE
      OBVIOUS
    <3> DEFINE f == [k \in 16 .. 16 |-> [op |-> v, res |-> 0]]
    <3>1. f = [k \in 16 .. 16 |->
                  IF k = 16 \/ 4 ^ k > v THEN [op |-> v, res |-> 0] ELSE RootBit(f[k + 1], k)]
      OBVIOUS
    <3>2. Bits(f, v, 16)
      BY <3>1 DEF Bits
    <3> HIDE DEF f
    <3>3. 16 - 0 = 16
      OBVIOUS
    <3>4. QED
      BY <2>1, <3>2, <3>3
  <2>3. n \in 1 .. 16 /\ n - 1 \in 0 .. 16 /\ n - 1 \notin None
    BY <2>1, <2>2
  <2> DEFINE a == 16 - n
  <2>4. a \in 0 .. 15 /\ 16 - (n - 1) = a + 1
    BY <2>3
  <2>5. PICK f : Bits(f, v, a + 1)
    BY <2>3, <2>4
  <2> HIDE DEF a
  <2> DEFINE first == IF 4 ^ a > v THEN [op |-> v, res |-> 0] ELSE RootBit(f[a + 1], a)
             g == [k \in a .. 16 |-> IF k = a THEN first ELSE f[k]]
             h == [k \in a .. 16 |->
                      IF k = 16 \/ 4 ^ k > v THEN [op |-> v, res |-> 0] ELSE RootBit(g[k + 1], k)]
  <2>6. ASSUME NEW k \in a .. 16 PROVE g[k] = h[k]
    <3>1. CASE k = a
      <4>1. a # 16 /\ a + 1 \in a .. 16 /\ a + 1 # a
        BY <2>4
      <4>2. g[a + 1] = f[a + 1]
        BY <4>1
      <4>3. QED
        BY <2>4, <3>1, <4>1, <4>2
    <3>2. CASE k # a
      <4>1. k \in a + 1 .. 16 /\ (k # 16 => k + 1 \in a .. 16 /\ k + 1 # a)
        BY <2>4, <3>2
      <4>2. f[k] = IF k = 16 \/ 4 ^ k > v THEN [op |-> v, res |-> 0] ELSE RootBit(f[k + 1], k)
        BY <2>5, <4>1 DEF Bits
      <4>3. k # 16 => g[k + 1] = f[k + 1]
        BY <4>1
      <4>4. g[k] = f[k]
        BY <3>2
      <4>5. QED
        BY <4>2, <4>3, <4>4
    <3>3. QED
      BY <3>1, <3>2
  <2>7. g = h
    BY <2>6
  <2>8. Bits(g, v, a)
    BY <2>7 DEF Bits
  <2>9. QED
    BY <2>1, <2>8 DEF a
<1>2. 16 \in 0 .. 16 /\ 16 - 16 = 0
  OBVIOUS
<1>3. QED
  BY <1>1, <1>2

LEMMA BitDone ==
    ASSUME NEW v \in Nat, NEW f, Bits(f, v, 0), NEW k \in 0 .. 15,
           NEW p \in Nat, p > 0, 4 ^ k = p * p, RootSoFar(f[k + 1], v, 2 * p)
    PROVE  RootSoFar(f[k], v, p)
<1>1. f[k] = IF 4 ^ k > v THEN [op |-> v, res |-> 0] ELSE RootBit(f[k + 1], k)
  <2>1. k \in 0 .. 16 /\ k # 16
    OBVIOUS
  <2>2. QED
    BY <2>1 DEF Bits
<1>2. CASE 4 ^ k > v
  <2>1. [op |-> v, res |-> 0] = [op |-> v - 0 * 0, res |-> p * 0]
        /\ 0 * 0 <= v /\ v < (0 + p) * (0 + p)
    BY <1>2
  <2>2. QED
    BY <1>1, <1>2, <2>1 DEF RootSoFar
<1>3. CASE ~ (4 ^ k > v)
  <2>1. k \in Nat
    OBVIOUS
  <2>2. QED
    BY <1>1, <1>3, <2>1, NextBit
<1>4. QED
  BY <1>2, <1>3

(* All sixteen bits, each half of the one before. *)
LEMMA SqrtIsFloor ==
    ASSUME NEW v \in Nat, v \div 4 < 4 ^ 15
    PROVE  /\ sqrt_rnd(v) \in Nat /\ sqrt_rnd(v) * sqrt_rnd(v) <= v
           /\ v < (sqrt_rnd(v) + 1) * (sqrt_rnd(v) + 1)
<1> DEFINE f == CHOOSE f : f = [k \in 0 .. 16 |->
                     IF k = 16 \/ 4 ^ k > v THEN [op |-> v, res |-> 0] ELSE RootBit(f[k + 1], k)]
<1>1. sqrt_rnd(v) = f[0].res
  BY DEF sqrt_rnd
<1>2. Bits(f, v, 0)
  BY BitsExist DEF Bits
<1> HIDE DEF f
<1>16. RootSoFar(f[16], v, 65536)
  <2>1. f[16] = [op |-> v, res |-> 0]
    BY <1>2 DEF Bits
  <2>2. v < 65536 * 65536
    OBVIOUS
  <2>3. [op |-> v, res |-> 0] = [op |-> v - 0 * 0, res |-> 65536 * 0]
        /\ 0 * 0 <= v /\ v < (0 + 65536) * (0 + 65536)
    BY <2>2
  <2>4. QED
    BY <2>1, <2>3 DEF RootSoFar
<1>p. /\ 4 ^ 15 = 32768 * 32768
      /\ 4 ^ 14 = 16384 * 16384
      /\ 4 ^ 13 = 8192 * 8192
      /\ 4 ^ 12 = 4096 * 4096
      /\ 4 ^ 11 = 2048 * 2048
      /\ 4 ^ 10 = 1024 * 1024
      /\ 4 ^ 9 = 512 * 512
      /\ 4 ^ 8 = 256 * 256
      /\ 4 ^ 7 = 128 * 128
      /\ 4 ^ 6 = 64 * 64
      /\ 4 ^ 5 = 32 * 32
      /\ 4 ^ 4 = 16 * 16
      /\ 4 ^ 3 = 8 * 8
      /\ 4 ^ 2 = 4 * 4
      /\ 4 ^ 1 = 2 * 2
      /\ 4 ^ 0 = 1 * 1
  OBVIOUS
<1>b15. RootSoFar(f[15], v, 32768)
  BY <1>2, <1>16, <1>p, BitDone
<1>b14. RootSoFar(f[14], v, 16384)
  BY <1>2, <1>b15, <1>p, BitDone
<1>b13. RootSoFar(f[13], v, 8192)
  BY <1>2, <1>b14, <1>p, BitDone
<1>b12. RootSoFar(f[12], v, 4096)
  BY <1>2, <1>b13, <1>p, BitDone
<1>b11. RootSoFar(f[11], v, 2048)
  BY <1>2, <1>b12, <1>p, BitDone
<1>b10. RootSoFar(f[10], v, 1024)
  BY <1>2, <1>b11, <1>p, BitDone
<1>b9. RootSoFar(f[9], v, 512)
  BY <1>2, <1>b10, <1>p, BitDone
<1>b8. RootSoFar(f[8], v, 256)
  BY <1>2, <1>b9, <1>p, BitDone
<1>b7. RootSoFar(f[7], v, 128)
  BY <1>2, <1>b8, <1>p, BitDone
<1>b6. RootSoFar(f[6], v, 64)
  BY <1>2, <1>b7, <1>p, BitDone
<1>b5. RootSoFar(f[5], v, 32)
  BY <1>2, <1>b6, <1>p, BitDone
<1>b4. RootSoFar(f[4], v, 16)
  BY <1>2, <1>b5, <1>p, BitDone
<1>b3. RootSoFar(f[3], v, 8)
  BY <1>2, <1>b4, <1>p, BitDone
<1>b2. RootSoFar(f[2], v, 4)
  BY <1>2, <1>b3, <1>p, BitDone
<1>b1. RootSoFar(f[1], v, 2)
  BY <1>2, <1>b2, <1>p, BitDone
<1>b0. RootSoFar(f[0], v, 1)
  BY <1>2, <1>b1, <1>p, BitDone
<1>3. PICK r \in Nat : /\ f[0] = [op |-> v - r * r, res |-> 1 * r]
                       /\ r * r <= v /\ v < (r + 1) * (r + 1)
  BY <1>b0 DEF RootSoFar
<1>4. sqrt_rnd(v) = r
  BY <1>1, <1>3
<1>5. QED
  BY <1>3, <1>4

(* sqrt_rnd rounds down, for every number of 32 bits: "one > res" at its   *)
(* end is never true, and no bit is set too early or too late.             *)
THEOREM SqrtRoundsDown == TextSpec => []RootIsFloor
<1>1. TextInit => RootIsFloor
  BY DEF TextInit, RootIsFloor
<1>2. RootIsFloor /\ [TextNext]_textVars => RootIsFloor'
  <2> SUFFICES ASSUME RootIsFloor, [TextNext]_textVars, fn' = "sqrt_rnd" PROVE RootIsFloor'
    BY DEF RootIsFloor
  <2>1. CASE UNCHANGED textVars
    BY <2>1 DEF textVars, RootIsFloor
  <2>2. ASSUME NEW v \in Squares, Sqrt(v) PROVE RootIsFloor'
    BY <2>2, SqrtIsFloor, SquaresAssumption DEF Sqrt, RootIsFloor
  <2>3. QED
    BY <2>1, <2>2 DEF TextNext, Format, Compare, Copy, Formatters, Sizes, Comparisons
<1>3. QED
  BY <1>1, <1>2, PTL DEF TextSpec
-----------------------------------------------------------------------------
(***************************************************************************)
(* strcmp, strcmpn, strcpy and strlen.                                     *)
(***************************************************************************)
String == Seq(1 .. 255)

LEMMA Chars ==
    ASSUME NEW s \in String
    PROVE  /\ Len(s) \in Nat /\ s = [i \in 1 .. Len(s) |-> s[i]]
           /\ CharAt(s, Len(s)) = NUL
           /\ \A i \in 0 .. Len(s) - 1 : CharAt(s, i) = s[i + 1] /\ CharAt(s, i) # NUL
<1>1. Len(s) \in Nat /\ s = [i \in 1 .. Len(s) |-> s[i]] /\ \A i \in 1 .. Len(s) : s[i] \in 1 .. 255
  BY LenProperties, ElementOfSeq DEF String
<1>2. ASSUME NEW i \in 0 .. Len(s) - 1
      PROVE  CharAt(s, i) = s[i + 1] /\ CharAt(s, i) # NUL
  <2>1. i # Len(s) /\ i + 1 \in 1 .. Len(s)
    BY <1>1
  <2>2. CharAt(s, i) = s[i + 1] /\ s[i + 1] \in 1 .. 255
    BY <1>1, <2>1 DEF CharAt
  <2>3. \A c \in 1 .. 255 : c # 0
    OBVIOUS
  <2>4. QED
    BY <2>2, <2>3 DEF NUL
<1>3. QED
  BY <1>1, <1>2 DEF CharAt

Stop(a, b, n, i) == \/ CharAt(a, i) = NUL \/ CharAt(b, i) = NUL
                    \/ CharAt(a, i) # CharAt(b, i) \/ i + 1 >= n

(* The loop ends at the latest at the NUL of a. *)
LEMMA FirstStop ==
    ASSUME NEW a \in String, NEW b, NEW n
    PROVE  /\ StopsAt(a, b, n) \in 0 .. Len(a) /\ Stop(a, b, n, StopsAt(a, b, n))
           /\ \A j \in 0 .. StopsAt(a, b, n) - 1 : ~ Stop(a, b, n, j)
<1> DEFINE T == {i \in 0 .. Len(a) : Stop(a, b, n, i)}
<1>1. Len(a) \in Nat /\ Len(a) \in T
  BY Chars DEF Stop
<1>2. T \in SUBSET Nat /\ T # {}
  BY <1>1
<1>3. PICK i \in T : \A j \in T : i <= j
  <2> HIDE DEF T
  <2>1. QED
    BY <1>2, FirstOne
<1>4. i \in 0 .. Len(a) /\ Stop(a, b, n, i) /\ \A j \in 0 .. i - 1 : ~ Stop(a, b, n, j)
  <2>1. ASSUME NEW j \in 0 .. i - 1 PROVE j \in 0 .. Len(a) /\ ~ (i <= j)
    BY <1>1, <1>3
  <2>2. QED
    BY <1>3, <2>1
<1>5. StopsAt(a, b, n) = CHOOSE k \in 0 .. Len(a) : Stop(a, b, n, k)
                                                 /\ \A j \in 0 .. k - 1 : ~ Stop(a, b, n, j)
  BY DEF StopsAt, Stop
<1>6. QED
  BY <1>4, <1>5

LEMMA CutFacts ==
    ASSUME NEW s \in String, NEW n \in Nat
    PROVE  /\ Len(Cut(s, n)) = IF n < Len(s) THEN n ELSE Len(s)
           /\ Cut(s, n) = [i \in 1 .. (IF n < Len(s) THEN n ELSE Len(s)) |-> s[i]]
<1> DEFINE c == IF n < Len(s) THEN n ELSE Len(s)
<1>1. c \in 0 .. Len(s) /\ Len(s) \in Nat
  BY Chars
<1> HIDE DEF c
<1>2. SubSeq(s, 1, c) = [i \in 1 .. c |-> s[i]] /\ Len(SubSeq(s, 1, c)) = c
  BY <1>1 DEF String
<1>3. QED
  BY <1>2 DEF c, Cut

(* The loops compare as far as the strings go, or n chars. *)
LEMMA ComparesCuts ==
    ASSUME NEW a \in String, NEW b \in String, NEW n \in Nat \ {0}
    PROVE  strcmpn(a, b, n) <=> Cut(a, n) = Cut(b, n)
<1> DEFINE i == StopsAt(a, b, n)
           ca == IF n < Len(a) THEN n ELSE Len(a)
           cb == IF n < Len(b) THEN n ELSE Len(b)
<1>1. /\ i \in 0 .. Len(a) /\ Stop(a, b, n, i)
      /\ \A j \in 0 .. i - 1 : ~ Stop(a, b, n, j)
  BY FirstStop
<1>2. strcmpn(a, b, n) <=> CharAt(a, i) = CharAt(b, i)
  BY DEF strcmpn
<1> HIDE DEF i
<1>3. Len(a) \in Nat /\ Len(b) \in Nat /\ i \in Nat /\ n \in Nat /\ n >= 1
  BY <1>1, Chars
<1>4. i <= Len(b) /\ i < n
  <2>1. CASE i = 0
    BY <1>3, <2>1
  <2>2. CASE i # 0
    <3>1. i - 1 \in 0 .. i - 1
      BY <1>3, <2>2
    <3>2. ~ (i - 1 + 1 >= n)
      BY <1>1, <3>1 DEF Stop
    <3>3. ~ (Len(b) \in 0 .. i - 1)
      BY <1>1, Chars DEF Stop
    <3>4. QED
      BY <1>3, <3>2, <3>3
  <2>3. QED
    BY <2>1, <2>2
<1>5. \A k \in 1 .. i : a[k] = b[k]
  <2> SUFFICES ASSUME NEW k \in 1 .. i PROVE a[k] = b[k]
    OBVIOUS
  <2>1. k - 1 \in 0 .. i - 1 /\ k - 1 \in 0 .. Len(a) - 1 /\ k - 1 \in 0 .. Len(b) - 1
        /\ (k - 1) + 1 = k
    BY <1>1, <1>3, <1>4
  <2>2. CharAt(a, k - 1) = CharAt(b, k - 1)
    BY <1>1, <2>1 DEF Stop
  <2>3. QED
    BY <2>1, <2>2, Chars
<1>6. /\ Len(Cut(a, n)) = ca /\ Cut(a, n) = [k \in 1 .. ca |-> a[k]]
      /\ Len(Cut(b, n)) = cb /\ Cut(b, n) = [k \in 1 .. cb |-> b[k]]
  BY <1>3, CutFacts
<1>7. ca \in Nat /\ cb \in Nat /\ ca <= Len(a) /\ cb <= Len(b)
  BY <1>3
<1>8. CASE CharAt(a, i) = CharAt(b, i)
  <2>1. CASE i = Len(a)
    <3>1. i = Len(b)
      <4>1. CharAt(b, i) = NUL
        BY <1>8, <2>1, Chars
      <4>2. ~ (i \in 0 .. Len(b) - 1)
        BY <4>1, Chars
      <4>3. QED
        BY <1>3, <1>4, <4>2
    <3>2. ca = i /\ cb = i
      BY <1>3, <1>4, <2>1, <3>1
    <3>3. QED
      BY <1>2, <1>5, <1>6, <1>8, <3>2
  <2>2. CASE i # Len(a)
    <3>1. i \in 0 .. Len(a) - 1
      BY <1>1, <1>3, <2>2
    <3>2. CharAt(a, i) # NUL /\ CharAt(a, i) = a[i + 1]
      BY <3>1, Chars
    <3>3. i \in 0 .. Len(b) - 1 /\ CharAt(b, i) = b[i + 1]
      <4>1. i # Len(b)
        BY <1>8, <3>2, Chars
      <4>2. i \in 0 .. Len(b) - 1
        BY <1>3, <1>4, <4>1
      <4>3. QED
        BY <4>2, Chars
    <3>4. i + 1 = n
      BY <1>1, <1>3, <1>4, <1>8, <3>2 DEF Stop
    <3>5. ca = n /\ cb = n /\ \A k \in 1 .. n : a[k] = b[k]
      <4>1. ca = n /\ cb = n
        BY <1>3, <3>1, <3>3, <3>4
      <4>2. \A k \in 1 .. n : k \in 1 .. i \/ k = i + 1
        BY <1>3, <3>4
      <4>3. QED
        BY <1>5, <1>8, <3>2, <3>3, <4>1, <4>2
    <3>6. QED
      BY <1>2, <1>6, <1>8, <3>5
  <2>3. QED
    BY <2>1, <2>2
<1>9. CASE CharAt(a, i) # CharAt(b, i)
  <2>1. CASE i = Len(a) \/ i = Len(b)
    <3>1. Len(a) # Len(b)
      BY <1>9, <2>1, Chars
    <3>2. ca # cb
      BY <1>1, <1>3, <1>4, <2>1, <3>1
    <3>3. QED
      BY <1>2, <1>6, <1>9, <3>2
  <2>2. CASE i # Len(a) /\ i # Len(b)
    <3>1. i \in 0 .. Len(a) - 1 /\ i \in 0 .. Len(b) - 1
      BY <1>1, <1>3, <1>4, <2>2
    <3>2. a[i + 1] # b[i + 1]
      BY <1>9, <3>1, Chars
    <3>3. i + 1 \in 1 .. ca /\ i + 1 \in 1 .. cb
      BY <1>3, <1>4, <3>1
    <3>4. Cut(a, n)[i + 1] = a[i + 1] /\ Cut(b, n)[i + 1] = b[i + 1]
      <4> HIDE DEF ca, cb
      <4>1. QED
        BY <1>6, <3>3
    <3>5. QED
      BY <1>2, <1>9, <3>2, <3>4
  <2>3. QED
    BY <2>1, <2>2
<1>10. QED
  BY <1>8, <1>9

LEMMA ComparesWhole ==
    ASSUME NEW a \in String, NEW b \in String
    PROVE  strcmp(a, b) <=> a = b
<1> DEFINE n == Len(a) + Len(b) + 2
<1>1. Len(a) \in Nat /\ Len(b) \in Nat
  BY Chars
<1>2. n \in Nat \ {0} /\ n \in Nat /\ ~ (n < Len(a)) /\ ~ (n < Len(b))
  BY <1>1
<1> HIDE DEF n
<1>3. strcmpn(a, b, n) <=> Cut(a, n) = Cut(b, n)
  BY <1>2, ComparesCuts
<1>4. Cut(a, n) = a /\ Cut(b, n) = b
  <2>1. Cut(a, n) = [i \in 1 .. Len(a) |-> a[i]] /\ Cut(b, n) = [i \in 1 .. Len(b) |-> b[i]]
    BY <1>2, CutFacts
  <2>2. QED
    BY <2>1, Chars
<1>5. QED
  BY <1>3, <1>4 DEF strcmp, n

(* The first NUL of a buffer that s was copied into is that of s. *)
LEMMA CopyFacts ==
    ASSUME NEW s \in String, Len(s) <= MaxLength, NEW b, DOMAIN b = 0 .. MaxLength
    PROVE  LET c == strcpy(s, b) IN
           /\ DOMAIN c = 0 .. MaxLength /\ c[Len(s)] = NUL /\ Len(s) \in 0 .. MaxLength
           /\ \A i \in 0 .. Len(s) - 1 : c[i] = s[i + 1] /\ c[i] # NUL
           /\ strlen(c) = Len(s)
<1> DEFINE c == strcpy(s, b)
<1>0. Len(s) \in Nat
  BY Chars
<1>l. \A l \in Nat : l <= MaxLength => l \in 0 .. MaxLength
  BY StringsAssumption
<1>1. Len(s) \in 0 .. MaxLength /\ Len(s) \in Nat
  BY <1>0, <1>l
<1>2. DOMAIN c = 0 .. MaxLength /\ \A i \in 0 .. MaxLength : i <= Len(s) => c[i] = CharAt(s, i)
  BY DEF strcpy
<1> HIDE DEF c
<1>3. c[Len(s)] = NUL
  BY <1>1, <1>2, Chars
<1>4. \A i \in 0 .. Len(s) - 1 : c[i] = s[i + 1] /\ c[i] # NUL
  <2> SUFFICES ASSUME NEW i \in 0 .. Len(s) - 1 PROVE c[i] = s[i + 1] /\ c[i] # NUL
    OBVIOUS
  <2>1. i \in 0 .. MaxLength /\ i <= Len(s)
    BY <1>1, StringsAssumption
  <2>2. QED
    BY <1>2, <2>1, Chars
<1>5. strlen(c) = Len(s)
  <2>1. ASSUME NEW i \in DOMAIN c, c[i] = NUL, \A j \in 0 .. i - 1 : c[j] # NUL
        PROVE  i = Len(s)
    <3>1. i \in 0 .. MaxLength /\ MaxLength \in Nat
      BY <1>2, StringsAssumption
    <3>2. ~ (i \in 0 .. Len(s) - 1) /\ ~ (Len(s) \in 0 .. i - 1)
      BY <1>3, <1>4, <2>1
    <3>3. QED
      BY <1>1, <3>1, <3>2
  <2>2. Len(s) \in DOMAIN c /\ \A j \in 0 .. Len(s) - 1 : c[j] # NUL
    BY <1>1, <1>2, <1>4
  <2>3. QED
    BY <1>3, <2>1, <2>2 DEF strlen
<1>6. QED
  BY <1>1, <1>2, <1>3, <1>4, <1>5 DEF c

TextInv == ComparesAndCopies /\ (fn = "strcpy" => DOMAIN buf = 0 .. MaxLength)

LEMMA CopyStep ==
    ASSUME TextInv, NEW s \in Strings, Copy(s)
    PROVE  TextInv'
<1>1. s \in String /\ Len(s) <= MaxLength
  BY StringsAssumption DEF String
<1>2. /\ fn = "strcpy" /\ fn' = "strcpy" /\ DOMAIN buf = 0 .. MaxLength
      /\ arg' = s /\ buf' = strcpy(s, buf) /\ result' = strlen(buf')
  BY DEF Copy, TextInv
<1>3. /\ DOMAIN buf' = 0 .. MaxLength /\ buf'[Len(s)] = NUL /\ Len(s) \in 0 .. MaxLength
      /\ \A i \in 0 .. Len(s) - 1 : buf'[i] = s[i + 1] /\ buf'[i] # NUL
      /\ result' = Len(s)
  BY <1>1, <1>2, CopyFacts
<1>4. TextAt(0)' = s
  <2> DEFINE Ends(i) == i \notin DOMAIN buf' \/ buf'[i] = NUL
             Places == {0} \cup {k + 1 : k \in DOMAIN buf'}
             end == CHOOSE i \in Places : i >= 0 /\ Ends(i) /\ \A j \in 0 .. i - 1 : ~ Ends(j)
  <2>1. TextAt(0)' = [i \in 1 .. end - 0 |-> buf'[0 + i - 1]]
    BY DEF TextAt
  <2>p. /\ \A i \in Places : i \in Nat
        /\ \A i \in 0 .. MaxLength + 1 : i \in Places
    <3>1. \A i \in 0 .. MaxLength + 1 : i = 0 \/ (i - 1 \in 0 .. MaxLength /\ i = (i - 1) + 1)
      BY StringsAssumption
    <3>2. Places = {0} \cup {k + 1 : k \in 0 .. MaxLength}
      BY <1>3
    <3> HIDE DEF Places
    <3>3. \A i \in Places : i \in Nat
      BY <3>2, StringsAssumption
    <3>4. \A i \in 0 .. MaxLength + 1 : i \in Places
      BY <3>1, <3>2
    <3>5. QED
      BY <3>3, <3>4
  <2>l. Len(s) \in Nat /\ Len(s) \in Places
    <3>1. \A l \in 0 .. MaxLength : l \in Nat /\ l \in 0 .. MaxLength + 1
      BY StringsAssumption
    <3>2. QED
      BY <1>3, <2>p, <3>1
  <2>2. Ends(Len(s)) /\ \A j \in 0 .. Len(s) - 1 : ~ Ends(j)
    <3>1. \A l \in 0 .. MaxLength : \A j \in 0 .. l - 1 : j \in 0 .. MaxLength
      BY StringsAssumption
    <3>2. QED
      BY <1>3, <3>1
  <2>3. ASSUME NEW i \in Places, Ends(i), \A j \in 0 .. i - 1 : ~ Ends(j)
        PROVE  i = Len(s)
    <3>0. i \in Nat
      BY <2>p
    <3>1. ~ (i \in 0 .. Len(s) - 1) /\ ~ (Len(s) \in 0 .. i - 1)
      BY <2>2, <2>3
    <3>2. \A l \in Nat : ~ (i \in 0 .. l - 1) /\ ~ (l \in 0 .. i - 1) => i = l
      BY <3>0
    <3>3. QED
      BY <2>l, <3>1, <3>2
  <2>4. end = Len(s)
    <3> HIDE DEF Places, Ends
    <3>1. Len(s) >= 0
      BY <2>l
    <3>2. QED
      BY <2>l, <2>2, <2>3, <3>1
  <2> HIDE DEF end
  <2>5. ASSUME NEW i \in 1 .. Len(s) PROVE buf'[0 + i - 1] = s[i]
    <3>1. \A l \in Nat : \A j \in 1 .. l : j - 1 \in 0 .. l - 1 /\ (j - 1) + 1 = j
                                           /\ 0 + j - 1 = j - 1
      OBVIOUS
    <3>2. QED
      BY <1>3, <2>l, <3>1
  <2>6. end - 0 = Len(s)
    BY <2>4, <2>l
  <2>7. TextAt(0)' = [i \in 1 .. Len(s) |-> s[i]]
    BY <2>1, <2>5, <2>6
  <2>8. QED
    BY <1>1, <2>7, Chars
<1>5. fn' # "strcmp" /\ fn' # "strcmpn"
  BY <1>2
<1>6. QED
  BY <1>2, <1>3, <1>4, <1>5 DEF TextInv, ComparesAndCopies

LEMMA CompareStep ==
    ASSUME TextInv, NEW a \in Strings, NEW b \in Strings,
           NEW n \in 1 .. MaxLength + 1, Compare(a, b, n)
    PROVE  TextInv'
<1>1. a \in String /\ b \in String /\ n \in Nat \ {0}
  BY StringsAssumption DEF String
<1>2. /\ fn' = fn /\ fn' # "strcpy" /\ arg' = <<a, b, n>>
      /\ result' = IF fn = "strcmp" THEN strcmp(a, b) ELSE strcmpn(a, b, n)
  BY DEF Compare, Comparisons
<1>3. arg'[1] = a /\ arg'[2] = b /\ arg'[3] = n
  BY <1>2
<1>4. fn' = "strcmp" => (result' <=> arg'[1] = arg'[2])
  BY <1>1, <1>2, <1>3, ComparesWhole
<1>5. fn' = "strcmpn" => (result' <=> Cut(arg'[1], arg'[3]) = Cut(arg'[2], arg'[3]))
  BY <1>1, <1>2, <1>3, ComparesCuts
<1>6. QED
  BY <1>2, <1>4, <1>5 DEF TextInv, ComparesAndCopies

(* strcmp and strcmpn are right about any two strings, one a prefix of the *)
(* other or not; after a strcpy, strlen and the buffer agree with the      *)
(* source, whatever longer text the buffer held before.                    *)
THEOREM StringsAreCompared == TextSpec => []ComparesAndCopies
<1>1. TextInit => TextInv
  BY DEF TextInit, TextInv, ComparesAndCopies, Formatters, Sizes
<1>2. TextInv /\ [TextNext]_textVars => TextInv'
  <2> SUFFICES ASSUME TextInv, [TextNext]_textVars PROVE TextInv'
    OBVIOUS
  <2>1. CASE UNCHANGED textVars
    BY <2>1 DEF textVars, TextInv, ComparesAndCopies, TextAt
  <2>2. ASSUME NEW v \in Words, Format(v) PROVE TextInv'
    BY <2>2 DEF Format, TextInv, ComparesAndCopies, Formatters, Sizes
  <2>3. ASSUME NEW v \in Squares, Sqrt(v) PROVE TextInv'
    BY <2>3 DEF Sqrt, TextInv, ComparesAndCopies
  <2>4. QED
    BY <2>1, <2>2, <2>3, CopyStep, CompareStep DEF TextNext
<1>3. TextInv => ComparesAndCopies
  BY DEF TextInv
<1>4. QED
  BY <1>1, <1>2, <1>3, PTL DEF TextSpec
-----------------------------------------------------------------------------
(***************************************************************************)
(* Numbers and their digits.  First, a loop of n turns, given by what a    *)
(* turn does, is a function of the number of turns.                        *)
(***************************************************************************)
Turns(f, F, s, n) == f = [k \in 0 .. n |-> IF k = 0 THEN s ELSE F[<<k, f[k - 1]>>]]

LEMMA LoopFunction ==
    ASSUME NEW State, NEW F \in [Nat \X State -> State], NEW s \in State, NEW n \in Nat
    PROVE  \E f \in [0 .. n -> State] : Turns(f, F, s, n)
<1> DEFINE None == {m \in Nat : ~ \E f \in [0 .. m -> State] : Turns(f, F, s, m)}
<1>1. None = {}
  <2> SUFFICES ASSUME None # {} PROVE FALSE
    OBVIOUS
  <2>1. PICK m \in None : \A l \in None : m <= l
    <3>1. None \in SUBSET Nat
      OBVIOUS
    <3> HIDE DEF None
    <3>2. QED
      BY <3>1, FirstOne
  <2>2. m # 0
    <3> SUFFICES ASSUME m = 0 PROVE FALSE
      OBVIOUS
    <3> DEFINE f == [k \in 0 .. 0 |-> s]
    <3>1. f \in [0 .. 0 -> State] /\ f = [k \in 0 .. 0 |-> IF k = 0 THEN s ELSE F[<<k, f[k - 1]>>]]
      OBVIOUS
    <3>2. Turns(f, F, s, 0)
      BY <3>1 DEF Turns
    <3> HIDE DEF f
    <3>3. QED
      BY <2>1, <3>1, <3>2
  <2>3. m \in Nat \ {0} /\ m - 1 \in Nat /\ m - 1 \notin None
    BY <2>1, <2>2
  <2>4. PICK f \in [0 .. m - 1 -> State] : Turns(f, F, s, m - 1)
    BY <2>3
  <2> DEFINE g == [k \in 0 .. m |-> IF k = m THEN F[<<m, f[m - 1]>>] ELSE f[k]]
             h == [k \in 0 .. m |-> IF k = 0 THEN s ELSE F[<<k, g[k - 1]>>]]
  <2>5. ASSUME NEW k \in 0 .. m PROVE g[k] = h[k] /\ g[k] \in State
    <3>1. CASE k = m
      <4>1. k # 0 /\ m - 1 \in 0 .. m - 1 /\ m - 1 \in 0 .. m /\ m - 1 # m
        BY <2>3, <3>1
      <4>2. g[m - 1] = f[m - 1] /\ f[m - 1] \in State
        BY <4>1
      <4>3. g[k] = F[<<m, f[m - 1]>>] /\ h[k] = F[<<k, g[k - 1]>>]
        BY <3>1, <4>1
      <4> HIDE DEF g, h
      <4>4. <<m, f[m - 1]>> \in Nat \X State
        BY <2>3, <4>2
      <4>5. QED
        BY <3>1, <4>2, <4>3, <4>4
    <3>2. CASE k # m
      <4>1. k \in 0 .. m - 1 /\ (k # 0 => k - 1 \in 0 .. m /\ k - 1 # m)
        BY <2>3, <3>2
      <4>2. f[k] = IF k = 0 THEN s ELSE F[<<k, f[k - 1]>>]
        BY <2>4, <4>1 DEF Turns
      <4>3. k # 0 => g[k - 1] = f[k - 1]
        BY <4>1
      <4>4. g[k] = f[k] /\ h[k] = IF k = 0 THEN s ELSE F[<<k, g[k - 1]>>]
        BY <3>2
      <4> HIDE DEF g, h
      <4>5. QED
        BY <4>1, <4>2, <4>3, <4>4
    <3>3. QED
      BY <3>1, <3>2
  <2>6. g \in [0 .. m -> State] /\ g = h
    BY <2>5
  <2>7. Turns(g, F, s, m)
    BY <2>6 DEF Turns
  <2> HIDE DEF g
  <2>8. QED
    BY <2>1, <2>6, <2>7
<1>2. QED
  BY <1>1

(* An unsigned long of 32 bits, and the number that it is. *)
Long == [hi : 0 .. Half - 1, lo : 0 .. Half - 1]
Val(v) == v.hi * Half + v.lo
Limit == 65536 * 65536

LEMMA HalfIs == Half = 65536
BY DEF Half

LEMMA HalfRange == Half \in Nat /\ \A h : h \in 0 .. Half - 1 <=> h \in Nat /\ h < Half
<1>1. Half \in Nat
  BY DEF Half
<1>2. \A n \in Nat : \A h : h \in 0 .. n - 1 <=> h \in Nat /\ h < n
  BY SMT
<1>3. QED
  BY ONLY <1>1, <1>2

LEMMA LongFacts ==
    \A v \in Long : /\ v.hi \in Nat /\ v.hi < 65536 /\ v.lo \in Nat /\ v.lo < 65536
                    /\ Val(v) = v.hi * 65536 + v.lo /\ Val(v) \in Nat
<1> SUFFICES ASSUME NEW v \in Long
             PROVE  /\ v.hi \in Nat /\ v.hi < 65536 /\ v.lo \in Nat /\ v.lo < 65536
                    /\ Val(v) = v.hi * 65536 + v.lo /\ Val(v) \in Nat
  BY SMT
<1>0. v.hi \in 0 .. Half - 1 /\ v.lo \in 0 .. Half - 1
  BY SMT DEF Long
<1>1. Val(v) = v.hi * Half + v.lo
  BY DEF Val
<1>2. v.hi \in Nat /\ v.hi < Half /\ v.lo \in Nat /\ v.lo < Half
  BY ONLY <1>0, HalfRange
<1>3. \A n, h, l \in Nat : h * n + l \in Nat
  BY SMT
<1>4. Half \in Nat
  BY HalfRange
<1>5. Val(v) \in Nat
  BY ONLY <1>1, <1>2, <1>3, <1>4
<1>6. Val(v) = v.hi * 65536 + v.lo /\ v.hi < 65536 /\ v.lo < 65536
  BY ONLY <1>1, <1>2, HalfIs
<1>7. QED
  BY <1>2, <1>5, <1>6

LEMMA SameLong == \A u, v \in Long : Val(u) = Val(v) => u = v
<1> SUFFICES ASSUME NEW u \in Long, NEW v \in Long, Val(u) = Val(v) PROVE u = v
  BY SMT
<1>1. u.hi = v.hi /\ u.lo = v.lo
  BY SMT, LongFacts
<1>2. QED
  BY SMT, <1>1 DEF Long

LEMMA MakeLong ==
    ASSUME NEW h \in Nat, NEW l \in Nat, h < 65536, l < 65536
    PROVE  [hi |-> h, lo |-> l] \in Long /\ Val([hi |-> h, lo |-> l]) = h * 65536 + l
<1>1. h \in 0 .. Half - 1 /\ l \in 0 .. Half - 1
  <2>1. h < Half /\ l < Half
    BY ONLY HalfIs, h < 65536, l < 65536
  <2>2. QED
    BY ONLY <2>1, HalfRange, h \in Nat, l \in Nat
<1>2. [hi |-> h, lo |-> l] \in Long
  BY <1>1 DEF Long
<1>3. Val([hi |-> h, lo |-> l]) = h * Half + l
  BY DEF Val
<1>4. QED
  BY <1>2, <1>3, HalfIs

LEMMA ZeroLong == Zero \in Long /\ \A v \in Long : v = Zero <=> Val(v) = 0
<1>1. Zero \in Long /\ Val(Zero) = 0
  BY SMT, MakeLong DEF Zero
<1>2. QED
  BY SMT, <1>1, SameLong

LEMMA DividedBy10 ==
    ASSUME NEW v \in Long
    PROVE  LET d == DivideBy10(v) IN
           /\ d.quotient \in Long /\ d.digit \in 0 .. 9
           /\ Val(d.quotient) = Val(v) \div 10 /\ d.digit = Val(v) % 10
<1> DEFINE h == v.hi  l == (h % 10) * 65536 + v.lo
           hq == h \div 10  hr == h % 10  lq == l \div 10  lr == l % 10
<1>1. h \in Nat /\ h < 65536 /\ v.lo \in Nat /\ v.lo < 65536 /\ Val(v) = h * 65536 + v.lo
  BY SMT, LongFacts
<1>2. DivideBy10(v) = [quotient |-> [hi |-> hq, lo |-> lq], digit |-> lr]
  BY SMT DEF DivideBy10, Half
<1>3. h = 10 * hq + hr /\ hr \in 0 .. 9 /\ hq \in Nat /\ hq < 65536
  <2> HIDE DEF h
  <2>1. QED
    BY SMT, <1>1
<1>4. l \in Nat /\ l < 655360 /\ Val(v) = 655360 * hq + l
  <2>1. l = hr * 65536 + v.lo
    OBVIOUS
  <2> HIDE DEF l, h, hq, hr
  <2>2. QED
    BY SMT, <1>1, <1>3, <2>1
<1> HIDE DEF l, h, hq, hr
<1>5. l = 10 * lq + lr /\ lr \in 0 .. 9 /\ lq \in Nat /\ lq < 65536
  BY SMT, <1>4
<1> HIDE DEF lq, lr
<1> DEFINE w == hq * 65536 + lq
<1>6. Val(v) = 10 * w + lr /\ w \in Nat
  BY SMT, <1>3, <1>4, <1>5
<1>7. Val(v) \div 10 = w /\ Val(v) % 10 = lr
  <2> HIDE DEF w
  <2>1. \A x \in Nat, r \in 0 .. 9 : (10 * x + r) \div 10 = x /\ (10 * x + r) % 10 = r
    BY SMT
  <2>2. QED
    BY <1>5, <1>6, <2>1
<1>8. [hi |-> hq, lo |-> lq] \in Long /\ Val([hi |-> hq, lo |-> lq]) = w
  BY SMT, <1>3, <1>5, MakeLong
<1>9. QED
  BY SMT, <1>2, <1>5, <1>7, <1>8

LEMMA Multiplied ==
    ASSUME NEW v \in Long, NEW base \in {10, 16}, NEW d \in 0 .. base - 1,
           Val(v) * base + d < Limit
    PROVE  TimesPlus(v, base, d) \in Long /\ Val(TimesPlus(v, base, d)) = Val(v) * base + d
<1> DEFINE h == v.hi  l == v.lo * base + d  b == h * base  lq == l \div 65536  lr == l % 65536
           r == (b + lq) % 65536
<1>1. h \in Nat /\ h < 65536 /\ v.lo \in Nat /\ v.lo < 65536 /\ Val(v) = h * 65536 + v.lo
  BY SMT, LongFacts
<1>2. TimesPlus(v, base, d) = [hi |-> r, lo |-> lr]
  BY SMT DEF TimesPlus, Half
<1>3. l \in Nat /\ Val(v) * base + d = b * 65536 + l /\ b \in Nat
  <2> HIDE DEF h
  <2>1. CASE base = 10
    BY SMT, <1>1, <2>1
  <2>2. CASE base = 16
    BY SMT, <1>1, <2>2
  <2>3. QED
    BY SMT, <2>1, <2>2
<1> HIDE DEF l, b, h
<1>4. l = 65536 * lq + lr /\ lr \in Nat /\ lr < 65536 /\ lq \in Nat
  BY SMT, <1>3
<1> HIDE DEF lq, lr
<1>5. b + lq \in Nat /\ b + lq < 65536
  BY SMT, <1>3, <1>4 DEF Limit
<1>6. r = b + lq
  BY SMT, <1>5
<1> HIDE DEF r
<1>7. [hi |-> r, lo |-> lr] \in Long /\ Val([hi |-> r, lo |-> lr]) = r * 65536 + lr
  BY SMT, <1>4, <1>5, <1>6, MakeLong
<1>8. r * 65536 + lr = Val(v) * base + d
  BY SMT, <1>3, <1>4, <1>5, <1>6
<1>9. QED
  BY SMT, <1>2, <1>7, <1>8

(* What is left of x after 0, 1, .. k divisions by base; the remainders    *)
(* are its digits, the last one first.                                     *)
Quotients(d, x, base, k) ==
    /\ d \in [0 .. k -> Nat] /\ d[0] = x
    /\ \A m \in 0 .. k - 1 : d[m + 1] = d[m] \div base

LEMMA QuotientFacts ==
    ASSUME NEW base \in {10, 16}, NEW k \in Nat, NEW x, NEW d, Quotients(d, x, base, k)
    PROVE  \A m \in 0 .. k - 1 : /\ d[m] \in Nat /\ d[m + 1] \in Nat /\ d[m + 1] <= d[m]
                                 /\ d[m] % base \in 0 .. base - 1
                                 /\ d[m] = d[m + 1] * base + (d[m] % base)
<1> SUFFICES ASSUME NEW m \in 0 .. k - 1
             PROVE  /\ d[m] \in Nat /\ d[m + 1] \in Nat /\ d[m + 1] <= d[m]
                    /\ d[m] % base \in 0 .. base - 1
                    /\ d[m] = d[m + 1] * base + (d[m] % base)
  OBVIOUS
<1>1. m \in 0 .. k /\ m + 1 \in 0 .. k
  OBVIOUS
<1>2. d[m] \in Nat /\ d[m + 1] \in Nat /\ d[m + 1] = d[m] \div base
  BY <1>1 DEF Quotients
<1>3. \A y \in Nat : /\ y \div base <= y /\ y % base \in 0 .. base - 1
                     /\ y = (y \div base) * base + (y % base)
  OBVIOUS
<1>4. QED
  BY <1>2, <1>3

(* The word of a number. *)
WordOf(n) == [hi |-> n \div 65536, lo |-> n % 65536]

LEMMA WordOfIs == \A n \in Nat : n < Limit => WordOf(n) \in Long /\ Val(WordOf(n)) = n
<1> SUFFICES ASSUME NEW n \in Nat, n < Limit
             PROVE  WordOf(n) \in Long /\ Val(WordOf(n)) = n
  BY SMT
<1> DEFINE h == n \div 65536  l == n % 65536
<1>1. n = h * 65536 + l /\ l \in Nat /\ l < 65536 /\ h \in Nat /\ h < 65536
  BY SMT DEF Limit
<1> HIDE DEF h, l
<1>2. [hi |-> h, lo |-> l] \in Long /\ Val([hi |-> h, lo |-> l]) = h * 65536 + l
  BY SMT, <1>1, MakeLong
<1>3. WordOf(n) = [hi |-> h, lo |-> l]
  BY DEF WordOf, h, l
<1>4. QED
  BY SMT, <1>1, <1>2, <1>3

(* Number is what any function of the places in the text says that adds    *)
(* one digit at each place.                                                *)
LEMMA NumberIs ==
    ASSUME NEW s, NEW base, NEW k \in Nat, Len(s) = k,
           NEW w \in [0 .. k -> Long],
           w[0] = Zero, \A j \in 1 .. k : w[j] = TimesPlus(w[j - 1], base, Value(s[j]))
    PROVE  Number(s, base) = w[k]
<1> DEFINE Fills(N) == N = [j \in 0 .. k |-> IF j = 0 THEN Zero
                                             ELSE TimesPlus(N[j - 1], base, Value(s[j]))]
           N == CHOOSE N : Fills(N)
<1>1. Fills(w)
  <2>0. w = [j \in 0 .. k |-> w[j]]
    OBVIOUS
  <2>1. \A j \in 0 .. k : w[j] = IF j = 0 THEN Zero ELSE TimesPlus(w[j - 1], base, Value(s[j]))
    OBVIOUS
  <2>2. QED
    BY <2>0, <2>1
<1>2. Number(s, base) = N[k]
  BY DEF Number
<1>3. Fills(N)
  <2> HIDE DEF Fills
  <2>1. QED
    BY <1>1
<1> HIDE DEF N
<1>4. \A j \in 0 .. k : N[j] = IF j = 0 THEN Zero ELSE TimesPlus(N[j - 1], base, Value(s[j]))
  <2>1. \A j \in 0 .. k :
            [i \in 0 .. k |-> IF i = 0 THEN Zero ELSE TimesPlus(N[i - 1], base, Value(s[i]))][j]
            = IF j = 0 THEN Zero ELSE TimesPlus(N[j - 1], base, Value(s[j]))
    OBVIOUS
  <2>2. QED
    BY <1>3, <2>1
<1> HIDE DEF Fills
<1> DEFINE Off == {j \in 0 .. k : N[j] # w[j]}
<1>5. Off = {}
  <2> SUFFICES ASSUME Off # {} PROVE FALSE
    OBVIOUS
  <2>1. PICK j \in Off : \A i \in Off : j <= i
    <3>1. Off \in SUBSET Nat
      OBVIOUS
    <3> HIDE DEF Off
    <3>2. QED
      BY <3>1, FirstOne
  <2>2. j \in 0 .. k /\ j # 0
    BY <1>4
  <2>3. j - 1 \in 0 .. k /\ j - 1 \notin Off /\ j \in 1 .. k
    BY <2>1, <2>2
  <2>4. N[j - 1] = w[j - 1]
    BY <2>3
  <2>5. N[j] = w[j]
    BY <1>4, <2>2, <2>3, <2>4
  <2>6. QED
    BY <2>1, <2>5
<1>6. k \in 0 .. k
  OBVIOUS
<1>7. QED
  BY <1>2, <1>5, <1>6

(* So a text of the digits of x reads as x. *)
LEMMA DigitsRead ==
    ASSUME NEW base \in {10, 16}, NEW k \in Nat, NEW x \in Nat, x < Limit,
           NEW d, Quotients(d, x, base, k), d[k] = 0,
           NEW s, Len(s) = k, \A j \in 1 .. k : Value(s[j]) = d[k - j] % base
    PROVE  Number(s, base) \in Long /\ Val(Number(s, base)) = x
<1> DEFINE w == [j \in 0 .. k |-> WordOf(d[k - j])]
<1>1. \A m \in 0 .. k : d[m] \in Nat /\ d[m] <= x
  <2> DEFINE Off == {m \in 0 .. k : ~ (d[m] <= x)}
  <2>1. Off = {}
    <3> SUFFICES ASSUME Off # {} PROVE FALSE
      OBVIOUS
    <3>1. PICK m \in Off : \A i \in Off : m <= i
      <4>1. Off \in SUBSET Nat
        OBVIOUS
      <4> HIDE DEF Off
      <4>2. QED
        BY <4>1, FirstOne
    <3>2. m \in 0 .. k /\ ~ (d[m] <= x)
      OBVIOUS
    <3>3. m # 0
      BY <3>2 DEF Quotients
    <3>4. m - 1 \in 0 .. k - 1 /\ m - 1 \notin Off /\ m - 1 \in 0 .. k /\ (m - 1) + 1 = m
      BY <3>1, <3>2, <3>3
    <3>5. d[m - 1] <= x
      BY <3>4
    <3>6. d[m - 1] \in Nat /\ d[(m - 1) + 1] \in Nat /\ d[(m - 1) + 1] <= d[m - 1]
      BY <3>4, QuotientFacts
    <3>7. QED
      BY <3>2, <3>4, <3>5, <3>6
  <2>2. \A m \in 0 .. k : d[m] \in Nat
    BY DEF Quotients
  <2>3. \A m \in 0 .. k : d[m] <= x
    BY <2>1
  <2> HIDE DEF Off
  <2>4. QED
    BY ONLY <2>2, <2>3
<1>2. \A m \in 0 .. k : WordOf(d[m]) \in Long /\ Val(WordOf(d[m])) = d[m]
  <2> SUFFICES ASSUME NEW m \in 0 .. k PROVE WordOf(d[m]) \in Long /\ Val(WordOf(d[m])) = d[m]
    OBVIOUS
  <2>1. d[m] \in Nat /\ d[m] < Limit
    <3>1. \A y \in Nat : y <= x => y < Limit
      <4>1. Limit \in Nat
        BY DEF Limit
      <4>2. QED
        BY <4>1
    <3>2. QED
      BY ONLY <1>1, <3>1, m \in 0 .. k
  <2>2. QED
    BY <2>1, WordOfIs
<1>3. \A j \in 1 .. k : WordOf(d[k - j]) = TimesPlus(WordOf(d[k - (j - 1)]), base, Value(s[j]))
  <2> SUFFICES ASSUME NEW j \in 1 .. k
               PROVE  WordOf(d[k - j]) = TimesPlus(WordOf(d[k - (j - 1)]), base, Value(s[j]))
    OBVIOUS
  <2> DEFINE m == k - j
  <2>1. m \in 0 .. k - 1 /\ m + 1 = k - (j - 1) /\ m \in 0 .. k /\ m + 1 \in 0 .. k
    OBVIOUS
  <2> HIDE DEF m
  <2>2. d[m] = d[m + 1] * base + (d[m] % base) /\ d[m] % base \in 0 .. base - 1
    BY <2>1, QuotientFacts
  <2>3. d[m] < Limit
    <3>1. \A y \in Nat : y <= x => y < Limit
      <4>1. Limit \in Nat
        BY DEF Limit
      <4>2. QED
        BY <4>1
    <3>2. QED
      BY ONLY <1>1, <2>1, <3>1
  <2>4. /\ TimesPlus(WordOf(d[m + 1]), base, d[m] % base) \in Long
        /\ Val(TimesPlus(WordOf(d[m + 1]), base, d[m] % base)) = d[m]
    <3> DEFINE u == WordOf(d[m + 1])  c == d[m] % base
    <3>1. u \in Long /\ Val(u) * base + c = d[m] /\ c \in 0 .. base - 1
      BY <1>2, <2>1, <2>2
    <3> HIDE DEF u, c
    <3>2. Val(u) * base + c < Limit
      BY SMT, <2>3, <3>1
    <3>3. TimesPlus(u, base, c) \in Long /\ Val(TimesPlus(u, base, c)) = Val(u) * base + c
      BY ONLY <3>1, <3>2, base \in {10, 16}, Multiplied
    <3>4. QED
      BY <3>1, <3>3 DEF u, c
  <2>5. WordOf(d[m]) = TimesPlus(WordOf(d[m + 1]), base, d[m] % base)
    BY <1>2, <2>1, <2>4, SameLong
  <2>6. Value(s[j]) = d[m] % base
    BY DEF m
  <2>7. QED
    BY <2>1, <2>5, <2>6 DEF m
<1>4. w \in [0 .. k -> Long] /\ w[0] = Zero
  <2>1. k - 0 = k /\ k \in 0 .. k /\ 0 \in 0 .. k
    OBVIOUS
  <2>2. WordOf(d[k]) = Zero
    BY <1>2, <2>1, ZeroLong
  <2>3. \A j \in 0 .. k : WordOf(d[k - j]) \in Long
    <3>1. \A j \in 0 .. k : k - j \in 0 .. k
      OBVIOUS
    <3>2. QED
      BY <1>2, <3>1
  <2>4. QED
    BY <2>1, <2>2, <2>3
<1>5. \A j \in 1 .. k : w[j] = TimesPlus(w[j - 1], base, Value(s[j]))
  <2>1. \A j \in 1 .. k : j \in 0 .. k /\ j - 1 \in 0 .. k
    OBVIOUS
  <2>2. QED
    BY <1>3, <2>1
<1>6. w[k] = WordOf(x)
  <2>1. k - k = 0 /\ k \in 0 .. k
    OBVIOUS
  <2>2. QED
    BY <2>1 DEF Quotients
<1> HIDE DEF w
<1>7. Number(s, base) = w[k]
  BY ONLY <1>4, <1>5, k \in Nat, Len(s) = k, NumberIs
<1>8. QED
  BY <1>6, <1>7, WordOfIs

(* The states of the loop that writes decimal digits into a buffer. *)
LoopState(D) == [t : Long, b : [D -> Nat], p : Int, done : BOOLEAN]

LEMMA DigitTypes ==
    ASSUME NEW D, NEW S \in LoopState(D), NEW i, NEW dotted \in BOOLEAN, NEW negative \in BOOLEAN
    PROVE  Digit(S, i, dotted, negative) \in LoopState(D)
<1> DEFINE q == DivideBy10(S.t).quotient
           low == LowNibble(DivideBy10(S.t).digit, negative)
           b == Put(S.b, S.p, 48 + low)
           point == dotted /\ PointAfter(i)
           T == Digit(S, i, dotted, negative)
<1>1. S.t \in Long /\ S.b \in [D -> Nat] /\ S.p \in Int /\ S.done \in BOOLEAN
  BY DEF LoopState
<1>2. q \in Long /\ low \in Nat
  <2>1. q \in Long /\ DivideBy10(S.t).digit \in 0 .. 9
    BY <1>1, DividedBy10
  <2>2. \A g \in 0 .. 9 : LowNibble(g, negative) \in Nat
    BY DEF LowNibble
  <2>3. QED
    BY <2>1, <2>2
<1>3. \A c \in [D -> Nat], i0 \in Int, n \in Nat : Put(c, i0, n) \in [D -> Nat]
  BY DEF Put
<1>4. b \in [D -> Nat] /\ Put(b, S.p - 1, Dot) \in [D -> Nat]
  <2>1. Dot \in Nat /\ 48 + low \in Nat
    BY <1>2 DEF Dot
  <2> HIDE DEF low
  <2>2. QED
    BY <1>1, <1>3, <2>1
<1>5. T = IF S.done THEN S
          ELSE IF q = Zero THEN [S EXCEPT !.b = b, !.done = TRUE]
          ELSE [S EXCEPT !.t = q, !.b = IF point THEN Put(b, S.p - 1, Dot) ELSE b,
                         !.p = IF point THEN @ - 2 ELSE @ - 1]
  BY DEF Digit
<1> HIDE DEF q, b, T
<1>6. CASE S.done
  BY <1>5, <1>6 DEF T
<1>7. CASE ~ S.done /\ q = Zero
  <2>1. T = [S EXCEPT !.b = b, !.done = TRUE]
    BY <1>5, <1>7
  <2>2. QED
    BY <1>4, <2>1 DEF LoopState, T
<1>8. CASE ~ S.done /\ q # Zero
  <2> DEFINE c == IF point THEN Put(b, S.p - 1, Dot) ELSE b
             r == IF point THEN S.p - 2 ELSE S.p - 1
  <2>1. c \in [D -> Nat] /\ r \in Int
    BY <1>1, <1>4
  <2>2. T = [S EXCEPT !.t = q, !.b = c, !.p = r]
    BY <1>5, <1>8
  <2> HIDE DEF c, r
  <2>3. QED
    BY <1>2, <2>1, <2>2 DEF LoopState, T
<1>9. QED
  BY <1>6, <1>7, <1>8

LEMMA DigitsLoop ==
    ASSUME NEW D, NEW v \in Long, NEW b \in [D -> Nat], NEW end \in Int,
           NEW dotted \in BOOLEAN, NEW negative \in BOOLEAN
    PROVE  \E S \in [0 .. 11 -> LoopState(D)] :
              /\ S[0] = [t |-> v, b |-> b, p |-> end, done |-> FALSE]
              /\ \A i \in 0 .. 10 : S[i + 1] = Digit(S[i], i, dotted, negative)
              /\ Digits(v, b, end, dotted, negative) = [b |-> S[11].b, p |-> S[11].p]
<1> DEFINE s == [t |-> v, b |-> b, p |-> end, done |-> FALSE]
           State == LoopState(D)
           Fits(S) == S = [i \in 0 .. 11 |-> IF i = 0 THEN s
                                             ELSE Digit(S[i - 1], i - 1, dotted, negative)]
           S == CHOOSE S : Fits(S)
           F == [a \in Nat \X State |-> Digit(a[2], a[1] - 1, dotted, negative)]
<1>1. s \in State
  BY DEF LoopState
<1>2. F \in [Nat \X State -> State]
  <2>1. \A a \in Nat \X State : Digit(a[2], a[1] - 1, dotted, negative) \in State
    <3> SUFFICES ASSUME NEW a \in Nat \X State
                 PROVE  Digit(a[2], a[1] - 1, dotted, negative) \in State
      OBVIOUS
    <3>1. a[2] \in LoopState(D)
      OBVIOUS
    <3>2. QED
      BY <3>1, DigitTypes
  <2>2. QED
    BY <2>1
<1>3. \A n \in Nat, T \in State : F[<<n, T>>] = Digit(T, n - 1, dotted, negative)
  OBVIOUS
<1> HIDE DEF s, State, F
<1>4. PICK f \in [0 .. 11 -> State] : Turns(f, F, s, 11)
  BY <1>1, <1>2, LoopFunction
<1>5. Fits(f)
  <2>1. f = [k \in 0 .. 11 |-> IF k = 0 THEN s ELSE F[<<k, f[k - 1]>>]]
    BY <1>4 DEF Turns
  <2>2. \A k \in 0 .. 11 : k # 0 => F[<<k, f[k - 1]>>] = Digit(f[k - 1], k - 1, dotted, negative)
    <3> SUFFICES ASSUME NEW k \in 0 .. 11, k # 0
                 PROVE  F[<<k, f[k - 1]>>] = Digit(f[k - 1], k - 1, dotted, negative)
      OBVIOUS
    <3>1. k \in Nat /\ f[k - 1] \in State
      OBVIOUS
    <3>2. QED
      BY <1>3, <3>1
  <2>3. QED
    BY <2>1, <2>2
<1>6. Fits(S)
  <2> HIDE DEF Fits
  <2>1. QED
    BY <1>5
<1>7. Digits(v, b, end, dotted, negative) = [b |-> S[11].b, p |-> S[11].p]
  BY DEF Digits, s
<1> HIDE DEF S
<1>8. S[0] = s /\ \A i \in 0 .. 10 : S[i + 1] = Digit(S[i], i, dotted, negative)
  <2>1. \A i \in 0 .. 11 : S[i] = IF i = 0 THEN s ELSE Digit(S[i - 1], i - 1, dotted, negative)
    BY <1>6
  <2>2. \A i \in 0 .. 10 : i + 1 \in 0 .. 11 /\ i + 1 # 0 /\ (i + 1) - 1 = i
    OBVIOUS
  <2>3. QED
    BY <2>1, <2>2
<1>9. S \in [0 .. 11 -> State]
  <2> DEFINE Off == {i \in 0 .. 11 : S[i] \notin State}
  <2>1. Off = {}
    <3> SUFFICES ASSUME Off # {} PROVE FALSE
      OBVIOUS
    <3>1. PICK i \in Off : \A j \in Off : i <= j
      <4>1. Off \in SUBSET Nat
        OBVIOUS
      <4> HIDE DEF Off
      <4>2. QED
        BY <4>1, FirstOne
    <3>2. i \in 0 .. 11 /\ i # 0 /\ S[i] \notin State
      BY <1>1, <1>8
    <3>3. i - 1 \in 0 .. 10 /\ (i - 1) + 1 = i /\ S[i - 1] \in State
      BY <3>1, <3>2
    <3>4. QED
      BY <1>8, <3>2, <3>3, DigitTypes DEF State
  <2>2. S = [i \in 0 .. 11 |-> S[i]]
    BY <1>6
  <2>3. \A i \in 0 .. 11 : S[i] \in State
    BY <2>1
  <2> HIDE DEF Off
  <2>4. QED
    BY ONLY <2>2, <2>3
<1>10. QED
  BY <1>7, <1>8, <1>9 DEF s, State

LEMMA Induct ==
    ASSUME NEW n \in Nat, NEW T, 0 \in T, \A i \in 0 .. n - 1 : i \in T => i + 1 \in T
    PROVE  \A i \in 0 .. n : i \in T
<1> DEFINE Off == {i \in 0 .. n : i \notin T}
<1> SUFFICES ASSUME Off # {} PROVE FALSE
  OBVIOUS
<1>1. PICK i \in Off : \A j \in Off : i <= j
  <2>1. Off \in SUBSET Nat
    OBVIOUS
  <2> HIDE DEF Off
  <2>2. QED
    BY <2>1, FirstOne
<1>2. i \in 0 .. n /\ i # 0 /\ i \notin T
  OBVIOUS
<1>3. i - 1 \in 0 .. n /\ i - 1 \in 0 .. n - 1 /\ i - 1 \notin Off /\ (i - 1) + 1 = i
  BY <1>1, <1>2
<1>4. i - 1 \in T
  BY <1>3
<1>5. QED
  BY <1>2, <1>3, <1>4

(* x has n digits in its base: nothing is left after n divisions, and no   *)
(* sooner, but that 0 has a digit.                                         *)
Divided(d, x, base, n) ==
    /\ n \in Nat \ {0} /\ Quotients(d, x, base, n)
    /\ d[n] = 0 /\ \A m \in 1 .. n - 1 : d[m] # 0

LEMMA QuotientsExist ==
    ASSUME NEW base \in {10, 16}, NEW x \in Nat, NEW k \in Nat
    PROVE  \E d : Quotients(d, x, base, k)
<1> DEFINE F == [a \in Nat \X Nat |-> a[2] \div base]
<1>1. F \in [Nat \X Nat -> Nat] /\ \A a, y \in Nat : F[<<a, y>>] = y \div base
  <2>1. \A y \in Nat : y \div base \in Nat
    OBVIOUS
  <2>2. QED
    BY <2>1
<1> HIDE DEF F
<1>2. PICK d \in [0 .. k -> Nat] : Turns(d, F, x, k)
  BY <1>1, LoopFunction
<1>3. \A m \in 0 .. k : d[m] = IF m = 0 THEN x ELSE F[<<m, d[m - 1]>>]
  BY <1>2 DEF Turns
<1>4. d[0] = x
  <2>1. 0 \in 0 .. k
    OBVIOUS
  <2>2. QED
    BY <1>3, <2>1
<1>5. \A m \in 0 .. k - 1 : d[m + 1] = d[m] \div base
  <2> SUFFICES ASSUME NEW m \in 0 .. k - 1 PROVE d[m + 1] = d[m] \div base
    OBVIOUS
  <2>1. m + 1 \in 0 .. k /\ m + 1 # 0 /\ (m + 1) - 1 = m /\ m + 1 \in Nat /\ d[m] \in Nat
    OBVIOUS
  <2>2. d[m + 1] = F[<<m + 1, d[m]>>]
    BY <1>3, <2>1
  <2>3. QED
    BY <1>1, <2>1, <2>2
<1>6. QED
  BY <1>4, <1>5 DEF Quotients

LEMMA TenDigits ==
    ASSUME NEW x \in Nat, x < Limit
    PROVE  \E d, n : n \in 1 .. 10 /\ Divided(d, x, 10, n)
<1>1. PICK d : Quotients(d, x, 10, 10)
  <2>1. 10 \in {10, 16} /\ 10 \in Nat
    OBVIOUS
  <2>2. QED
    BY <2>1, QuotientsExist
<1>2. d[10] = 0
  <2>1. d[0] = x /\ \A m \in 0 .. 9 : d[m] \in Nat /\ d[m + 1] = d[m] \div 10
    <3>1. \A m \in 0 .. 9 : m \in 0 .. 10
      OBVIOUS
    <3>2. QED
      BY <1>1, <3>1 DEF Quotients
  <2>2. \A y, z, l \in Nat : y \div 10 = z /\ y < 10 * l => z < l
    OBVIOUS
  <2>3. x < 5000000000
    BY DEF Limit
  <2>4. d[1] < 500000000 /\ d[1] \in Nat
    BY <2>1, <2>3
  <2>5. d[2] < 50000000 /\ d[2] \in Nat
    BY <2>1, <2>4
  <2>6. d[3] < 5000000 /\ d[3] \in Nat
    BY <2>1, <2>5
  <2>7. d[4] < 500000 /\ d[4] \in Nat
    BY <2>1, <2>6
  <2>8. d[5] < 50000 /\ d[5] \in Nat
    BY <2>1, <2>7
  <2>9. d[6] < 5000 /\ d[6] \in Nat
    BY <2>1, <2>8
  <2>10. d[7] < 500 /\ d[7] \in Nat
    BY <2>1, <2>9
  <2>11. d[8] < 50 /\ d[8] \in Nat
    BY <2>1, <2>10
  <2>12. d[9] < 5 /\ d[9] \in Nat
    BY <2>1, <2>11
  <2>13. QED
    BY <2>1, <2>12
<1>3. PICK n \in {m \in 1 .. 10 : d[m] = 0} : \A m \in {i \in 1 .. 10 : d[i] = 0} : n <= m
  <2> DEFINE T == {m \in 1 .. 10 : d[m] = 0}
  <2>1. T \in SUBSET Nat /\ T # {}
    BY <1>2
  <2> HIDE DEF T
  <2>2. \E m \in T : \A i \in T : m <= i
    BY <2>1, FirstOne
  <2>3. QED
    BY <2>2 DEF T
<1>4. n \in 1 .. 10 /\ d[n] = 0 /\ \A m \in 1 .. n - 1 : d[m] # 0
  BY <1>3
<1> DEFINE e == [m \in 0 .. n |-> d[m]]
<1>5. Quotients(e, x, 10, n)
  <2>1. \A m \in 0 .. n - 1 : m \in 0 .. 9 /\ m + 1 \in 0 .. n /\ m \in 0 .. n
    BY <1>4
  <2>2. \A m \in 0 .. n : m \in 0 .. 10
    BY <1>4
  <2>3. 0 \in 0 .. n
    BY <1>4
  <2>4. d \in [0 .. 10 -> Nat] /\ d[0] = x /\ \A m \in 0 .. 10 - 1 : d[m + 1] = d[m] \div 10
    BY <1>1 DEF Quotients
  <2>5. e \in [0 .. n -> Nat] /\ e[0] = x
    BY <2>2, <2>3, <2>4
  <2>6. \A m \in 0 .. n - 1 : e[m + 1] = e[m] \div 10
    <3>1. \A m \in 0 .. n : e[m] = d[m]
      OBVIOUS
    <3>2. \A m \in 0 .. n - 1 : d[m + 1] = d[m] \div 10
      BY <2>1, <2>4
    <3> HIDE DEF e
    <3>3. QED
      BY <2>1, <3>1, <3>2
  <2> HIDE DEF e
  <2>7. QED
    BY <2>5, <2>6 DEF Quotients
<1>6. Divided(e, x, 10, n)
  <2>1. e[n] = 0 /\ \A m \in 1 .. n - 1 : e[m] # 0
    BY <1>4
  <2> HIDE DEF e
  <2>2. QED
    BY <1>4, <1>5, <2>1 DEF Divided
<1>7. QED
  BY <1>4, <1>6

(* Where the digit m of a number is written, counted from its last one. *)
DigitPlace(end, m, dotted) == end - m - (IF dotted /\ m >= 3 THEN 1 ELSE 0)

(* The buffer and the state of the loop after i turns. *)
SoFar(S, i, D, b0, d, n, end, dotted) ==
    /\ IF i < n THEN ~ S.done /\ Val(S.t) = d[i] /\ S.p = DigitPlace(end, i, dotted)
       ELSE S.done /\ S.p = DigitPlace(end, n - 1, dotted)
    /\ \A m \in 0 .. n - 1 : m < i => S.b[DigitPlace(end, m, dotted)] = 48 + (d[m] % 10)
    /\ dotted /\ 3 < n /\ 3 <= i => S.b[end - 3] = Dot

LEMMA SoFarStep ==
    ASSUME NEW dotted \in BOOLEAN, NEW negative \in BOOLEAN, ~ negative,
           NEW end \in Nat, NEW D, \A j \in 0 .. end : j \in D,
           NEW n \in 1 .. 10, IF dotted THEN end >= 10 ELSE end >= 9,
           NEW b0, NEW x, NEW d, Divided(d, x, 10, n),
           NEW S \in LoopState(D), NEW i \in 0 .. 10, SoFar(S, i, D, b0, d, n, end, dotted)
    PROVE  SoFar(Digit(S, i, dotted, negative), i + 1, D, b0, d, n, end, dotted)
<1> DEFINE q == DivideBy10(S.t).quotient
           g == DivideBy10(S.t).digit
           b == Put(S.b, S.p, 48 + g)
           point == dotted /\ i = 2
           T == Digit(S, i, dotted, negative)
           c == IF point THEN Put(b, S.p - 1, Dot) ELSE b
           r == IF point THEN S.p - 2 ELSE S.p - 1
           P(m) == DigitPlace(end, m, dotted)
<1>1. /\ S.t \in Long /\ S.b \in [D -> Nat] /\ S.p \in Int /\ S.done \in BOOLEAN
      /\ S = [t |-> S.t, b |-> S.b, p |-> S.p, done |-> S.done]
  BY DEF LoopState
<1>2. CASE ~ (i < n)
  <2>1. T = S
    BY <1>2 DEF Digit, SoFar
  <2>2. \A m \in 0 .. n - 1 : m < i + 1 => m < i
    BY <1>2
  <2>3. ~ (i + 1 < n) /\ (3 < n => 3 <= i)
    BY <1>2
  <2> HIDE DEF T
  <2>4. QED
    BY <1>2, <2>1, <2>2, <2>3 DEF SoFar, T
<1>3. CASE i < n
  <2>1. ~ S.done /\ Val(S.t) = d[i] /\ S.p = P(i)
    BY <1>3 DEF SoFar
  <2>2. T = IF q = Zero THEN [S EXCEPT !.b = b, !.done = TRUE]
            ELSE [S EXCEPT !.t = q, !.b = c, !.p = r]
    <3>1. LowNibble(g, negative) = g
      BY DEF LowNibble
    <3>2. QED
      BY <2>1, <3>1 DEF Digit, PointAfter
  <2>3. q \in Long /\ Val(q) = d[i] \div 10 /\ g = d[i] % 10 /\ g \in 0 .. 9
    BY <1>1, <2>1, DividedBy10
  <2> HIDE DEF q, g
  <2>4. d[i] \div 10 = d[i + 1] /\ n \in Nat
    <3>1. i \in 0 .. n - 1
      BY <1>3
    <3>2. QED
      BY <3>1 DEF Divided, Quotients
  <2>5. q = Zero <=> i + 1 = n
    <3>1. q = Zero <=> d[i + 1] = 0
      BY <2>3, <2>4, ZeroLong
    <3>2. i + 1 # n => i + 1 \in 1 .. n - 1
      BY <1>3
    <3>3. QED
      BY <3>1, <3>2 DEF Divided
  <2>6. \A m \in 0 .. 9 : \A l \in 0 .. m :
            P(m) \in D /\ P(m) \in 0 .. end /\ (l < m => P(l) # P(m))
    BY DEF DigitPlace
  <2>7. /\ \A a, z : \A e \in [D -> Nat] : a \in D => Put(e, a, z)[a] = z
        /\ \A a, z : \A e \in [D -> Nat] : \A j \in D : j # a => Put(e, a, z)[j] = e[j]
    BY DEF Put
  <2>8. i \in 0 .. 9 /\ i \in 0 .. n - 1
    BY <1>3
  <2>9. b[P(i)] = 48 + (d[i] % 10)
    BY <1>1, <2>1, <2>3, <2>6, <2>7, <2>8
  <2>10. \A m \in 0 .. n - 1 : m < i => b[P(m)] = 48 + (d[m] % 10)
    <3> SUFFICES ASSUME NEW m \in 0 .. n - 1, m < i PROVE b[P(m)] = 48 + (d[m] % 10)
      OBVIOUS
    <3>1. S.b[P(m)] = 48 + (d[m] % 10)
      BY DEF SoFar
    <3>2. P(m) \in D /\ P(m) # P(i)
      BY <2>6, <2>8
    <3>3. QED
      BY <1>1, <2>1, <2>7, <3>1, <3>2
  <2>11. \A m \in 0 .. n - 1 : m < i + 1 => b[P(m)] = 48 + (d[m] % 10)
    BY <2>8, <2>9, <2>10
  <2>12. dotted /\ 3 < n /\ 3 <= i => b[end - 3] = Dot
    <3> SUFFICES ASSUME dotted, 3 < n, 3 <= i PROVE b[end - 3] = Dot
      OBVIOUS
    <3>1. S.b[end - 3] = Dot
      BY DEF SoFar
    <3>2. end - 3 \in D /\ end - 3 # P(i)
      BY <2>8 DEF DigitPlace
    <3>3. \A j \in D : j # S.p => b[j] = S.b[j]
      BY <1>1, <2>7
    <3> HIDE DEF b
    <3>4. QED
      BY <2>1, <3>1, <3>2, <3>3
  <2>13. b \in [D -> Nat]
    <3>1. 48 + g \in Nat
      BY <2>3
    <3>2. \A z \in Nat : Put(S.b, S.p, z) \in [D -> Nat]
      BY <1>1 DEF Put
    <3>3. QED
      BY <3>1, <3>2
  <2>14. CASE i + 1 = n
    <3>1. T.b = b /\ T.done /\ T.p = S.p
      <4>1. T = [S EXCEPT !.b = b, !.done = TRUE]
        BY <2>2, <2>5, <2>14
      <4> HIDE DEF T, b
      <4>2. T = [t |-> S.t, b |-> b, p |-> S.p, done |-> TRUE]
        BY <1>1, <4>1
      <4>3. QED
        BY <4>2
    <3>2. 3 < n /\ 3 <= i + 1 => 3 <= i
      BY <2>14
    <3>3. ~ (i + 1 < n) /\ i = n - 1
      BY <2>14
    <3> HIDE DEF T, b
    <3>4. QED
      BY <2>1, <2>11, <2>12, <3>1, <3>2, <3>3 DEF SoFar, T
  <2>15. CASE i + 1 # n
    <3>1. T.t = q /\ T.b = c /\ T.done = FALSE /\ T.p = r
      <4>1. T = [S EXCEPT !.t = q, !.b = c, !.p = r]
        BY <2>2, <2>5, <2>15
      <4> HIDE DEF T, c, r
      <4>2. T = [t |-> q, b |-> c, p |-> r, done |-> S.done]
        BY <1>1, <4>1
      <4>3. QED
        BY <2>1, <4>2
    <3>2. r = P(i + 1)
      BY <1>1, <2>1 DEF DigitPlace
    <3>3. \A m \in 0 .. n - 1 : m < i + 1 => c[P(m)] = 48 + (d[m] % 10)
      <4> SUFFICES ASSUME NEW m \in 0 .. n - 1, m < i + 1
                   PROVE  c[P(m)] = 48 + (d[m] % 10)
        OBVIOUS
      <4>1. point => P(m) \in D /\ P(m) # S.p - 1
        BY <2>1, <2>6 DEF DigitPlace
      <4>2. b[P(m)] = 48 + (d[m] % 10)
        BY <2>11
      <4> HIDE DEF b
      <4>3. QED
        BY <2>7, <2>13, <4>1, <4>2
    <3>4. dotted /\ 3 < n /\ 3 <= i + 1 => c[end - 3] = Dot
      <4> SUFFICES ASSUME dotted, 3 < n, 3 <= i + 1 PROVE c[end - 3] = Dot
        OBVIOUS
      <4>1. CASE i = 2
        <5>1. S.p - 1 = end - 3 /\ end - 3 \in D
          BY <2>1, <4>1 DEF DigitPlace
        <5> HIDE DEF b
        <5>2. QED
          BY <2>7, <2>13, <4>1, <5>1
      <4>2. CASE i # 2
        <5>1. 3 <= i /\ c = b
          BY <4>2
        <5>2. QED
          BY <2>12, <5>1
      <4>3. QED
        BY <4>1, <4>2
    <3>5. i + 1 < n
      BY <2>8, <2>15
    <3> HIDE DEF T, c, r
    <3>6. QED
      BY <2>3, <2>4, <3>1, <3>2, <3>3, <3>4, <3>5 DEF SoFar, T
  <2>16. QED
    BY <2>14, <2>15
<1>4. QED
  BY <1>2, <1>3

(* In b, from p on, stand the digits of x, the last one at end. *)
DigitsAt(b, p, x, end, dotted) ==
    \E d, n : /\ n \in 1 .. 10 /\ Divided(d, x, 10, n)
              /\ p = DigitPlace(end, n - 1, dotted)
              /\ \A m \in 0 .. n - 1 : b[DigitPlace(end, m, dotted)] = 48 + (d[m] % 10)
              /\ dotted /\ 3 < n => b[end - 3] = Dot

LEMMA DigitKeeps ==
    ASSUME NEW D, NEW S \in LoopState(D), NEW i \in Nat, NEW end \in Int, S.p <= end,
           NEW dotted \in BOOLEAN, NEW negative \in BOOLEAN
    PROVE  LET T == Digit(S, i, dotted, negative) IN
           T.p <= end /\ \A j \in D : j \in Int /\ j > end => T.b[j] = S.b[j]
<1> DEFINE q == DivideBy10(S.t).quotient
           low == LowNibble(DivideBy10(S.t).digit, negative)
           b == Put(S.b, S.p, 48 + low)
           point == dotted /\ PointAfter(i)
           T == Digit(S, i, dotted, negative)
           c == IF point THEN Put(b, S.p - 1, Dot) ELSE b
           r == IF point THEN S.p - 2 ELSE S.p - 1
<1>1. /\ S.b \in [D -> Nat] /\ S.p \in Int
      /\ S = [t |-> S.t, b |-> S.b, p |-> S.p, done |-> S.done]
  BY DEF LoopState
<1>2. T = IF S.done THEN S
          ELSE IF q = Zero THEN [S EXCEPT !.b = b, !.done = TRUE]
          ELSE [S EXCEPT !.t = q, !.b = c, !.p = r]
  BY DEF Digit
<1>3. \A a, z : \A e : DOMAIN e = D => \A j \in D : j # a => Put(e, a, z)[j] = e[j]
  BY DEF Put
<1>4. \A a, z : \A e : DOMAIN e = D => DOMAIN Put(e, a, z) = D
  BY DEF Put
<1>5. DOMAIN S.b = D /\ DOMAIN b = D
  BY <1>1, <1>4
<1>6. ASSUME NEW j \in D, j \in Int, j > end PROVE b[j] = S.b[j] /\ c[j] = S.b[j]
  <2>1. j # S.p /\ j # S.p - 1
    BY <1>1, <1>6
  <2>2. b[j] = S.b[j]
    BY <1>3, <1>5, <2>1
  <2> HIDE DEF b
  <2>3. point => c[j] = b[j]
    BY <1>3, <1>5, <2>1
  <2>4. QED
    BY <2>2, <2>3
<1>7. r \in Int /\ r <= end
  BY <1>1
<1> HIDE DEF T, b, c, r, q
<1>8. CASE S.done
  BY <1>2, <1>8 DEF T
<1>9. CASE ~ S.done /\ q = Zero
  <2>1. T = [t |-> S.t, b |-> b, p |-> S.p, done |-> TRUE]
    BY <1>1, <1>2, <1>9
  <2>2. QED
    BY <1>6, <2>1 DEF T
<1>10. CASE ~ S.done /\ q # Zero
  <2>1. T = [t |-> q, b |-> c, p |-> r, done |-> S.done]
    BY <1>1, <1>2, <1>10
  <2>2. QED
    BY <1>6, <1>7, <2>1 DEF T
<1>11. QED
  BY <1>8, <1>9, <1>10

(* The loop leaves alone what is behind the last digit. *)
LeftAlone(R, D, b, end) ==
    /\ R.b \in [D -> Nat] /\ R.p \in Int /\ R.p <= end
    /\ \A j \in D : j \in Int /\ j > end => R.b[j] = b[j]

LEMMA DigitsKept ==
    ASSUME NEW D, NEW v \in Long, NEW b \in [D -> Nat], NEW end \in Int,
           NEW dotted \in BOOLEAN, NEW negative \in BOOLEAN
    PROVE  LeftAlone(Digits(v, b, end, dotted, negative), D, b, end)
<1>1. PICK S \in [0 .. 11 -> LoopState(D)] :
              /\ S[0] = [t |-> v, b |-> b, p |-> end, done |-> FALSE]
              /\ \A i \in 0 .. 10 : S[i + 1] = Digit(S[i], i, dotted, negative)
              /\ Digits(v, b, end, dotted, negative) = [b |-> S[11].b, p |-> S[11].p]
  BY DigitsLoop
<1> DEFINE Good == {i \in 0 .. 11 :
               S[i].p <= end /\ \A j \in D : j \in Int /\ j > end => S[i].b[j] = b[j]}
<1>2. 0 \in Good
  BY <1>1
<1>3. ASSUME NEW i \in 0 .. 10, i \in Good PROVE i + 1 \in Good
  <2>1. /\ i \in Nat /\ i \in 0 .. 11 /\ i + 1 \in 0 .. 11 /\ S[i] \in LoopState(D)
        /\ S[i + 1] = Digit(S[i], i, dotted, negative)
    BY <1>1
  <2>2. S[i].p <= end /\ \A j \in D : j \in Int /\ j > end => S[i].b[j] = b[j]
    BY <1>3
  <2>3. S[i + 1].p <= end /\ \A j \in D : j \in Int /\ j > end => S[i + 1].b[j] = S[i].b[j]
    BY <2>1, <2>2, DigitKeeps
  <2>4. QED
    BY <2>1, <2>2, <2>3
<1>4. 11 \in Good
  <2> HIDE DEF Good
  <2>1. \A i \in 0 .. 11 - 1 : i \in Good => i + 1 \in Good
    BY <1>3
  <2>2. \A i \in 0 .. 11 : i \in Good
    BY <1>2, <2>1, Induct
  <2>3. QED
    BY <2>2
<1>5. S[11] \in LoopState(D)
  OBVIOUS
<1>6. S[11].b \in [D -> Nat] /\ S[11].p \in Int
  BY <1>5 DEF LoopState
<1>7. QED
  BY <1>1, <1>4, <1>6 DEF LeftAlone

LEMMA DigitsWritten ==
    ASSUME NEW D, NEW v \in Long, NEW b \in [D -> Nat], NEW dotted \in BOOLEAN,
           NEW negative \in BOOLEAN, ~ negative, NEW end \in Nat,
           IF dotted THEN end >= 10 ELSE end >= 9, \A j \in 0 .. end : j \in D, Val(v) < Limit
    PROVE  LET R == Digits(v, b, end, dotted, negative) IN
           DigitsAt(R.b, R.p, Val(v), end, dotted)
<1>1. PICK S \in [0 .. 11 -> LoopState(D)] :
              /\ S[0] = [t |-> v, b |-> b, p |-> end, done |-> FALSE]
              /\ \A i \in 0 .. 10 : S[i + 1] = Digit(S[i], i, dotted, negative)
              /\ Digits(v, b, end, dotted, negative) = [b |-> S[11].b, p |-> S[11].p]
  <2>1. end \in Int
    OBVIOUS
  <2>2. QED
    BY <2>1, DigitsLoop
<1>2. PICK d, n : n \in 1 .. 10 /\ Divided(d, Val(v), 10, n)
  BY LongFacts, TenDigits
<1> DEFINE Good == {i \in 0 .. 11 : SoFar(S[i], i, D, b, d, n, end, dotted)}
<1>3. 0 \in Good
  <2>1. d[0] = Val(v)
    BY <1>2 DEF Divided, Quotients
  <2>2. S[0].t = v /\ S[0].p = end /\ S[0].done = FALSE
    BY <1>1
  <2>3. DigitPlace(end, 0, dotted) = end /\ 0 < n
    BY <1>2 DEF DigitPlace
  <2>4. SoFar(S[0], 0, D, b, d, n, end, dotted)
    BY <2>1, <2>2, <2>3, <1>2 DEF SoFar
  <2>5. QED
    BY <2>4
<1>4. ASSUME NEW i \in 0 .. 10, i \in Good PROVE i + 1 \in Good
  <2>1. /\ i \in 0 .. 11 /\ i + 1 \in 0 .. 11 /\ S[i] \in LoopState(D)
        /\ S[i + 1] = Digit(S[i], i, dotted, negative)
    BY <1>1
  <2>2. SoFar(S[i], i, D, b, d, n, end, dotted)
    BY <1>4
  <2>3. SoFar(S[i + 1], i + 1, D, b, d, n, end, dotted)
    <3> DEFINE s == S[i]  x == Val(v)
    <3>1. s \in LoopState(D) /\ SoFar(s, i, D, b, d, n, end, dotted) /\ Divided(d, x, 10, n)
      BY <1>2, <2>1, <2>2
    <3> HIDE DEF s, x
    <3>2. n \in 1 .. 10
      BY <1>2
    <3>3. SoFar(Digit(s, i, dotted, negative), i + 1, D, b, d, n, end, dotted)
      BY <3>1, <3>2, SoFarStep
    <3>4. QED
      BY <2>1, <3>3 DEF s
  <2>4. QED
    BY <2>1, <2>3
<1>5. 11 \in Good
  <2> HIDE DEF Good
  <2>1. \A i \in 0 .. 11 - 1 : i \in Good => i + 1 \in Good
    BY <1>4
  <2>2. \A i \in 0 .. 11 : i \in Good
    BY <1>3, <2>1, Induct
  <2>3. QED
    BY <2>2
<1>6. /\ S[11].p = DigitPlace(end, n - 1, dotted)
      /\ \A m \in 0 .. n - 1 : S[11].b[DigitPlace(end, m, dotted)] = 48 + (d[m] % 10)
      /\ dotted /\ 3 < n => S[11].b[end - 3] = Dot
  <2>1. ~ (11 < n) /\ \A m \in 0 .. n - 1 : m < 11
    BY <1>2
  <2>2. QED
    BY <1>5, <2>1 DEF SoFar
<1>7. DigitsAt(S[11].b, S[11].p, Val(v), end, dotted)
  BY <1>2, <1>6 DEF DigitsAt
<1>8. QED
  BY <1>1, <1>7

(* The chars of a buffer from p to the one before e. *)
Chunk(b, p, e) == [i \in 1 .. e - p |-> b[p + i - 1]]

LEMMA ChunkFacts ==
    ASSUME NEW b, NEW p \in Nat, NEW e \in Nat, p <= e
    PROVE  LET s == Chunk(b, p, e) IN
           Len(s) = e - p /\ DOMAIN s = 1 .. e - p /\ \A i \in 1 .. e - p : s[i] = b[p + i - 1]
<1>1. e - p \in Nat
  OBVIOUS
<1> DEFINE n == e - p
<1>2. Len(Chunk(b, p, e)) = n
  <2>1. Chunk(b, p, e) = [i \in 1 .. n |-> b[p + i - 1]]
    BY DEF Chunk
  <2> HIDE DEF n
  <2>2. n \in Nat
    BY <1>1 DEF n
  <2>3. QED
    BY <2>1, <2>2
<1>3. DOMAIN Chunk(b, p, e) = 1 .. e - p
  BY DEF Chunk
<1>4. \A i \in 1 .. e - p : Chunk(b, p, e)[i] = b[p + i - 1]
  BY DEF Chunk
<1>5. QED
  BY <1>2, <1>3, <1>4

(* What TextAt finds. *)
LEMMA TextIs ==
    ASSUME NEW n \in Nat, DOMAIN buf = 0 .. n - 1, NEW p \in Nat, NEW e \in Nat, p <= e, e < n,
           buf[e] = NUL, \A j \in p .. e - 1 : buf[j] # NUL
    PROVE  TextAt(p) = Chunk(buf, p, e)
<1> DEFINE Ends(i) == i \notin DOMAIN buf \/ buf[i] = NUL
           Places == {p} \cup {k + 1 : k \in DOMAIN buf}
           Fits(i) == i >= p /\ Ends(i) /\ \A j \in p .. i - 1 : ~ Ends(j)
           end == CHOOSE i \in Places : Fits(i)
<1>1. TextAt(p) = [i \in 1 .. end - p |-> buf[p + i - 1]]
  BY DEF TextAt
<1>2. e \in Places
  <2>1. CASE e = p
    BY <2>1
  <2>2. CASE e # p
    <3>1. e - 1 \in 0 .. n - 1 /\ e = (e - 1) + 1
      BY <2>2
    <3>2. QED
      BY <3>1
  <2>3. QED
    BY <2>1, <2>2
<1>3. Fits(e)
  <2>1. \A j \in p .. e - 1 : j \in 0 .. n - 1
    OBVIOUS
  <2>2. QED
    BY <2>1
<1>4. ASSUME NEW i \in Places, Fits(i) PROVE i = e
  <2>1. i \in Nat
    OBVIOUS
  <2>2. ~ (i \in p .. e - 1) /\ ~ (e \in p .. i - 1)
    BY <1>3, <1>4
  <2>3. QED
    BY <1>4, <2>1, <2>2
<1>5. end = e
  <2> HIDE DEF Places, Fits
  <2>1. QED
    BY <1>2, <1>3, <1>4
<1>6. QED
  BY <1>1, <1>5 DEF Chunk

(* The text of the digits of x reads as x. *)
Tells(t, d, n) ==
    Len(t) = n /\ DOMAIN t = 1 .. n /\ \A j \in 1 .. n : t[j] = 48 + (d[n - j] % 10)
ReadsAs(t, x) ==
    /\ Number(t, 10) \in Long /\ Val(Number(t, 10)) = x
    /\ \A j \in DOMAIN t : t[j] \in 48 .. 57
    /\ Len(t) = 1 \/ t[1] # 48

LEMMA DecimalText ==
    ASSUME NEW x \in Nat, x < Limit, NEW n \in 1 .. 10, NEW d, Divided(d, x, 10, n),
           NEW t, Tells(t, d, n)
    PROVE  ReadsAs(t, x)
<1>t. Len(t) = n /\ DOMAIN t = 1 .. n /\ \A j \in 1 .. n : t[j] = 48 + (d[n - j] % 10)
  BY DEF Tells
<1>0. Quotients(d, x, 10, n) /\ d[n] = 0 /\ n \in Nat /\ 10 \in {10, 16}
  BY DEF Divided
<1>1. \A m \in 0 .. n - 1 : d[m] \in Nat /\ d[m + 1] = d[m] \div 10
  <2>1. \A m \in 0 .. n - 1 : m \in 0 .. n
    BY <1>0
  <2>2. QED
    BY <1>0, <2>1 DEF Quotients
<1>2. \A j \in 1 .. n : n - j \in 0 .. n - 1 /\ d[n - j] % 10 \in 0 .. 9
  <2>1. \A j \in 1 .. n : n - j \in 0 .. n - 1
    BY <1>0
  <2>2. \A y \in Nat : y % 10 \in 0 .. 9
    OBVIOUS
  <2>3. QED
    BY <1>1, <2>1, <2>2
<1>3. \A j \in 1 .. n : t[j] \in 48 .. 57
  <2>1. \A g \in 0 .. 9 : 48 + g \in 48 .. 57
    OBVIOUS
  <2>2. QED
    BY <1>2, <1>t, <2>1
<1>4. \A j \in 1 .. n : Value(t[j]) = d[n - j] % 10
  <2>1. \A g \in 0 .. 9 : Value(48 + g) = g
    BY DEF Value
  <2>2. QED
    BY <1>2, <1>t, <2>1
<1>5. Number(t, 10) \in Long /\ Val(Number(t, 10)) = x
  BY <1>0, <1>4, <1>t, DigitsRead
<1>6. n = 1 \/ t[1] # 48
  <2> SUFFICES ASSUME n # 1 PROVE t[1] # 48
    OBVIOUS
  <2>1. n - 1 \in 1 .. n - 1 /\ n - 1 \in 0 .. n - 1 /\ 1 \in 1 .. n
    OBVIOUS
  <2>2. d[n - 1] # 0 /\ d[n] = d[n - 1] \div 10 /\ d[n - 1] \in Nat
    BY <1>1, <2>1 DEF Divided
  <2>3. d[n - 1] % 10 # 0
    BY <1>0, <2>2
  <2>4. QED
    <3>1. t[1] = 48 + (d[n - 1] % 10) /\ d[n - 1] % 10 \in 0 .. 9
      BY <1>2, <1>t, <2>1
    <3>2. \A g \in 0 .. 9 : g # 0 => 48 + g # 48
      OBVIOUS
    <3>3. QED
      BY <2>3, <3>1, <3>2
<1>7. QED
  BY <1>3, <1>5, <1>6, <1>t DEF ReadsAs

LEMMA PlainReads ==
    ASSUME NEW x \in Nat, x < Limit, NEW end \in Nat, end >= 9, NEW p,
           NEW b, NEW dotted \in BOOLEAN, ~ dotted, DigitsAt(b, p, x, end, dotted)
    PROVE  LET t == Chunk(b, p, end + 1) IN
           /\ p \in 0 .. end /\ Len(t) = end + 1 - p /\ DOMAIN t = 1 .. end + 1 - p
           /\ \A j \in p .. end : b[j] \in 48 .. 57
           /\ ReadsAs(t, x)
<1> DEFINE t == Chunk(b, p, end + 1)
<1>1. PICK d, n : /\ n \in 1 .. 10 /\ Divided(d, x, 10, n)
                  /\ p = DigitPlace(end, n - 1, dotted)
                  /\ \A m \in 0 .. n - 1 : b[DigitPlace(end, m, dotted)] = 48 + (d[m] % 10)
  BY DEF DigitsAt
<1>2. p = end - (n - 1) /\ p \in 0 .. end /\ end + 1 - p = n
  BY <1>1 DEF DigitPlace
<1>3. \A m \in 0 .. n - 1 : b[end - m] = 48 + (d[m] % 10)
  BY <1>1 DEF DigitPlace
<1>4. Len(t) = n /\ DOMAIN t = 1 .. n /\ \A i \in 1 .. n : t[i] = b[p + i - 1]
  <2> DEFINE e == end + 1
  <2>1. p \in Nat /\ e \in Nat /\ p <= e /\ e - p = n
    BY <1>2
  <2> HIDE DEF e
  <2>2. /\ Len(Chunk(b, p, e)) = e - p /\ DOMAIN Chunk(b, p, e) = 1 .. e - p
        /\ \A i \in 1 .. e - p : Chunk(b, p, e)[i] = b[p + i - 1]
    BY <2>1, ChunkFacts
  <2>3. QED
    BY <2>1, <2>2 DEF e
<1> HIDE DEF t
<1>5. \A j \in 1 .. n : t[j] = 48 + (d[n - j] % 10)
  <2>1. \A j \in 1 .. n : p + j - 1 = end - (n - j) /\ n - j \in 0 .. n - 1
    BY <1>1, <1>2
  <2>2. QED
    BY <1>3, <1>4, <2>1
<1>6. ReadsAs(t, x)
  <2>1. n \in 1 .. 10 /\ Divided(d, x, 10, n) /\ Tells(t, d, n)
    BY <1>1, <1>4, <1>5 DEF Tells
  <2>2. QED
    BY ONLY x \in Nat, x < Limit, <2>1, DecimalText
<1>7. \A j \in p .. end : b[j] \in 48 .. 57
  <2>1. \A j \in p .. end : j = p + (j - p + 1) - 1 /\ j - p + 1 \in 1 .. n
    BY <1>1, <1>2
  <2>2. QED
    BY <1>4, <1>6, <2>1 DEF ReadsAs
<1>8. QED
  BY <1>2, <1>4, <1>6, <1>7 DEF t

(* A text without its fourth char from the end. *)
LEMMA Spliced ==
    ASSUME NEW n \in Nat, n > 3, NEW s, Len(s) = n + 1
    PROVE  LET t == SubSeq(s, 1, Len(s) - 4) \o SubSeq(s, Len(s) - 2, Len(s)) IN
           /\ Len(t) = n /\ DOMAIN t = 1 .. n
           /\ \A j \in 1 .. n : t[j] = IF j <= n - 3 THEN s[j] ELSE s[j + 1]
<1> DEFINE C == {s[i] : i \in 1 .. n + 1}
           l == SubSeq(s, 1, n - 3)
           r == SubSeq(s, n - 1, n + 1)
<1>1. Len(s) - 4 = n - 3 /\ Len(s) - 2 = n - 1
  OBVIOUS
<1>2. l \in Seq(C) /\ Len(l) = n - 3 /\ \A i \in 1 .. n - 3 : l[i] = s[i]
  <2>1. /\ 1 \in Int /\ n - 3 \in Int /\ 1 <= n - 3 /\ (n - 3) - 1 + 1 = n - 3
        /\ \A i \in 1 .. n - 3 : s[i] \in C
        /\ \A i \in 1 .. n - 3 : 1 + i - 1 = i
    OBVIOUS
  <2> DEFINE k == n - 3
  <2> HIDE DEF C, k
  <2>2. /\ SubSeq(s, 1, k) \in Seq(C)
        /\ Len(SubSeq(s, 1, k)) = k
        /\ \A i \in 1 .. k : SubSeq(s, 1, k)[i] = s[1 + i - 1]
    <3>1. k \in Int /\ 1 <= k /\ k - 1 + 1 = k /\ \A i \in 1 .. k : s[i] \in C
      BY <2>1 DEF k
    <3>2. QED
      BY <3>1, SubSeqProperties
  <2>3. QED
    BY <2>1, <2>2 DEF k
<1>3. r \in Seq(C) /\ Len(r) = 3 /\ \A i \in 1 .. 3 : r[i] = s[i + n - 2]
  <2> DEFINE m == n - 1  k == n + 1
  <2>1. /\ m \in Int /\ k \in Int /\ m <= k /\ k - m + 1 = 3
        /\ \A i \in m .. k : s[i] \in C
        /\ \A i \in 1 .. 3 : m + i - 1 = i + n - 2
    OBVIOUS
  <2> HIDE DEF C, k, m
  <2>2. /\ SubSeq(s, m, k) \in Seq(C)
        /\ Len(SubSeq(s, m, k)) = k - m + 1
        /\ \A i \in 1 .. k - m + 1 : SubSeq(s, m, k)[i] = s[m + i - 1]
    BY <2>1, SubSeqProperties
  <2>3. QED
    BY <2>1, <2>2 DEF k, m
<1> DEFINE t == l \o r
<1> HIDE DEF l, r, C
<1>4. t \in Seq(C) /\ Len(t) = n
      /\ \A i \in 1 .. n : t[i] = IF i <= n - 3 THEN l[i] ELSE r[i - (n - 3)]
  <2>1. (n - 3) + 3 = n
    OBVIOUS
  <2>2. QED
    <3>1. /\ l \o r \in Seq(C) /\ Len(l \o r) = Len(l) + Len(r)
          /\ \A i \in 1 .. Len(l) + Len(r) :
                 (l \o r)[i] = IF i <= Len(l) THEN l[i] ELSE r[i - Len(l)]
      BY <1>2, <1>3, ConcatProperties
    <3>2. QED
      BY <1>2, <1>3, <2>1, <3>1
<1>5. DOMAIN t = 1 .. n
  BY <1>4
<1> HIDE DEF t
<1>6. \A j \in 1 .. n : IF j <= n - 3 THEN j \in 1 .. n - 3
                         ELSE j - (n - 3) \in 1 .. 3 /\ (j - (n - 3)) + n - 2 = j + 1
  OBVIOUS
<1>7. QED
  BY <1>1, <1>2, <1>3, <1>4, <1>5, <1>6 DEF l, r, t

LEMMA DottedReads ==
    ASSUME NEW x \in Nat, x < Limit, NEW end \in Nat, end >= 10, NEW p,
           NEW b, NEW dotted \in BOOLEAN, dotted, DigitsAt(b, p, x, end, dotted)
    PROVE  LET s == Chunk(b, p, end + 1)
               t == IF Len(s) > 3 THEN SubSeq(s, 1, Len(s) - 4) \o SubSeq(s, Len(s) - 2, Len(s))
                    ELSE s
           IN /\ p \in 0 .. end /\ Len(s) = end + 1 - p
              /\ \A j \in p .. end : b[j] # NUL
              /\ Len(s) > 3 => s[Len(s) - 3] = Dot
              /\ ReadsAs(t, x)
<1> DEFINE s == Chunk(b, p, end + 1)
           l == SubSeq(s, 1, Len(s) - 4)
           r == SubSeq(s, Len(s) - 2, Len(s))
           t == IF Len(s) > 3 THEN l \o r ELSE s
<1>1. PICK d, n : /\ n \in 1 .. 10 /\ Divided(d, x, 10, n)
                  /\ p = DigitPlace(end, n - 1, dotted)
                  /\ \A m \in 0 .. n - 1 : b[DigitPlace(end, m, dotted)] = 48 + (d[m] % 10)
                  /\ 3 < n => b[end - 3] = Dot
  BY DEF DigitsAt
<1> DEFINE L == IF n > 3 THEN n + 1 ELSE n
<1>2. p = end + 1 - L /\ p \in 0 .. end /\ end + 1 - p = L /\ L \in 1 .. 11 /\ (L > 3 <=> n > 3)
  BY <1>1 DEF DigitPlace
<1>3. Len(s) = L /\ DOMAIN s = 1 .. L /\ \A i \in 1 .. L : s[i] = b[p + i - 1]
  <2> DEFINE e == end + 1
  <2>1. p \in Nat /\ e \in Nat /\ p <= e /\ e - p = L
    BY <1>2
  <2> HIDE DEF e, L
  <2>2. /\ Len(Chunk(b, p, e)) = e - p /\ DOMAIN Chunk(b, p, e) = 1 .. e - p
        /\ \A i \in 1 .. e - p : Chunk(b, p, e)[i] = b[p + i - 1]
    BY <2>1, ChunkFacts
  <2>3. QED
    BY <2>1, <2>2 DEF e
<1>n. n \in 1 .. 10
  BY <1>1
<1>4. \A m \in 0 .. n - 1 : s[L - m - (IF m >= 3 THEN 1 ELSE 0)] = 48 + (d[m] % 10)
  <2> SUFFICES ASSUME NEW m \in 0 .. n - 1
               PROVE  s[L - m - (IF m >= 3 THEN 1 ELSE 0)] = 48 + (d[m] % 10)
    OBVIOUS
  <2> DEFINE i == L - m - (IF m >= 3 THEN 1 ELSE 0)
  <2>1. i \in 1 .. L /\ p + i - 1 = DigitPlace(end, m, dotted)
    BY <1>2, <1>n DEF DigitPlace
  <2> HIDE DEF i, s, L
  <2>2. s[i] = 48 + (d[m] % 10)
    BY <1>1, <1>3, <2>1
  <2>3. QED
    BY <2>2 DEF i
<1>5. n > 3 => s[L - 3] = Dot
  <2>1. n > 3 => L - 3 \in 1 .. L /\ p + (L - 3) - 1 = end - 3
    BY <1>2, <1>n
  <2> HIDE DEF s, L
  <2>2. QED
    BY <1>1, <1>3, <2>1
<1>6. Len(t) = n /\ DOMAIN t = 1 .. n /\ \A j \in 1 .. n : t[j] = 48 + (d[n - j] % 10)
  <2>1. CASE n <= 3
    <3>1. t = s /\ L = n
      BY <1>2, <1>3, <1>n, <2>1
    <3>2. \A j \in 1 .. n : n - j \in 0 .. n - 1 /\ ~ (n - j >= 3)
                            /\ L - (n - j) - 0 = j
      BY <1>n, <2>1, <3>1
    <3> HIDE DEF s, t, L
    <3>3. QED
      BY <1>3, <1>4, <3>1, <3>2
  <2>2. CASE n > 3
    <3>1. L = n + 1 /\ t = l \o r
      BY <1>2, <1>3, <2>2
    <3>2. n \in Nat /\ Len(s) = n + 1
      BY <1>3, <1>n, <3>1
    <3>3. /\ Len(t) = n /\ DOMAIN t = 1 .. n
          /\ \A j \in 1 .. n : t[j] = IF j <= n - 3 THEN s[j] ELSE s[j + 1]
      <4> HIDE DEF s
      <4>1. /\ Len(l \o r) = n /\ DOMAIN (l \o r) = 1 .. n
            /\ \A j \in 1 .. n : (l \o r)[j] = IF j <= n - 3 THEN s[j] ELSE s[j + 1]
        BY <2>2, <3>2, Spliced
      <4> HIDE DEF l, r, t
      <4>2. QED
        BY <3>1, <4>1
    <3>5. \A j \in 1 .. n : /\ n - j \in 0 .. n - 1
                            /\ L - (n - j) - (IF n - j >= 3 THEN 1 ELSE 0)
                               = IF j <= n - 3 THEN j ELSE j + 1
      BY <1>n, <2>2
    <3> HIDE DEF s, t, L
    <3>6. \A j \in 1 .. n : t[j] = 48 + (d[n - j] % 10)
      BY <1>4, <3>3, <3>5
    <3>7. QED
      BY <3>3, <3>6
  <2> HIDE DEF t
  <2>3. QED
    BY <1>n, <2>1, <2>2
<1>7. ReadsAs(t, x)
  <2> HIDE DEF t
  <2>1. n \in 1 .. 10 /\ Divided(d, x, 10, n) /\ Tells(t, d, n)
    BY <1>1, <1>6 DEF Tells
  <2>2. QED
    BY ONLY x \in Nat, x < Limit, <2>1, DecimalText
<1>8. \A j \in p .. end : b[j] # NUL
  <2> SUFFICES ASSUME NEW j \in p .. end PROVE b[j] # NUL
    OBVIOUS
  <2> DEFINE i == j - p + 1
  <2>1. i \in 1 .. L /\ p + i - 1 = j /\ j \in 0 .. end
    BY <1>2
  <2> DEFINE m == IF n > 3 /\ i < L - 2 THEN L - i - 1 ELSE L - i
  <2>2. (n > 3 /\ i = L - 3) \/ (m \in 0 .. n - 1 /\ L - m - (IF m >= 3 THEN 1 ELSE 0) = i)
    BY <1>n, <2>1
  <2> HIDE DEF i, m, s, L
  <2>3. CASE n > 3 /\ i = L - 3
    BY <1>3, <1>5, <2>1, <2>3 DEF Dot, NUL
  <2>4. CASE m \in 0 .. n - 1 /\ L - m - (IF m >= 3 THEN 1 ELSE 0) = i
    <3>1. b[j] = 48 + (d[m] % 10)
      BY <1>3, <1>4, <2>1, <2>4
    <3>2. d[m] \in Nat
      BY <1>1, <2>4 DEF Divided, Quotients
    <3>3. QED
      BY <3>1, <3>2 DEF NUL
  <2>5. QED
    BY <2>2, <2>3, <2>4
<1> HIDE DEF t
<1>9. QED
  BY <1>2, <1>3, <1>5, <1>6, <1>7, <1>8 DEF t

LEMMA LongLimit == \A v \in Long : Val(v) < Limit
<1> SUFFICES ASSUME NEW v \in Long PROVE Val(v) < Limit
  BY SMT
<1>1. v.hi \in Nat /\ v.hi < 65536 /\ v.lo \in Nat /\ v.lo < 65536 /\ Val(v) = v.hi * 65536 + v.lo
  BY SMT, LongFacts
<1>2. QED
  BY SMT, <1>1 DEF Limit

LEMMA NibblesOf ==
    ASSUME NEW v \in Long
    PROVE  /\ Nibble(v, 0) = (v.hi \div 4096) % 16 /\ Nibble(v, 1) = (v.hi \div 256) % 16
           /\ Nibble(v, 2) = (v.hi \div 16) % 16   /\ Nibble(v, 3) = v.hi % 16
           /\ Nibble(v, 4) = (v.lo \div 4096) % 16 /\ Nibble(v, 5) = (v.lo \div 256) % 16
           /\ Nibble(v, 6) = (v.lo \div 16) % 16   /\ Nibble(v, 7) = v.lo % 16
<1> DEFINE At(h, i) == (h \div (16 ^ (3 - (i % 4)))) % 16
<1>1. /\ 3 - (0 % 4) = 3 /\ 3 - (1 % 4) = 2 /\ 3 - (2 % 4) = 1 /\ 3 - (3 % 4) = 0
      /\ 3 - (4 % 4) = 3 /\ 3 - (5 % 4) = 2 /\ 3 - (6 % 4) = 1 /\ 3 - (7 % 4) = 0
  OBVIOUS
<1>2. 16 ^ 3 = 4096 /\ 16 ^ 2 = 256 /\ 16 ^ 1 = 16 /\ 16 ^ 0 = 1
  OBVIOUS
<1>3. \A h : /\ At(h, 0) = (h \div 4096) % 16 /\ At(h, 1) = (h \div 256) % 16
             /\ At(h, 2) = (h \div 16) % 16 /\ At(h, 3) = (h \div 1) % 16
             /\ At(h, 4) = (h \div 4096) % 16 /\ At(h, 5) = (h \div 256) % 16
             /\ At(h, 6) = (h \div 16) % 16 /\ At(h, 7) = (h \div 1) % 16
  BY <1>1, <1>2
<1>4. v.hi \in Nat /\ v.lo \in Nat
  BY LongFacts
<1>5. \A h \in Nat : h \div 1 = h
  OBVIOUS
<1>6. /\ \A i \in 0 .. 3 : Nibble(v, i) = At(v.hi, i)
      /\ \A i \in 4 .. 7 : Nibble(v, i) = At(v.lo, i)
  BY DEF Nibble
<1> HIDE DEF At
<1>7. /\ Nibble(v, 0) = At(v.hi, 0) /\ Nibble(v, 1) = At(v.hi, 1)
      /\ Nibble(v, 2) = At(v.hi, 2) /\ Nibble(v, 3) = At(v.hi, 3)
      /\ Nibble(v, 4) = At(v.lo, 4) /\ Nibble(v, 5) = At(v.lo, 5)
      /\ Nibble(v, 6) = At(v.lo, 6) /\ Nibble(v, 7) = At(v.lo, 7)
  BY <1>6
<1>8. QED
  BY <1>3, <1>4, <1>5, <1>7

LEMMA NibblesAreDigits ==
    ASSUME NEW v \in Long, NEW d, Quotients(d, Val(v), 16, 8)
    PROVE  d[8] = 0 /\ \A i \in 0 .. 7 : Nibble(v, i) = d[7 - i] % 16
<1> DEFINE h == v.hi  l == v.lo
<1>1. h \in Nat /\ h < 65536 /\ l \in Nat /\ l < 65536 /\ Val(v) = h * 65536 + l
  BY SMT, LongFacts
<1>2. d[0] = Val(v) /\ \A m \in 0 .. 7 : d[m + 1] = d[m] \div 16
  BY DEF Quotients
<1>n. /\ Nibble(v, 0) = (h \div 4096) % 16 /\ Nibble(v, 1) = (h \div 256) % 16
      /\ Nibble(v, 2) = (h \div 16) % 16   /\ Nibble(v, 3) = h % 16
      /\ Nibble(v, 4) = (l \div 4096) % 16 /\ Nibble(v, 5) = (l \div 256) % 16
      /\ Nibble(v, 6) = (l \div 16) % 16   /\ Nibble(v, 7) = l % 16
  BY NibblesOf
<1> HIDE DEF h, l
<1>3. \A a, b \in Nat : (16 * a + b) \div 16 = a + (b \div 16) /\ (16 * a + b) % 16 = b % 16
  BY SMT
<1>4. \A a \in Nat : /\ (a \div 16) \div 16 = a \div 256 /\ (a \div 256) \div 16 = a \div 4096
                     /\ a \div 16 \in Nat /\ a \div 256 \in Nat /\ a \div 4096 \in Nat
  BY SMT
<1>5. \A a \in Nat : a < 65536 => (a \div 4096) \div 16 = 0
  BY SMT
<1>6. d[0] = 16 * (h * 4096) + l /\ h * 4096 \in Nat
  BY SMT, <1>1, <1>2
<1>7. d[1] = h * 4096 + (l \div 16) /\ d[0] % 16 = l % 16
  <2>1. d[1] = d[0] \div 16
    BY <1>2
  <2>2. QED
    BY SMT, <1>1, <1>3, <1>6, <2>1
<1>8. d[2] = h * 256 + (l \div 256) /\ d[1] % 16 = (l \div 16) % 16
  <2>1. d[2] = d[1] \div 16
    BY <1>2
  <2>2. d[1] = 16 * (h * 256) + (l \div 16) /\ h * 256 \in Nat /\ l \div 16 \in Nat
    BY SMT, <1>1, <1>4, <1>7
  <2>3. QED
    BY SMT, <1>1, <1>3, <1>4, <2>1, <2>2
<1>9. d[3] = h * 16 + (l \div 4096) /\ d[2] % 16 = (l \div 256) % 16
  <2>1. d[3] = d[2] \div 16
    BY <1>2
  <2>2. d[2] = 16 * (h * 16) + (l \div 256) /\ h * 16 \in Nat /\ l \div 256 \in Nat
    BY SMT, <1>1, <1>4, <1>8
  <2>3. QED
    BY SMT, <1>1, <1>3, <1>4, <2>1, <2>2
<1>10. d[4] = h /\ d[3] % 16 = (l \div 4096) % 16
  <2>1. d[4] = d[3] \div 16
    BY <1>2
  <2>2. d[3] = 16 * h + (l \div 4096) /\ l \div 4096 \in Nat /\ (l \div 4096) \div 16 = 0
    BY SMT, <1>1, <1>4, <1>5, <1>9
  <2>3. d[4] = h + ((l \div 4096) \div 16) /\ d[3] % 16 = (l \div 4096) % 16
    BY SMT, <1>1, <1>3, <2>1, <2>2
  <2>4. QED
    BY SMT, <1>1, <2>2, <2>3
<1>11. d[5] = h \div 16 /\ d[6] = h \div 256 /\ d[7] = h \div 4096 /\ d[8] = 0
  <2>1. d[5] = d[4] \div 16 /\ d[6] = d[5] \div 16 /\ d[7] = d[6] \div 16 /\ d[8] = d[7] \div 16
    BY <1>2
  <2>2. QED
    BY <1>1, <1>4, <1>5, <1>10, <2>1
<1>12. /\ Nibble(v, 0) = d[7] % 16 /\ Nibble(v, 1) = d[6] % 16
       /\ Nibble(v, 2) = d[5] % 16 /\ Nibble(v, 3) = d[4] % 16
       /\ Nibble(v, 4) = d[3] % 16 /\ Nibble(v, 5) = d[2] % 16
       /\ Nibble(v, 6) = d[1] % 16 /\ Nibble(v, 7) = d[0] % 16
  BY <1>n, <1>7, <1>8, <1>9, <1>10, <1>11
<1>13. \A i \in 0 .. 7 : i = 0 \/ i = 1 \/ i = 2 \/ i = 3 \/ i = 4 \/ i = 5 \/ i = 6 \/ i = 7
  OBVIOUS
<1>14. /\ 7 - 0 = 7 /\ 7 - 1 = 6 /\ 7 - 2 = 5 /\ 7 - 3 = 4
       /\ 7 - 4 = 3 /\ 7 - 5 = 2 /\ 7 - 6 = 1 /\ 7 - 7 = 0
  OBVIOUS
<1>15. QED
  BY <1>11, <1>12, <1>13, <1>14

(* Zeros in front of a number are what is left over at the end. *)
LEMMA Leading ==
    ASSUME NEW v \in Long, NEW d, Quotients(d, Val(v), 16, 8), NEW p \in 0 .. 8,
           \A j \in 0 .. p - 1 : Nibble(v, j) = 0
    PROVE  d[8 - p] = 0
<1> DEFINE T == {m \in 0 .. p : d[8 - m] = 0}
<1>1. 0 \in T
  BY NibblesAreDigits
<1>2. ASSUME NEW m \in 0 .. p - 1, m \in T PROVE m + 1 \in T
  <2>1. /\ m + 1 \in 0 .. p /\ 8 - (m + 1) = 7 - m /\ 7 - m \in 0 .. 7 /\ m \in 0 .. 7
        /\ (7 - m) + 1 = 8 - m /\ 7 - m \in 0 .. 8
    OBVIOUS
  <2>2. d[7 - m] \in Nat /\ d[8 - m] = d[7 - m] \div 16
    BY <2>1 DEF Quotients
  <2>3. d[7 - m] % 16 = 0
    BY <2>1, NibblesAreDigits
  <2>4. \A y \in Nat : y \div 16 = 0 /\ y % 16 = 0 => y = 0
    OBVIOUS
  <2>5. d[8 - m] = 0
    BY <1>2
  <2>6. QED
    BY <2>1, <2>2, <2>3, <2>4, <2>5
<1> HIDE DEF T
<1>3. p \in T
  <2>1. \A m \in 0 .. p : m \in T
    BY <1>1, <1>2, Induct
  <2>2. QED
    BY <2>1
<1>4. QED
  BY <1>3 DEF T

LEMMA HexChars ==
    \A g \in 0 .. 15 : /\ HexChar(g) \in 48 .. 57 \cup 65 .. 70 /\ Value(HexChar(g)) = g
                       /\ HexChar(g) = 48 => g = 0
BY DEF HexChar, Value

LEMMA HexReads ==
    ASSUME NEW v \in Long, NEW p \in 0 .. 7, \A j \in 0 .. p - 1 : Nibble(v, j) = 0,
           NEW b, \A i \in 0 .. 7 : b[i] = HexChar(Nibble(v, i))
    PROVE  LET t == Chunk(b, p, 8) IN
           /\ Len(t) = 8 - p /\ \A j \in p .. 7 : b[j] # NUL
           /\ Number(t, 16) = v
           /\ \A j \in DOMAIN t : t[j] \in 48 .. 57 \cup 65 .. 70
           /\ t[1] = 48 => Nibble(v, p) = 0
<1> DEFINE t == Chunk(b, p, 8)  k == 8 - p
<1>1. PICK d : Quotients(d, Val(v), 16, 8)
  <2>1. 16 \in {10, 16} /\ 8 \in Nat /\ Val(v) \in Nat
    BY LongFacts
  <2>2. QED
    BY <2>1, QuotientsExist
<1>2. \A i \in 0 .. 7 : Nibble(v, i) = d[7 - i] % 16 /\ Nibble(v, i) \in 0 .. 15
  <2>1. \A i \in 0 .. 7 : Nibble(v, i) = d[7 - i] % 16
    BY <1>1, NibblesAreDigits
  <2>2. \A i \in 0 .. 7 : d[7 - i] \in Nat
    <3>1. \A i \in 0 .. 7 : 7 - i \in 0 .. 8
      OBVIOUS
    <3>2. QED
      BY <1>1, <3>1 DEF Quotients
  <2>3. \A y \in Nat : y % 16 \in 0 .. 15
    OBVIOUS
  <2>4. QED
    BY <2>1, <2>2, <2>3
<1>3. \A i \in 0 .. 7 : b[i] \in 48 .. 57 \cup 65 .. 70 /\ Value(b[i]) = d[7 - i] % 16
                        /\ (b[i] = 48 => Nibble(v, i) = 0)
  BY <1>2, HexChars
<1>4. k \in 1 .. 8 /\ p \in Nat /\ p <= 8 /\ 8 \in Nat /\ k \in Nat
  OBVIOUS
<1>5. Len(t) = k /\ DOMAIN t = 1 .. k /\ \A j \in 1 .. k : t[j] = b[p + j - 1]
  BY <1>4, ChunkFacts
<1>6. \A j \in 1 .. k : p + j - 1 \in 0 .. 7 /\ 7 - (p + j - 1) = k - j
  OBVIOUS
<1>7. d[k] = 0
  <2>1. p \in 0 .. 8
    OBVIOUS
  <2>2. QED
    BY <1>1, <2>1, Leading
<1> HIDE DEF t, k
<1>8. \A j \in 1 .. k : t[j] \in 48 .. 57 \cup 65 .. 70 /\ Value(t[j]) = d[k - j] % 16
  BY <1>3, <1>5, <1>6
<1> DEFINE e == [m \in 0 .. k |-> d[m]]
<1>9. Quotients(e, Val(v), 16, k)
  <2>1. /\ \A m \in 0 .. k : m \in 0 .. 8
        /\ \A m \in 0 .. k - 1 : m \in 0 .. 7 /\ m \in 0 .. k /\ m + 1 \in 0 .. k
        /\ 0 \in 0 .. k
    BY <1>4
  <2>2. d \in [0 .. 8 -> Nat] /\ d[0] = Val(v) /\ \A m \in 0 .. 7 : d[m + 1] = d[m] \div 16
    BY <1>1 DEF Quotients
  <2>3. e \in [0 .. k -> Nat] /\ \A m \in 0 .. k : e[m] = d[m]
    BY <2>1, <2>2
  <2> HIDE DEF e
  <2>4. e[0] = Val(v) /\ \A m \in 0 .. k - 1 : e[m + 1] = e[m] \div 16
    BY <2>1, <2>2, <2>3
  <2>5. QED
    BY <2>3, <2>4 DEF Quotients
<1>10. e[k] = 0 /\ \A j \in 1 .. k : Value(t[j]) = e[k - j] % 16
  <2>1. k \in 0 .. k /\ \A j \in 1 .. k : k - j \in 0 .. k
    BY <1>4
  <2>2. QED
    BY <1>7, <1>8, <2>1
<1> HIDE DEF e
<1>11. Number(t, 16) \in Long /\ Val(Number(t, 16)) = Val(v)
  <2>1. 16 \in {10, 16} /\ Val(v) \in Nat /\ Val(v) < Limit
    BY LongFacts, LongLimit
  <2>2. QED
    BY <1>4, <1>5, <1>9, <1>10, <2>1, DigitsRead
<1>12. Number(t, 16) = v
  BY <1>11, SameLong
<1>13. t[1] = 48 => Nibble(v, p) = 0
  <2>1. 1 \in 1 .. k /\ p + 1 - 1 = p /\ p \in 0 .. 7
    BY <1>4
  <2>2. QED
    BY <1>3, <1>5, <2>1
<1>14. \A j \in p .. 7 : b[j] # NUL
  <2>1. \A j \in p .. 7 : j \in 0 .. 7
    OBVIOUS
  <2>2. 0 \notin 48 .. 57 \cup 65 .. 70
    OBVIOUS
  <2>3. QED
    BY <1>3, <2>1, <2>2 DEF NUL
<1>15. QED
  BY <1>5, <1>8, <1>12, <1>13, <1>14 DEF t, k

(* Without a point, and with one where the number is long. *)
Undotted(b, p, x, end)  == \E dotted \in BOOLEAN : ~ dotted /\ DigitsAt(b, p, x, end, dotted)
Dotted(b, p, x, end) == \E dotted \in BOOLEAN : dotted /\ DigitsAt(b, p, x, end, dotted)

LEMMA PlainWritten ==
    ASSUME NEW N \in Nat, NEW v \in Long, NEW b \in [0 .. N -> Nat],
           NEW end \in Nat, end >= 9, end < N
    PROVE  LET R == Digits(v, b, end, FALSE, FALSE) IN
           /\ R.b \in [0 .. N -> Nat] /\ R.p \in Int /\ R.b[end + 1] = b[end + 1]
           /\ Undotted(R.b, R.p, Val(v), end)
<1> DEFINE dotted == FALSE  negative == FALSE  D == 0 .. N
           R == Digits(v, b, end, dotted, negative)
<1>1. dotted \in BOOLEAN /\ ~ dotted /\ negative \in BOOLEAN /\ ~ negative
  OBVIOUS
<1>2. R = Digits(v, b, end, FALSE, FALSE)
  OBVIOUS
<1>3. /\ end \in Int /\ end + 1 \in D /\ end + 1 \in Int /\ end + 1 > end
      /\ \A j \in 0 .. end : j \in D
  OBVIOUS
<1>4. b \in [D -> Nat] /\ Val(v) < Limit
  BY LongLimit
<1> HIDE DEF dotted, negative, D
<1>5. /\ R.b \in [D -> Nat] /\ R.p \in Int
      /\ \A j \in D : j \in Int /\ j > end => R.b[j] = b[j]
  <2>1. LeftAlone(R, D, b, end)
    BY <1>1, <1>3, <1>4, DigitsKept
  <2> HIDE DEF R
  <2>2. QED
    BY <2>1 DEF LeftAlone
<1>6. DigitsAt(R.b, R.p, Val(v), end, dotted)
  BY <1>1, <1>3, <1>4, DigitsWritten
<1> HIDE DEF R
<1>7. Undotted(R.b, R.p, Val(v), end)
  BY <1>1, <1>6 DEF Undotted
<1>8. R.b[end + 1] = b[end + 1]
  BY <1>3, <1>5
<1>9. QED
  BY <1>2, <1>5, <1>7, <1>8 DEF D

LEMMA DottedWritten ==
    ASSUME NEW N \in Nat, NEW v \in Long, NEW b \in [0 .. N -> Nat],
           NEW end \in Nat, end >= 10, end < N
    PROVE  LET R == Digits(v, b, end, TRUE, FALSE) IN
           /\ R.b \in [0 .. N -> Nat] /\ R.p \in Int /\ R.b[end + 1] = b[end + 1]
           /\ Dotted(R.b, R.p, Val(v), end)
<1> DEFINE dotted == TRUE  negative == FALSE  D == 0 .. N
           R == Digits(v, b, end, dotted, negative)
<1>1. dotted \in BOOLEAN /\ dotted /\ negative \in BOOLEAN /\ ~ negative
  OBVIOUS
<1>2. R = Digits(v, b, end, TRUE, FALSE)
  OBVIOUS
<1>3. /\ end \in Int /\ end + 1 \in D /\ end + 1 \in Int /\ end + 1 > end
      /\ \A j \in 0 .. end : j \in D
  OBVIOUS
<1>4. b \in [D -> Nat] /\ Val(v) < Limit
  BY LongLimit
<1> HIDE DEF dotted, negative, D
<1>5. /\ R.b \in [D -> Nat] /\ R.p \in Int
      /\ \A j \in D : j \in Int /\ j > end => R.b[j] = b[j]
  <2>1. LeftAlone(R, D, b, end)
    BY <1>1, <1>3, <1>4, DigitsKept
  <2> HIDE DEF R
  <2>2. QED
    BY <2>1 DEF LeftAlone
<1>6. DigitsAt(R.b, R.p, Val(v), end, dotted)
  BY <1>1, <1>3, <1>4, DigitsWritten
<1> HIDE DEF R
<1>7. Dotted(R.b, R.p, Val(v), end)
  BY <1>1, <1>6 DEF Dotted
<1>8. R.b[end + 1] = b[end + 1]
  BY <1>3, <1>5
<1>9. QED
  BY <1>2, <1>5, <1>7, <1>8 DEF D

LEMMA MinusBefore ==
    ASSUME NEW N \in Nat, NEW b \in [0 .. N -> Nat], NEW p, NEW x,
           NEW end \in Nat, end >= 10, end < N, Undotted(b, p, x, end)
    PROVE  LET c == Put(b, p - 1, Minus) IN
           p \in 1 .. end /\ c[p - 1] = Minus /\ Undotted(c, p, x, end)
<1> DEFINE c == Put(b, p - 1, Minus)
<1>1. PICK dotted \in BOOLEAN : ~ dotted /\ DigitsAt(b, p, x, end, dotted)
  BY DEF Undotted
<1>2. PICK d, n : /\ n \in 1 .. 10 /\ Divided(d, x, 10, n)
                  /\ p = DigitPlace(end, n - 1, dotted)
                  /\ \A m \in 0 .. n - 1 : b[DigitPlace(end, m, dotted)] = 48 + (d[m] % 10)
  BY <1>1 DEF DigitsAt
<1>3. /\ p = end - (n - 1) /\ p \in 1 .. end
      /\ \A m \in 0 .. n - 1 : /\ DigitPlace(end, m, dotted) # p - 1
                               /\ DigitPlace(end, m, dotted) \in 0 .. N
  BY <1>1, <1>2 DEF DigitPlace
<1>4. c[p - 1] = Minus /\ \A j \in 0 .. N : j # p - 1 => c[j] = b[j]
  <2>1. p - 1 \in 0 .. N
    BY <1>3
  <2>2. QED
    BY <2>1 DEF Put
<1> HIDE DEF c
<1>5. \A m \in 0 .. n - 1 : c[DigitPlace(end, m, dotted)] = 48 + (d[m] % 10)
  BY <1>2, <1>3, <1>4
<1>6. DigitsAt(c, p, x, end, dotted)
  BY <1>1, <1>2, <1>5 DEF DigitsAt
<1>7. QED
  BY <1>1, <1>3, <1>4, <1>6 DEF Undotted, c

LEMMA NegatedLong ==
    ASSUME NEW v \in Long
    PROVE  /\ Negated(v) \in Long
           /\ Negative(v) /\ v # [hi |-> Half \div 2, lo |-> 0] => ~ Negative(Negated(v))
<1>1. /\ v.hi \in Nat /\ v.hi < 65536 /\ v.lo \in Nat /\ v.lo < 65536
      /\ v = [hi |-> v.hi, lo |-> v.lo]
  <2>1. v = [hi |-> v.hi, lo |-> v.lo]
    BY DEF Long
  <2>2. QED
    BY SMT, LongFacts, <2>1
<1>2. Half \div 2 = 32768
  BY SMT DEF Half
<1>3. CASE v.lo = 0
  <2> DEFINE h == (65536 - v.hi) % 65536
  <2>1. Negated(v) = [hi |-> h, lo |-> 0]
    BY SMT, <1>3 DEF Negated, Half
  <2>2. h \in Nat /\ h < 65536 /\ (v.hi >= 32768 /\ v.hi # 32768 => h < 32768)
    BY SMT, <1>1
  <2> HIDE DEF h
  <2>3. [hi |-> h, lo |-> 0] \in Long
    <3>1. 0 \in Nat /\ 0 < 65536
      BY SMT
    <3>2. QED
      BY <2>2, <3>1, MakeLong
  <2>4. v # [hi |-> 32768, lo |-> 0] => v.hi # 32768
    BY SMT, <1>1, <1>3
  <2>5. QED
    BY SMT, <1>1, <1>2, <2>1, <2>2, <2>3, <2>4 DEF Negative
<1>4. CASE v.lo # 0
  <2> DEFINE h == 65535 - v.hi  l == 65536 - v.lo
  <2>1. Negated(v) = [hi |-> h, lo |-> l]
    BY SMT, <1>1, <1>4 DEF Negated, Half
  <2>2. h \in Nat /\ h < 65536 /\ (v.hi >= 32768 => h < 32768) /\ l \in Nat /\ l < 65536
    BY SMT, <1>1, <1>4
  <2> HIDE DEF h, l
  <2>3. [hi |-> h, lo |-> l] \in Long
    BY <2>2, MakeLong
  <2>4. QED
    BY SMT, <1>1, <1>2, <2>1, <2>2, <2>3 DEF Negative
<1>5. QED
  BY <1>3, <1>4

LEMMA FormattersAre ==
    /\ Formatters = {"zhex32_to_str", "hex32_to_str", "u32_to_str", "s32_to_str",
                     "ulong_to_string"}
    /\ Sizes["zhex32_to_str"] = 10 /\ Sizes["hex32_to_str"] = 10
    /\ Sizes["u32_to_str"] = 12 /\ Sizes["s32_to_str"] = 13
    /\ Sizes["ulong_to_string"] = 13
BY DEF Formatters, Sizes

(* A number in hexadecimal, in front of the NUL. *)
HexAt(b, v) == v \in Long /\ \A i \in 0 .. 7 : b[i] = HexChar(Nibble(v, i))

(* The buffer of each function ends with the NUL that was put there at the *)
(* beginning, and holds in front of it the number last formatted.          *)
HexInv ==
    fn \in {"zhex32_to_str", "hex32_to_str"} =>
        /\ buf \in [0 .. 9 -> Nat] /\ buf[8] = NUL
        /\ result # -1 => HexAt(buf, arg)
        /\ result # -1 /\ fn = "hex32_to_str" => result = 0
        /\ result # -1 /\ fn = "zhex32_to_str" /\ arg # Zero =>
               /\ result \in 0 .. 7 /\ Nibble(arg, result) # 0
               /\ \A j \in 0 .. result - 1 : Nibble(arg, j) = 0

UnsignedInv ==
    fn = "u32_to_str" =>
        /\ buf \in [0 .. 11 -> Nat] /\ buf[10] = NUL
        /\ result # -1 => arg \in Long /\ Undotted(buf, result, Val(arg), 9)

DottedInv ==
    fn = "ulong_to_string" =>
        /\ buf \in [0 .. 12 -> Nat] /\ buf[11] = NUL
        /\ result # -1 => arg \in Long /\ Dotted(buf, result, Val(arg), 10)

SignedInv ==
    fn = "s32_to_str" =>
        /\ buf \in [0 .. 12 -> Nat] /\ buf[11] = NUL
        /\ result # -1 /\ ~ Wrong(arg) =>
               /\ arg \in Long
               /\ ~ Negative(arg) => Undotted(buf, result, Val(arg), 10)
               /\ Negative(arg) => /\ buf[result] = Minus
                                   /\ result \in 0 .. 9
                                   /\ Undotted(buf, result + 1, Val(Negated(arg)), 10)

FormatInv == HexInv /\ UnsignedInv /\ DottedInv /\ SignedInv

LEMMA InitFormat == TextInit => FormatInv
<1> SUFFICES ASSUME TextInit PROVE FormatInv
  OBVIOUS
<1>1. result = -1 /\ NUL \in Nat
  BY DEF TextInit, NUL
<1>2. fn \in Formatters => buf = [i \in 0 .. Sizes[fn] - 1 |-> NUL]
  BY DEF TextInit
<1>3. HexInv
  <2> SUFFICES ASSUME fn \in {"zhex32_to_str", "hex32_to_str"} PROVE HexInv
    BY DEF HexInv
  <2>1. fn \in Formatters /\ Sizes[fn] = 10
    BY FormattersAre
  <2>2. buf = [i \in 0 .. 10 - 1 |-> NUL]
    BY <1>2, <2>1
  <2>3. buf \in [0 .. 9 -> Nat] /\ buf[8] = NUL
    BY <1>1, <2>2
  <2>4. QED
    BY <1>1, <2>3 DEF HexInv
<1>4. UnsignedInv
  <2> SUFFICES ASSUME fn = "u32_to_str" PROVE UnsignedInv
    BY DEF UnsignedInv
  <2>1. fn \in Formatters /\ Sizes[fn] = 12
    BY FormattersAre
  <2>2. buf = [i \in 0 .. 12 - 1 |-> NUL]
    BY <1>2, <2>1
  <2>3. buf \in [0 .. 11 -> Nat] /\ buf[10] = NUL
    BY <1>1, <2>2
  <2>4. QED
    BY <1>1, <2>3 DEF UnsignedInv
<1>5. fn \in {"ulong_to_string", "s32_to_str"} => buf \in [0 .. 12 -> Nat] /\ buf[11] = NUL
  <2> SUFFICES ASSUME fn \in {"ulong_to_string", "s32_to_str"}
               PROVE  buf \in [0 .. 12 -> Nat] /\ buf[11] = NUL
    OBVIOUS
  <2>1. fn \in Formatters /\ Sizes[fn] = 13
    BY FormattersAre
  <2>2. buf = [i \in 0 .. 13 - 1 |-> NUL]
    BY <1>2, <2>1
  <2>3. QED
    BY <1>1, <2>2
<1>6. QED
  BY <1>1, <1>3, <1>4, <1>5 DEF FormatInv, DottedInv, SignedInv

LEMMA HexStep ==
    ASSUME HexInv, NEW v \in Words, Format(v), fn \in {"zhex32_to_str", "hex32_to_str"}
    PROVE  HexInv'
<1> DEFINE b == hex32_to_str(v, buf).b
<1>1. v \in Long
  BY WordsAssumption DEF Long
<1>2. buf \in [0 .. 9 -> Nat] /\ buf[8] = NUL
  BY DEF HexInv
<1>3. \A i \in 0 .. 7 : Nibble(v, i) \in 0 .. 15
  <2>1. v.hi \in Nat /\ v.lo \in Nat
    BY <1>1, LongFacts
  <2>2. \A y \in Nat : /\ y % 16 \in 0 .. 15 /\ y \div 16 \in Nat
                       /\ y \div 256 \in Nat /\ y \div 4096 \in Nat
    BY SMT
  <2>3. \A i \in 0 .. 7 : i = 0 \/ i = 1 \/ i = 2 \/ i = 3 \/ i = 4 \/ i = 5 \/ i = 6 \/ i = 7
    OBVIOUS
  <2>4. QED
    BY <1>1, <2>1, <2>2, <2>3, NibblesOf
<1>4. b = [i \in 0 .. 9 |-> IF i < 8 THEN HexChar(Nibble(v, i)) ELSE buf[i]]
  BY <1>2 DEF hex32_to_str
<1> HIDE DEF b
<1>5. b \in [0 .. 9 -> Nat] /\ b[8] = NUL /\ HexAt(b, v)
  <2>1. \A i \in 0 .. 9 : (i < 8 => i \in 0 .. 7) /\ (i \in 0 .. 7 => i < 8)
    OBVIOUS
  <2>2. \A g \in 0 .. 15 : HexChar(g) \in Nat
    BY DEF HexChar
  <2>3. \A i \in 0 .. 9 : (IF i < 8 THEN HexChar(Nibble(v, i)) ELSE buf[i]) \in Nat
    BY <1>2, <1>3, <2>1, <2>2
  <2>4. b \in [0 .. 9 -> Nat]
    BY <1>4, <2>3
  <2>5. b[8] = NUL /\ \A i \in 0 .. 7 : b[i] = HexChar(Nibble(v, i))
    BY <1>2, <1>4, <2>1
  <2>6. QED
    BY <1>1, <2>4, <2>5 DEF HexAt
<1>6. fn' = fn /\ arg' = v /\ result' = Formatted(v).p /\ buf' = Formatted(v).b
  BY DEF Format
<1>7. CASE fn = "hex32_to_str"
  <2>1. Formatted(v) = hex32_to_str(v, buf)
    BY <1>7 DEF Formatted
  <2>2. result' = 0 /\ buf' = b
    BY <1>6, <2>1 DEF hex32_to_str, b
  <2>3. QED
    BY <1>5, <1>6, <1>7, <2>2 DEF HexInv
<1>8. CASE fn = "zhex32_to_str"
  <2> DEFINE First(i) == Nibble(v, i) # 0 /\ \A j \in 0 .. i - 1 : Nibble(v, j) = 0
             p == CHOOSE i \in 0 .. 7 : First(i)
  <2>1. Formatted(v) = zhex32_to_str(v, buf)
    BY <1>8 DEF Formatted
  <2>2. buf' = b /\ (v # Zero => result' = p)
    BY <1>6, <2>1 DEF zhex32_to_str, b
  <2>3. v # Zero => \E i \in 0 .. 7 : First(i)
    <3> SUFFICES ASSUME v # Zero PROVE \E i \in 0 .. 7 : First(i)
      OBVIOUS
    <3> DEFINE T == {i \in 0 .. 7 : Nibble(v, i) # 0}
    <3>1. T # {}
      <4> SUFFICES ASSUME T = {} PROVE FALSE
        OBVIOUS
      <4>1. PICK d : Quotients(d, Val(v), 16, 8)
        <5>1. 16 \in {10, 16} /\ 8 \in Nat /\ Val(v) \in Nat
          BY <1>1, LongFacts
        <5>2. QED
          BY <5>1, QuotientsExist
      <4>2. 8 \in 0 .. 8 /\ \A j \in 0 .. 8 - 1 : Nibble(v, j) = 0
        OBVIOUS
      <4>3. d[8 - 8] = 0
        BY <1>1, <4>1, <4>2, Leading
      <4>4. Val(v) = 0
        BY <4>1, <4>3 DEF Quotients
      <4>5. QED
        BY <1>1, <4>4, ZeroLong
    <3>2. PICK i \in T : \A j \in T : i <= j
      <4>1. T \in SUBSET Nat
        OBVIOUS
      <4> HIDE DEF T
      <4>2. QED
        BY <3>1, <4>1, FirstOne
    <3>3. i \in 0 .. 7 /\ Nibble(v, i) # 0
      OBVIOUS
    <3>4. \A j \in 0 .. i - 1 : j \in 0 .. 7 /\ ~ (i <= j)
      BY <3>3
    <3>5. \A j \in 0 .. i - 1 : Nibble(v, j) = 0
      BY <3>2, <3>4
    <3>6. QED
      BY <3>3, <3>5
  <2>4. v # Zero => p \in 0 .. 7 /\ First(p)
    <3> HIDE DEF First
    <3>1. QED
      BY <2>3
  <2> HIDE DEF p
  <2>5. v # Zero => result' \in 0 .. 7 /\ Nibble(v, result') # 0
                    /\ \A j \in 0 .. result' - 1 : Nibble(v, j) = 0
    BY <2>2, <2>4
  <2>6. QED
    BY <1>5, <1>6, <1>8, <2>2, <2>5 DEF HexInv
<1>9. QED
  BY <1>7, <1>8

LEMMA UnsignedStep ==
    ASSUME UnsignedInv, NEW v \in Words, Format(v), fn = "u32_to_str"
    PROVE  UnsignedInv'
<1> DEFINE R == Digits(v, buf, 9, FALSE, FALSE)
<1>1. v \in Long
  BY WordsAssumption DEF Long
<1>2. buf \in [0 .. 11 -> Nat] /\ buf[10] = NUL
  BY DEF UnsignedInv
<1>3. /\ R.b \in [0 .. 11 -> Nat] /\ R.p \in Int /\ R.b[10] = buf[10]
      /\ Undotted(R.b, R.p, Val(v), 9)
  <2>1. 11 \in Nat /\ 9 \in Nat /\ 9 >= 9 /\ 9 < 11 /\ 9 + 1 = 10
    OBVIOUS
  <2>2. /\ R.b \in [0 .. 11 -> Nat] /\ R.p \in Int /\ R.b[9 + 1] = buf[9 + 1]
        /\ Undotted(R.b, R.p, Val(v), 9)
    BY ONLY <1>1, <1>2, <2>1, PlainWritten
  <2> HIDE DEF R
  <2>3. QED
    BY <2>1, <2>2
<1>4. Formatted(v) = R
  BY DEF Formatted, u32_to_str
<1> HIDE DEF R
<1>5. fn' = fn /\ arg' = v /\ result' = R.p /\ buf' = R.b
  BY <1>4 DEF Format
<1>6. QED
  BY <1>1, <1>2, <1>3, <1>5 DEF UnsignedInv

LEMMA DottedStep ==
    ASSUME DottedInv, NEW v \in Words, Format(v), fn = "ulong_to_string"
    PROVE  DottedInv'
<1> DEFINE R == Digits(v, buf, 10, TRUE, FALSE)
<1>1. v \in Long
  BY WordsAssumption DEF Long
<1>2. buf \in [0 .. 12 -> Nat] /\ buf[11] = NUL
  BY DEF DottedInv
<1>3. /\ R.b \in [0 .. 12 -> Nat] /\ R.p \in Int /\ R.b[11] = buf[11]
      /\ Dotted(R.b, R.p, Val(v), 10)
  <2>1. 12 \in Nat /\ 10 \in Nat /\ 10 >= 10 /\ 10 < 12 /\ 10 + 1 = 11
    OBVIOUS
  <2>2. /\ R.b \in [0 .. 12 -> Nat] /\ R.p \in Int /\ R.b[10 + 1] = buf[10 + 1]
        /\ Dotted(R.b, R.p, Val(v), 10)
    BY ONLY <1>1, <1>2, <2>1, DottedWritten
  <2> HIDE DEF R
  <2>3. QED
    BY <2>1, <2>2
<1>4. Formatted(v) = R
  BY DEF Formatted, ulong_to_string
<1> HIDE DEF R
<1>5. fn' = fn /\ arg' = v /\ result' = R.p /\ buf' = R.b
  BY <1>4 DEF Format
<1>6. QED
  BY <1>1, <1>2, <1>3, <1>5 DEF DottedInv

LEMMA SignedStep ==
    ASSUME SignedInv, NEW v \in Words, Format(v), fn = "s32_to_str"
    PROVE  SignedInv'
<1>1. v \in Long
  BY WordsAssumption DEF Long
<1>2. buf \in [0 .. 12 -> Nat] /\ buf[11] = NUL
  BY DEF SignedInv
<1>3. Formatted(v) = s32_to_str(v, buf)
  BY DEF Formatted
<1>4. fn' = fn /\ arg' = v /\ result' = s32_to_str(v, buf).p /\ buf' = s32_to_str(v, buf).b
  BY <1>3 DEF Format
<1>5. Wrong(v)' <=> v = [hi |-> Half \div 2, lo |-> 0]
  BY <1>4 DEF Wrong
<1>6. 12 \in Nat /\ 10 \in Nat /\ 10 >= 10 /\ 10 >= 9 /\ 10 < 12 /\ 10 + 1 = 11
  OBVIOUS
<1>7. CASE ~ Negative(v)
  <2> DEFINE R == Digits(v, buf, 10, FALSE, FALSE)
  <2>1. /\ R.b \in [0 .. 12 -> Nat] /\ R.p \in Int /\ R.b[10 + 1] = buf[10 + 1]
        /\ Undotted(R.b, R.p, Val(v), 10)
    BY ONLY <1>1, <1>2, <1>6, PlainWritten
  <2>2. s32_to_str(v, buf) = R
    BY <1>7 DEF s32_to_str
  <2> HIDE DEF R
  <2>3. result' = R.p /\ buf' = R.b /\ arg' = v /\ fn' = fn
    BY <1>4, <2>2
  <2>4. ~ Negative(arg')
    BY <1>7, <2>3
  <2>5. QED
    BY <1>1, <1>2, <1>6, <2>1, <2>3, <2>4 DEF SignedInv
<1>8. CASE Negative(v)
  <2> DEFINE w == Negated(v)
             negative == Negative(w)
             R == Digits(w, buf, 10, FALSE, negative)
             c == Put(R.b, R.p - 1, Minus)
  <2>1. w \in Long /\ (v # [hi |-> Half \div 2, lo |-> 0] => ~ negative)
    BY <1>1, <1>8, NegatedLong
  <2>2. s32_to_str(v, buf) = [b |-> c, p |-> R.p - 1]
    BY <1>8 DEF s32_to_str
  <2> HIDE DEF R, c, w, negative
  <2>3. result' = R.p - 1 /\ buf' = c /\ arg' = v /\ fn' = fn
    BY <1>4, <2>2
  <2>4. R.b \in [0 .. 12 -> Nat] /\ R.p \in Int /\ R.p <= 10 /\ R.b[11] = NUL
    <3> DEFINE dotted == FALSE  D == 0 .. 12
    <3>1. R = Digits(w, buf, 10, dotted, negative)
      BY DEF R
    <3>2. dotted \in BOOLEAN /\ negative \in BOOLEAN /\ buf \in [D -> Nat] /\ 10 \in Int
          /\ 11 \in D /\ 11 \in Int /\ 11 > 10
      BY <1>2 DEF negative, Negative
    <3> HIDE DEF dotted, D
    <3>3. LeftAlone(R, D, buf, 10)
      BY ONLY <2>1, <3>1, <3>2, DigitsKept
    <3>4. QED
      BY <1>2, <3>2, <3>3 DEF LeftAlone, D
  <2>5. c \in [0 .. 12 -> Nat] /\ c[11] = NUL
    <3>1. 45 \in Nat /\ Minus = 45 /\ R.p - 1 # 11
      BY <2>4 DEF Minus
    <3>2. \A i, z : z \in Nat => Put(R.b, i, z) \in [0 .. 12 -> Nat]
      BY <2>4 DEF Put
    <3>3. \A i, z : i # 11 => Put(R.b, i, z)[11] = R.b[11]
      BY <2>4 DEF Put
    <3>4. QED
      BY <2>4, <3>1, <3>2, <3>3 DEF c
  <2>6. CASE v # [hi |-> Half \div 2, lo |-> 0]
    <3>1. R = Digits(w, buf, 10, FALSE, FALSE)
      <4>1. negative = FALSE
        BY <2>1, <2>6 DEF negative, Negative
      <4>2. QED
        BY <4>1 DEF R
    <3>2. Undotted(R.b, R.p, Val(w), 10)
      BY ONLY <1>2, <1>6, <2>1, <3>1, PlainWritten
    <3>3. R.p \in 1 .. 10 /\ c[R.p - 1] = Minus /\ Undotted(c, R.p, Val(w), 10)
      BY ONLY <1>6, <2>4, <3>2, MinusBefore DEF c
    <3>4. (R.p - 1) + 1 = R.p /\ R.p - 1 \in 0 .. 9
      BY <2>4, <3>3
    <3>5. arg' \in Long /\ Negative(arg') /\ Negated(arg') = w
      BY <1>1, <1>8, <2>3 DEF w
    <3>6. QED
      BY <2>3, <2>5, <3>3, <3>4, <3>5 DEF SignedInv
  <2>7. CASE v = [hi |-> Half \div 2, lo |-> 0]
    BY <1>5, <2>3, <2>5, <2>7 DEF SignedInv
  <2>8. QED
    BY <2>6, <2>7
<1>9. QED
  BY <1>7, <1>8

LEMMA NextFormat == FormatInv /\ [TextNext]_textVars => FormatInv'
<1> SUFFICES ASSUME FormatInv, [TextNext]_textVars PROVE FormatInv'
  OBVIOUS
<1>1. CASE \E v \in Words : Format(v)
  <2>1. PICK v \in Words : Format(v)
    BY <1>1
  <2>2. fn \in Formatters /\ fn' = fn
    BY <2>1 DEF Format
  <2>3. CASE fn \in {"zhex32_to_str", "hex32_to_str"}
    <3>1. HexInv'
      BY <2>1, <2>3, HexStep DEF FormatInv
    <3>2. QED
      BY <2>2, <2>3, <3>1 DEF FormatInv, UnsignedInv, DottedInv, SignedInv
  <2>4. CASE fn = "u32_to_str"
    <3>1. UnsignedInv'
      BY <2>1, <2>4, UnsignedStep DEF FormatInv
    <3>2. QED
      BY <2>2, <2>4, <3>1 DEF FormatInv, HexInv, DottedInv, SignedInv
  <2>5. CASE fn = "ulong_to_string"
    <3>1. DottedInv'
      BY <2>1, <2>5, DottedStep DEF FormatInv
    <3>2. QED
      BY <2>2, <2>5, <3>1 DEF FormatInv, HexInv, UnsignedInv, SignedInv
  <2>6. CASE fn = "s32_to_str"
    <3>1. SignedInv'
      BY <2>1, <2>6, SignedStep DEF FormatInv
    <3>2. QED
      BY <2>2, <2>6, <3>1 DEF FormatInv, HexInv, UnsignedInv, DottedInv
  <2>7. QED
    BY <2>2, <2>3, <2>4, <2>5, <2>6, FormattersAre
<1>2. CASE \/ \E a, b \in Strings, n \in 1 .. MaxLength + 1 : Compare(a, b, n)
           \/ \E s \in Strings : Copy(s)
           \/ \E v \in Squares : Sqrt(v)
  <2>1. fn' = fn /\ fn \in {"strcmp", "strcmpn", "strcpy", "sqrt_rnd"}
    BY <1>2 DEF Compare, Comparisons, Copy, Sqrt
  <2>2. QED
    BY <2>1 DEF FormatInv, HexInv, UnsignedInv, DottedInv, SignedInv
<1>3. CASE UNCHANGED textVars
  <2>1. fn' = fn /\ arg' = arg /\ result' = result /\ buf' = buf
    BY <1>3 DEF textVars
  <2>2. HexInv' /\ UnsignedInv' /\ DottedInv'
    BY <2>1 DEF FormatInv, HexInv, UnsignedInv, DottedInv
  <2>3. SignedInv'
    BY <2>1 DEF FormatInv, SignedInv, Wrong
  <2>4. QED
    BY <2>2, <2>3 DEF FormatInv
<1>4. QED
  BY <1>1, <1>2, <1>3 DEF TextNext

LEMMA HexBack ==
    ASSUME HexInv, fn \in {"zhex32_to_str", "hex32_to_str"}, result >= 0, ~ Wrong(arg),
           result # -1
    PROVE  LET s == TextAt(result) IN
           /\ result + Len(s) \in DOMAIN buf
           /\ \A i \in DOMAIN s : s[i] \in 48 .. 57 \cup 65 .. 70
           /\ Number(s, 16) = arg
           /\ IF fn = "hex32_to_str" THEN Len(s) = 8 ELSE Len(s) = 1 \/ s[1] # 48
<1> DEFINE t == Chunk(buf, result, 8)
<1>1. /\ buf \in [0 .. 9 -> Nat] /\ buf[8] = NUL
      /\ arg \in Long /\ \A i \in 0 .. 7 : buf[i] = HexChar(Nibble(arg, i))
  BY DEF HexInv, HexAt
<1>2. /\ result \in 0 .. 7 /\ \A j \in 0 .. result - 1 : Nibble(arg, j) = 0
      /\ fn = "hex32_to_str" => result = 0
      /\ fn # "hex32_to_str" => Nibble(arg, result) # 0
  BY DEF HexInv, Wrong
<1>3. /\ Len(t) = 8 - result /\ \A j \in result .. 7 : buf[j] # NUL
      /\ Number(t, 16) = arg
      /\ \A j \in DOMAIN t : t[j] \in 48 .. 57 \cup 65 .. 70
      /\ t[1] = 48 => Nibble(arg, result) = 0
  BY <1>1, <1>2, HexReads
<1>4. TextAt(result) = t
  <2> DEFINE N == 10  e == 8  p == result
  <2>1. /\ N \in Nat /\ DOMAIN buf = 0 .. N - 1 /\ p \in Nat /\ e \in Nat /\ p <= e /\ e < N
        /\ buf[e] = NUL /\ \A j \in p .. e - 1 : buf[j] # NUL
    BY <1>1, <1>2, <1>3
  <2> HIDE DEF N, e, p
  <2>2. TextAt(p) = Chunk(buf, p, e)
    BY <2>1, TextIs
  <2>3. QED
    BY <2>2 DEF e, p
<1> HIDE DEF t
<1>5. result + Len(t) = 8 /\ 8 \in DOMAIN buf /\ (result = 0 => Len(t) = 8)
  BY <1>1, <1>2, <1>3
<1>6. QED
  BY <1>2, <1>3, <1>4, <1>5

LEMMA PlainBack ==
    ASSUME NEW N \in Nat, buf \in [0 .. N -> Nat], NEW end \in Nat, end >= 9, end < N,
           buf[end + 1] = NUL, NEW x \in Nat, x < Limit, NEW p, Undotted(buf, p, x, end)
    PROVE  LET t == TextAt(p) IN
           p \in 0 .. end /\ Len(t) = end + 1 - p /\ ReadsAs(t, x)
<1> DEFINE t == Chunk(buf, p, end + 1)
<1>1. PICK dotted \in BOOLEAN : ~ dotted /\ DigitsAt(buf, p, x, end, dotted)
  BY DEF Undotted
<1>2. /\ p \in 0 .. end /\ Len(t) = end + 1 - p /\ DOMAIN t = 1 .. end + 1 - p
      /\ \A j \in p .. end : buf[j] \in 48 .. 57
      /\ ReadsAs(t, x)
  BY <1>1, PlainReads
<1>3. TextAt(p) = t
  <2> DEFINE n == N + 1  e == end + 1
  <2>1. /\ n \in Nat /\ DOMAIN buf = 0 .. n - 1 /\ p \in Nat /\ e \in Nat /\ p <= e /\ e < n
        /\ buf[e] = NUL /\ \A j \in p .. e - 1 : buf[j] # NUL
    <3>1. (end + 1) - 1 = end /\ \A c \in 48 .. 57 : c # NUL
      BY DEF NUL
    <3>2. \A j \in p .. end : buf[j] # NUL
      BY <1>2, <3>1
    <3>3. QED
      BY <1>2, <3>1, <3>2
  <2> HIDE DEF n, e
  <2>2. TextAt(p) = Chunk(buf, p, e)
    BY <2>1, TextIs
  <2>3. QED
    BY <2>2 DEF e
<1>4. QED
  BY <1>2, <1>3

LEMMA DottedBack ==
    ASSUME NEW N \in Nat, buf \in [0 .. N -> Nat], NEW end \in Nat, end >= 10, end < N,
           buf[end + 1] = NUL, NEW x \in Nat, x < Limit, NEW p, Dotted(buf, p, x, end)
    PROVE  LET s == TextAt(p)
               t == IF Len(s) > 3 THEN SubSeq(s, 1, Len(s) - 4) \o SubSeq(s, Len(s) - 2, Len(s))
                    ELSE s
           IN /\ p \in 0 .. end /\ Len(s) = end + 1 - p
              /\ Len(s) > 3 => s[Len(s) - 3] = Dot
              /\ ReadsAs(t, x)
<1> DEFINE s == Chunk(buf, p, end + 1)
           t == IF Len(s) > 3 THEN SubSeq(s, 1, Len(s) - 4) \o SubSeq(s, Len(s) - 2, Len(s))
                ELSE s
<1>1. PICK dotted \in BOOLEAN : dotted /\ DigitsAt(buf, p, x, end, dotted)
  BY DEF Dotted
<1>2. /\ p \in 0 .. end /\ Len(s) = end + 1 - p
      /\ \A j \in p .. end : buf[j] # NUL
      /\ Len(s) > 3 => s[Len(s) - 3] = Dot
      /\ ReadsAs(t, x)
  BY <1>1, DottedReads
<1>3. TextAt(p) = s
  <2> DEFINE n == N + 1  e == end + 1
  <2>1. /\ n \in Nat /\ DOMAIN buf = 0 .. n - 1 /\ p \in Nat /\ e \in Nat /\ p <= e /\ e < n
        /\ buf[e] = NUL /\ \A j \in p .. e - 1 : buf[j] # NUL
    BY <1>2
  <2> HIDE DEF n, e
  <2>2. TextAt(p) = Chunk(buf, p, e)
    BY <2>1, TextIs
  <2>3. QED
    BY <2>2 DEF e
<1>4. QED
  BY <1>2, <1>3

LEMMA MinusBack ==
    ASSUME NEW N \in Nat, buf \in [0 .. N -> Nat], NEW end \in Nat, end >= 10, end < N,
           buf[end + 1] = NUL, NEW x \in Nat, x < Limit, NEW p, NEW q, q = p + 1,
           Undotted(buf, q, x, end), p \in 0 .. end - 1, buf[p] = Minus
    PROVE  LET s == TextAt(p) IN
           /\ Len(s) = end + 1 - p /\ s[1] = Minus /\ ReadsAs(Tail(s), x)
<1> DEFINE t == Chunk(buf, q, end + 1)  s == Chunk(buf, p, end + 1)
<1>1. PICK dotted \in BOOLEAN : ~ dotted /\ DigitsAt(buf, q, x, end, dotted)
  BY DEF Undotted
<1>2. q \in 0 .. end /\ p \in Nat
  OBVIOUS
<1>3. /\ Len(t) = end + 1 - q /\ DOMAIN t = 1 .. end + 1 - q
      /\ \A j \in q .. end : buf[j] \in 48 .. 57
      /\ ReadsAs(t, x)
  <2>1. end >= 9
    OBVIOUS
  <2>2. QED
    BY ONLY x \in Nat, x < Limit, end \in Nat, dotted \in BOOLEAN, <1>1, <2>1, PlainReads
<1>4. TextAt(p) = s
  <2> DEFINE n == N + 1  e == end + 1
  <2>1. /\ n \in Nat /\ DOMAIN buf = 0 .. n - 1 /\ p \in Nat /\ e \in Nat /\ p <= e /\ e < n
        /\ buf[e] = NUL /\ \A j \in p .. e - 1 : buf[j] # NUL
    <3>1. \A j \in p .. end : j = p \/ j \in q .. end
      BY <1>2
    <3>2. (end + 1) - 1 = end
      OBVIOUS
    <3>3. \A j \in p .. end : buf[j] # NUL
      <4>1. \A c \in 48 .. 57 \cup {Minus} : c # NUL
        BY DEF NUL, Minus
      <4>2. QED
        BY <1>3, <3>1, <4>1
    <3>4. QED
      BY <1>2, <3>2, <3>3
  <2> HIDE DEF n, e
  <2>2. TextAt(p) = Chunk(buf, p, e)
    BY <2>1, TextIs
  <2>3. QED
    BY <2>2 DEF e
<1>5. Len(s) = end + 1 - p /\ s[1] = Minus /\ Tail(s) = t
  <2> DEFINE e == end + 1  k == e - p
  <2>1. e \in Nat /\ p <= e /\ k \in Nat /\ k > 1 /\ e - q = k - 1
    BY <1>2
  <2>2. s = Chunk(buf, p, e) /\ t = Chunk(buf, q, e)
    OBVIOUS
  <2> HIDE DEF e, s, t
  <2>3. /\ Len(s) = k /\ DOMAIN s = 1 .. k /\ \A i \in 1 .. k : s[i] = buf[p + i - 1]
    <3>1. /\ Len(Chunk(buf, p, e)) = e - p /\ DOMAIN Chunk(buf, p, e) = 1 .. e - p
          /\ \A i \in 1 .. e - p : Chunk(buf, p, e)[i] = buf[p + i - 1]
      <4>1. p \in Nat /\ e \in Nat /\ p <= e
        BY <1>2, <2>1
      <4> HIDE DEF k
      <4>2. QED
        BY ONLY <4>1, ChunkFacts
    <3>2. QED
      BY <2>2, <3>1
  <2>4. s = [i \in 1 .. k |-> buf[p + i - 1]]
    BY <2>2 DEF Chunk
  <2>5. t = [i \in 1 .. k - 1 |-> buf[q + i - 1]]
    BY <2>1, <2>2 DEF Chunk
  <2>6. Tail(s) = [i \in 1 .. k - 1 |-> s[i + 1]]
    <3> HIDE DEF k
    <3>1. QED
      BY <2>1, <2>3, <2>4
  <2>7. \A i \in 1 .. k - 1 : s[i + 1] = buf[q + i - 1]
    <3>1. \A i \in 1 .. k - 1 : i + 1 \in 1 .. k /\ p + (i + 1) - 1 = q + i - 1
      BY <1>2, <2>1
    <3> HIDE DEF k
    <3>2. QED
      BY <2>3, <3>1
  <2>8. s[1] = Minus
    <3>1. 1 \in 1 .. k /\ p + 1 - 1 = p
      BY <1>2, <2>1
    <3>2. QED
      BY <2>3, <3>1
  <2> HIDE DEF k
  <2>9. Tail(s) = t
    BY <2>5, <2>6, <2>7
  <2>10. QED
    BY <2>3, <2>8, <2>9 DEF k, e
<1>6. QED
  BY <1>3, <1>4, <1>5

LEMMA SameNumber ==
    ASSUME NEW v \in Long, NEW t, ReadsAs(t, Val(v))
    PROVE  /\ Number(t, 10) = v /\ \A i \in DOMAIN t : t[i] \in 48 .. 57 \cup 65 .. 70
           /\ Len(t) = 1 \/ t[1] # 48
<1>1. Number(t, 10) \in Long /\ Val(Number(t, 10)) = Val(v)
  BY DEF ReadsAs
<1>2. Number(t, 10) = v
  BY <1>1, SameLong
<1>3. QED
  BY <1>2 DEF ReadsAs

(* What is known of the buffer is enough to read the number back. *)
LEMMA ReadBack == FormatInv => NumbersReadBack
<1> DEFINE s == TextAt(result)
           base == IF fn \in {"zhex32_to_str", "hex32_to_str"} THEN 16 ELSE 10
           minus == fn = "s32_to_str" /\ Negative(arg)
           dotted == fn = "ulong_to_string" /\ Len(s) > 3
           digits == IF dotted THEN SubSeq(s, 1, Len(s) - 4) \o SubSeq(s, Len(s) - 2, Len(s))
                     ELSE IF minus THEN Tail(s) ELSE s
           Goal == /\ result + Len(s) \in DOMAIN buf
                   /\ dotted => s[Len(s) - 3] = Dot
                   /\ minus => s[1] = Minus
                   /\ \A i \in DOMAIN digits : digits[i] \in 48 .. 57 \cup 65 .. 70
                   /\ Number(digits, base) = IF minus THEN Negated(arg) ELSE arg
                   /\ IF fn = "hex32_to_str" THEN Len(digits) = 8
                      ELSE Len(digits) = 1 \/ digits[1] # 48
<1> SUFFICES ASSUME FormatInv, fn \in Formatters, result >= 0, ~ Wrong(arg)
             PROVE  Goal
  BY DEF NumbersReadBack
<1>0. result # -1
  OBVIOUS
<1>2. CASE fn \in {"zhex32_to_str", "hex32_to_str"}
  <2>1. HexInv
    BY DEF FormatInv
  <2>2. /\ result + Len(s) \in DOMAIN buf
        /\ \A i \in DOMAIN s : s[i] \in 48 .. 57 \cup 65 .. 70
        /\ Number(s, 16) = arg
        /\ IF fn = "hex32_to_str" THEN Len(s) = 8 ELSE Len(s) = 1 \/ s[1] # 48
    BY <1>0, <1>2, <2>1, HexBack
  <2>3. base = 16 /\ ~ minus /\ ~ dotted
    BY <1>2
  <2>4. digits = s
    BY <2>3
  <2> HIDE DEF digits, minus, dotted, base, s
  <2>5. QED
    BY <2>2, <2>3, <2>4
<1>3. CASE fn = "u32_to_str"
  <2>1. /\ buf \in [0 .. 11 -> Nat] /\ buf[10] = NUL
        /\ arg \in Long /\ Undotted(buf, result, Val(arg), 9)
    BY <1>0, <1>3 DEF FormatInv, UnsignedInv
  <2>2. result \in 0 .. 9 /\ Len(s) = 9 + 1 - result /\ ReadsAs(s, Val(arg))
    <3>1. 11 \in Nat /\ 9 \in Nat /\ 9 >= 9 /\ 9 < 11 /\ 9 + 1 = 10
      OBVIOUS
    <3>2. Val(arg) \in Nat /\ Val(arg) < Limit
      BY <2>1, LongFacts, LongLimit
    <3>3. buf[9 + 1] = NUL
      BY <2>1, <3>1
    <3>4. QED
      BY ONLY <2>1, <3>1, <3>2, <3>3, PlainBack
  <2>3. base = 10 /\ ~ minus /\ ~ dotted /\ fn # "hex32_to_str"
    BY <1>3
  <2>4. digits = s
    BY <2>3
  <2>5. result + Len(s) = 10 /\ 10 \in DOMAIN buf
    <3> HIDE DEF s
    <3>1. QED
      BY <2>1, <2>2
  <2> HIDE DEF digits, minus, dotted, base, s
  <2>6. /\ Number(s, 10) = arg /\ \A i \in DOMAIN s : s[i] \in 48 .. 57 \cup 65 .. 70
        /\ Len(s) = 1 \/ s[1] # 48
    BY ONLY <2>1, <2>2, SameNumber
  <2>7. QED
    BY <2>3, <2>4, <2>5, <2>6
<1>4. CASE fn = "ulong_to_string"
  <2> DEFINE t == IF Len(s) > 3
                  THEN SubSeq(s, 1, Len(s) - 4) \o SubSeq(s, Len(s) - 2, Len(s)) ELSE s
  <2>1. /\ buf \in [0 .. 12 -> Nat] /\ buf[11] = NUL
        /\ arg \in Long /\ Dotted(buf, result, Val(arg), 10)
    BY <1>0, <1>4 DEF FormatInv, DottedInv
  <2>2. /\ result \in 0 .. 10 /\ Len(s) = 10 + 1 - result /\ ReadsAs(t, Val(arg))
        /\ Len(s) > 3 => s[Len(s) - 3] = Dot
    <3>1. 12 \in Nat /\ 10 \in Nat /\ 10 >= 10 /\ 10 < 12 /\ 10 + 1 = 11
      OBVIOUS
    <3>2. Val(arg) \in Nat /\ Val(arg) < Limit
      BY <2>1, LongFacts, LongLimit
    <3>3. buf[10 + 1] = NUL
      BY <2>1, <3>1
    <3>4. QED
      BY ONLY <2>1, <3>1, <3>2, <3>3, DottedBack
  <2>3. base = 10 /\ ~ minus /\ (dotted <=> Len(s) > 3) /\ fn # "hex32_to_str"
    BY <1>4
  <2>4. digits = t
    BY <2>3
  <2>5. result + Len(s) = 11 /\ 11 \in DOMAIN buf
    <3> HIDE DEF s
    <3>1. QED
      BY <2>1, <2>2
  <2> HIDE DEF digits, minus, dotted, base, s, t
  <2>6. /\ Number(t, 10) = arg /\ \A i \in DOMAIN t : t[i] \in 48 .. 57 \cup 65 .. 70
        /\ Len(t) = 1 \/ t[1] # 48
    BY ONLY <2>1, <2>2, SameNumber
  <2>7. QED
    BY <2>2, <2>3, <2>4, <2>5, <2>6
<1>5. CASE fn = "s32_to_str" /\ ~ Negative(arg)
  <2>1. /\ buf \in [0 .. 12 -> Nat] /\ buf[11] = NUL
        /\ arg \in Long /\ Undotted(buf, result, Val(arg), 10)
    BY <1>0, <1>5 DEF FormatInv, SignedInv
  <2>2. result \in 0 .. 10 /\ Len(s) = 10 + 1 - result /\ ReadsAs(s, Val(arg))
    <3>1. 12 \in Nat /\ 10 \in Nat /\ 10 >= 9 /\ 10 < 12 /\ 10 + 1 = 11
      OBVIOUS
    <3>2. Val(arg) \in Nat /\ Val(arg) < Limit
      BY <2>1, LongFacts, LongLimit
    <3>3. buf[10 + 1] = NUL
      BY <2>1, <3>1
    <3>4. QED
      BY ONLY <2>1, <3>1, <3>2, <3>3, PlainBack
  <2>3. base = 10 /\ ~ minus /\ ~ dotted /\ fn # "hex32_to_str"
    BY <1>5
  <2>4. digits = s
    BY <2>3
  <2>5. result + Len(s) = 11 /\ 11 \in DOMAIN buf
    <3> HIDE DEF s
    <3>1. QED
      BY <2>1, <2>2
  <2> HIDE DEF digits, minus, dotted, base, s
  <2>6. /\ Number(s, 10) = arg /\ \A i \in DOMAIN s : s[i] \in 48 .. 57 \cup 65 .. 70
        /\ Len(s) = 1 \/ s[1] # 48
    BY ONLY <2>1, <2>2, SameNumber
  <2>7. QED
    BY <2>3, <2>4, <2>5, <2>6
<1>6. CASE fn = "s32_to_str" /\ Negative(arg)
  <2> DEFINE w == Negated(arg)
  <2>1. /\ buf \in [0 .. 12 -> Nat] /\ buf[11] = NUL
        /\ arg \in Long /\ buf[result] = Minus /\ result \in 0 .. 9
        /\ Undotted(buf, result + 1, Val(w), 10)
    BY <1>0, <1>6 DEF FormatInv, SignedInv
  <2>2. w \in Long /\ result \in 0 .. 9
    BY <2>1, NegatedLong
  <2> HIDE DEF w
  <2>3. Len(s) = 10 + 1 - result /\ s[1] = Minus /\ ReadsAs(Tail(s), Val(w))
    <3>1. 12 \in Nat /\ 10 \in Nat /\ 10 >= 10 /\ 10 < 12 /\ 10 + 1 = 11 /\ 10 - 1 = 9
      OBVIOUS
    <3>2. Val(w) \in Nat /\ Val(w) < Limit
      BY <2>2, LongFacts, LongLimit
    <3>3. buf[10 + 1] = NUL /\ result \in 0 .. 10 - 1
      BY <2>1, <2>2, <3>1
    <3>4. QED
      <4> DEFINE q == result + 1
      <4>1. q = result + 1 /\ Undotted(buf, q, Val(w), 10)
        BY <2>1
      <4> HIDE DEF q
      <4>2. QED
        BY ONLY <2>1, <3>1, <3>2, <3>3, <4>1, MinusBack
  <2>4. base = 10 /\ minus /\ ~ dotted /\ fn # "hex32_to_str"
    BY <1>6
  <2>5. digits = Tail(s)
    BY <2>4
  <2>6. result + Len(s) = 11 /\ 11 \in DOMAIN buf
    <3> HIDE DEF s
    <3>1. QED
      BY <2>1, <2>2, <2>3
  <2> DEFINE t == Tail(s)
  <2> HIDE DEF digits, minus, dotted, base, s, t
  <2>7. /\ Number(t, 10) = w /\ \A i \in DOMAIN t : t[i] \in 48 .. 57 \cup 65 .. 70
        /\ Len(t) = 1 \/ t[1] # 48
    BY ONLY <2>2, <2>3, SameNumber DEF t
  <2>8. digits = t
    BY <2>5 DEF t
  <2>9. QED
    BY <2>3, <2>4, <2>6, <2>7, <2>8 DEF w
<1>7. QED
  BY <1>2, <1>3, <1>4, <1>5, <1>6, FormattersAre

(* A number can be read back from the text that a formatter returned of    *)
(* it: the digits are right, the first one is not 0 unless the function    *)
(* fills up, the sign and the point are in their places, and what longer   *)
(* numbers left in the static buffer is not part of the text.              *)
THEOREM NumbersAreFormatted == TextSpec => []NumbersReadBack
<1>1. TextInit => FormatInv
  BY InitFormat
<1>2. FormatInv /\ [TextNext]_textVars => FormatInv'
  BY NextFormat
<1>3. FormatInv => NumbersReadBack
  BY ReadBack
<1>4. QED
  BY <1>1, <1>2, <1>3, PTL DEF TextSpec
-----------------------------------------------------------------------------
(***************************************************************************)
(* The page of status.  A line shows letters where its texts for one of    *)
(* the readings are, and nothing but blanks elsewhere; wherever the texts  *)
(* of one reading are, those of another one, or their blanks, are too,     *)
(* except for the column behind the timer's value.                         *)
(***************************************************************************)
TextsOf(y, r) == IF y = 8 THEN TimeLine(r) ELSE StatusLines(r)[y + 1]
Covered(texts) == UNION {Span(texts[i]) : i \in DOMAIN texts}
Lettered(texts) == UNION {Span(texts[i]) : i \in {j \in DOMAIN texts : texts[j].what # "blank"}}

LettersInPlace ==
    /\ page = [y \in Lines |-> page[y]]
    /\ \A y \in Lines : \A x \in DOMAIN page[y] :
           page[y][x] = Blank \/ \E q \in Readings : x \in Lettered(TextsOf(y, q))

(* A number has one to ten digits. *)
LEMMA Widths == \A n : Width(n) \in 1 .. 10
<1> SUFFICES ASSUME NEW n PROVE Width(n) \in 1 .. 10
  OBVIOUS
<1> DEFINE D == {k \in 1 .. 9 : n >= 10 ^ k}
<1>1. IsFiniteSet(1 .. 9) /\ Cardinality(1 .. 9) = 9
  <2>1. 1 \in Int /\ 9 \in Int /\ ~ (1 > 9) /\ 9 - 1 + 1 = 9
    OBVIOUS
  <2>2. IsFiniteSet(1 .. 9) /\ Cardinality(1 .. 9) = IF 1 > 9 THEN 0 ELSE 9 - 1 + 1
    BY ONLY <2>1, FS_Interval
  <2>3. QED
    BY <2>1, <2>2
<1>2. Cardinality(D) \in Nat /\ Cardinality(D) <= 9
  BY <1>1, FS_Subset, FS_CardinalityType
<1>3. QED
  BY <1>2 DEF Width

(* Texts in the same columns cover the same columns. *)
SamePlaces(s, t) ==
    DOMAIN s = DOMAIN t /\ \A i \in DOMAIN s : s[i].x = t[i].x /\ s[i].len = t[i].len

LEMMA SameColumns ==
    ASSUME NEW s, NEW t, SamePlaces(s, t)
    PROVE  Lettered(s) \subseteq Covered(t)
BY DEF SamePlaces, Lettered, Covered, Span

LEMMA LineTexts ==
    ASSUME NEW r
    PROVE  /\ TextsOf(1, r) = RoutingLine(r) /\ TextsOf(2, r) = SourcesLine(r)
           /\ TextsOf(3, r) = TimerLine(r) /\ TextsOf(4, r) = VideoLine(r)
           /\ TextsOf(6, r) = StacksLine(r) /\ TextsOf(8, r) = TimeLine(r)
<1>1. /\ TextsOf(1, r) = StatusLines(r)[2] /\ TextsOf(2, r) = StatusLines(r)[3]
      /\ TextsOf(3, r) = StatusLines(r)[4] /\ TextsOf(4, r) = StatusLines(r)[5]
      /\ TextsOf(6, r) = StatusLines(r)[7] /\ TextsOf(8, r) = TimeLine(r)
  BY DEF TextsOf
<1>2. StatusLines(r)[2] = RoutingLine(r)
  BY DEF StatusLines
<1>3. StatusLines(r)[3] = SourcesLine(r)
  BY DEF StatusLines
<1>4. StatusLines(r)[4] = TimerLine(r)
  BY DEF StatusLines
<1>5. StatusLines(r)[5] = VideoLine(r)
  BY DEF StatusLines
<1>6. StatusLines(r)[7] = StacksLine(r)
  BY DEF StatusLines
<1>7. QED
  BY <1>1, <1>2, <1>3, <1>4, <1>5, <1>6

(* The places of the texts of a line, as far as they are the same for all readings. *)
At(t, x, len) == t.x = x /\ t.len = len

LEMMA Placed ==
    /\ \A x, what, val, len, c : At(Shown(x, what, val, len, c), x, len)
    /\ \A x, what, len, c : At(Colored(x, what, len, c), x, len)
    /\ \A x, what, len : At(Label(x, what, len), x, len)
    /\ \A x, len : At(Blanks(x, len), x, len) /\ Blanks(x, len).what = "blank"
    /\ \A x, what, val, c : At(draw_chex32(x, what, val, c), x, 8)
    /\ \A x, what, val : At(draw_hex32(x, what, val), x, 8)
    /\ \A x, what, val : At(draw_u10(x, what, val), x, Width(val))
BY Zenon DEF At, Shown, Colored, Label, Blanks, draw_chex32, draw_hex32, draw_u10

LEMMA FixedPlaces ==
    ASSUME NEW r
    PROVE  /\ DOMAIN TextsOf(0, r) = 1 .. 3 /\ At(TextsOf(0, r)[1], 7, 1)
           /\ At(TextsOf(0, r)[2], 0, 6) /\ At(TextsOf(0, r)[3], 8, 6)
           /\ DOMAIN TextsOf(5, r) = 1 .. 1 /\ At(TextsOf(5, r)[1], 0, 36)
           /\ DOMAIN TextsOf(7, r) = 1 .. 2 /\ At(TextsOf(7, r)[1], 0, 24)
           /\ At(TextsOf(7, r)[2], 24, 8)
<1>1. /\ TextsOf(0, r) = StatusLines(r)[1] /\ TextsOf(5, r) = StatusLines(r)[6]
      /\ TextsOf(7, r) = StatusLines(r)[8]
  BY DEF TextsOf
<1>2. StatusLines(r)[1] = <<Colored(7, "v", 1, "cyan"), Colored(0, "os_name", 6, "red"),
                            Colored(8, "os_info_v", 6, "cyan")>>
  BY DEF StatusLines
<1>3. StatusLines(r)[6] = <<Label(0, "modes", 36)>>
  BY DEF StatusLines
<1>4. StatusLines(r)[8] = <<Label(0, "Updated by Core", 24), draw_hex32(24, "core", r.core)>>
  BY DEF StatusLines
<1>5. /\ DOMAIN TextsOf(0, r) = 1 .. 3 /\ At(TextsOf(0, r)[1], 7, 1)
      /\ At(TextsOf(0, r)[2], 0, 6) /\ At(TextsOf(0, r)[3], 8, 6)
  BY <1>1, <1>2 DEF At, Shown, Colored
<1>6. DOMAIN TextsOf(5, r) = 1 .. 1 /\ At(TextsOf(5, r)[1], 0, 36)
  BY <1>1, <1>3 DEF At, Shown, Colored, Label
<1>7. /\ DOMAIN TextsOf(7, r) = 1 .. 2 /\ At(TextsOf(7, r)[1], 0, 24)
      /\ At(TextsOf(7, r)[2], 24, 8)
  <2> DEFINE a == Label(0, "Updated by Core", 24)  b == draw_hex32(24, "core", r.core)
  <2>0. TextsOf(7, r) = <<a, b>>
    BY <1>1, <1>4
  <2> HIDE DEF a, b
  <2>1. TextsOf(7, r)[1] = a /\ TextsOf(7, r)[2] = b
    BY <2>0
  <2>2. DOMAIN TextsOf(7, r) = 1 .. 2
    BY <2>0
  <2> USE DEF a, b
  <2>3. QED
    BY <2>1, <2>2, Placed
<1>8. QED
  BY <1>5, <1>6, <1>7

LEMMA CountOfTexts ==
    ASSUME NEW r
    PROVE  /\ DOMAIN TextsOf(0, r) = 1 .. 3 /\ DOMAIN TextsOf(1, r) = 1 .. 6
           /\ DOMAIN TextsOf(2, r) = 1 .. 3 /\ DOMAIN TextsOf(3, r) = 1 .. 8
           /\ DOMAIN TextsOf(4, r) = 1 .. 5 /\ DOMAIN TextsOf(5, r) = 1 .. 1
           /\ DOMAIN TextsOf(6, r) = 1 .. 4 /\ DOMAIN TextsOf(7, r) = 1 .. 2
           /\ DOMAIN TextsOf(8, r) = 1 .. 9
<1>0. /\ DOMAIN TextsOf(0, r) = 1 .. 3 /\ DOMAIN TextsOf(5, r) = 1 .. 1
      /\ DOMAIN TextsOf(7, r) = 1 .. 2
  BY FixedPlaces
<1>1. DOMAIN RoutingLine(r) = 1 .. 6
  BY DEF RoutingLine
<1>2. DOMAIN SourcesLine(r) = 1 .. 3
  BY DEF SourcesLine
<1>3. DOMAIN TimerLine(r) = 1 .. 8
  BY DEF TimerLine
<1>4. DOMAIN VideoLine(r) = 1 .. 5
  BY DEF VideoLine
<1>5. DOMAIN StacksLine(r) = 1 .. 4
  BY DEF StacksLine
<1>6. DOMAIN TimeLine(r) = 1 .. 9
  BY DEF TimeLine
<1>7. QED
  BY <1>0, <1>1, <1>2, <1>3, <1>4, <1>5, <1>6, LineTexts

LEMMA RoutingPlaces ==
    ASSUME NEW r
    PROVE  LET t == RoutingLine(r) IN
           /\ At(t[1], 0, 1) /\ At(t[2], 1, 1) /\ At(t[3], 4, 8) /\ At(t[4], 13, 8)
           /\ At(t[5], 22, 8) /\ At(t[6], 31, 8)
<1>1. /\ RoutingLine(r)[1] = Shown(0, "irq core", r.routing % 4, 1, "blue")
      /\ RoutingLine(r)[2] = Shown(1, "fiq core", (r.routing \div 4) % 4, 1, "blue")
      /\ RoutingLine(r)[3] = draw_chex32(4, "basic", r.basic, "blue")
      /\ RoutingLine(r)[4] = draw_chex32(13, "irq1", r.irq1, "blue")
      /\ RoutingLine(r)[5] = draw_chex32(22, "irq2", r.irq2, "blue")
      /\ RoutingLine(r)[6] = draw_chex32(31, "fiq", r.fiq, "blue")
  BY DEF RoutingLine
<1>2. QED
  BY <1>1, Placed

LEMMA SourcesPlaces ==
    ASSUME NEW r
    PROVE  LET t == SourcesLine(r) IN At(t[1], 0, 4) /\ At(t[2], 5, 9) /\ At(t[3], 15, 6)
<1>1. /\ SourcesLine(r)[1] = Colored(0, "UART", 4, Colour(25 \in r.irq2, r.fiq = 57))
      /\ SourcesLine(r)[2] = Colored(5, "STIMERCMP", 9, Colour(0 \in r.irq1, r.fiq = 1))
      /\ SourcesLine(r)[3] = Colored(15, "LTIMER", 6, Colour(r.local % 16 # 0, r.local >= 16))
  BY DEF SourcesLine
<1>2. QED
  BY <1>1, Placed

LEMMA VideoPlaces ==
    ASSUME NEW r
    PROVE  LET t == VideoLine(r)
               x == 6 + Width(r.width) IN
           /\ At(t[1], 0, 5) /\ At(t[2], 6, Width(r.width)) /\ At(t[3], x + 1, Width(r.height))
           /\ At(t[4], x, 1) /\ At(t[5], x + Width(r.height) + 2, 3)
<1> DEFINE x == 6 + Width(r.width)
<1>1. /\ VideoLine(r)[1] = Colored(0, "VIDEO", 5, "green")
      /\ VideoLine(r)[2] = draw_u10(6, "width", r.width)
      /\ VideoLine(r)[3] = draw_u10(x + 1, "height", r.height)
      /\ VideoLine(r)[4] = Label(x, "x", 1)
      /\ VideoLine(r)[5] = Label(x + Width(r.height) + 2, IF r.rgb THEN "RGB" ELSE "BGR", 3)
  BY DEF VideoLine
<1>2. QED
  BY <1>1, Placed

LEMMA TimerPlaces ==
    ASSUME NEW r
    PROVE  LET t == TimerLine(r)
               v == ValueColumn(r)
               w == Width(r.tval) IN
           /\ At(t[1], 0, 5) /\ At(t[2], 6, 1) /\ At(t[3], 8, Width(r.frq)) /\ At(t[4], v - 4, 3)
           /\ At(t[5], v, w) /\ At(t[6], v + w + 1, 27) /\ t[6].what = "blank"
           /\ At(t[7], v + w + 1 + 1, 1) /\ At(t[8], v + w + 1 + 3, 8)
<1> DEFINE v == ValueColumn(r)  w == Width(r.tval)
<1>1. /\ TimerLine(r)[1] = Colored(0, "TIMER", 5, "green") /\ TimerLine(r)[2] = Label(6, "at", 1)
      /\ TimerLine(r)[3] = draw_u10(8, "frq", r.frq) /\ TimerLine(r)[4] = Label(v - 4, "kHz", 3)
      /\ TimerLine(r)[5] = draw_u10(v, "tval", r.tval) /\ TimerLine(r)[6] = Blanks(v + w + 1, 27)
      /\ TimerLine(r)[7] = Label(v + w + 1 + 1, "bar", 1)
      /\ TimerLine(r)[8] = draw_hex32(v + w + 1 + 3, "tval hex", r.tval)
  BY DEF TimerLine
<1>2. QED
  BY <1>1, Placed

LEMMA TimePlaces ==
    ASSUME NEW r
    PROVE  LET t == TimeLine(r) IN
           /\ At(t[1], 0, 16) /\ At(t[2], 17, 8) /\ At(t[3], 25, 1) /\ At(t[4], 25, 8)
           /\ At(t[5], 33, 8) /\ At(t[6], 42, 8) /\ At(t[7], 50, 1) /\ At(t[8], 51, 11)
           /\ At(t[9], 51, Width(r.time.low \div SecondTicks))
<1>1. /\ TimeLine(r)[1] = Label(0, "Sys Timer Status", 16)
      /\ TimeLine(r)[2] = draw_hex32(17, "CS", r.cs)
      /\ TimeLine(r)[3] = Label(25, "colon", 1)
      /\ TimeLine(r)[4] = draw_hex32(25, "high", r.time.high)
      /\ TimeLine(r)[5] = draw_hex32(33, "low", r.time.low)
      /\ TimeLine(r)[6] = draw_hex32(42, "C0", r.c0)
      /\ TimeLine(r)[7] = Label(50, "bar", 1) /\ TimeLine(r)[8] = Blanks(51, 11)
      /\ TimeLine(r)[9] = draw_u10(51, "seconds", r.time.low \div SecondTicks)
  BY DEF TimeLine
<1>2. QED
  BY <1>1, Placed

LEMMA PlacesOfLines ==
    ASSUME NEW r \in Readings, NEW q \in Readings, NEW y \in Lines \ {3, 8}
    PROVE  SamePlaces(TextsOf(y, r), TextsOf(y, q))
<1>1. y \in {0, 1, 2, 4, 5, 6, 7}
  BY DEF Lines
<1>2. CASE y \in {0, 5, 7}
  BY <1>2, FixedPlaces DEF SamePlaces, At
<1>3. CASE y = 1
  <2>1. TextsOf(y, r) = RoutingLine(r) /\ TextsOf(y, q) = RoutingLine(q)
    BY <1>3, LineTexts
  <2>2. DOMAIN RoutingLine(r) = 1 .. 6 /\ DOMAIN RoutingLine(q) = 1 .. 6
    BY CountOfTexts, LineTexts
  <2>3. QED
    BY <2>1, <2>2, RoutingPlaces DEF SamePlaces, At
<1>4. CASE y = 2
  <2>1. TextsOf(y, r) = SourcesLine(r) /\ TextsOf(y, q) = SourcesLine(q)
    BY <1>4, LineTexts
  <2>2. DOMAIN SourcesLine(r) = 1 .. 3 /\ DOMAIN SourcesLine(q) = 1 .. 3
    BY CountOfTexts, LineTexts
  <2>3. QED
    BY <2>1, <2>2, SourcesPlaces DEF SamePlaces, At
<1>5. CASE y = 4
  <2>1. TextsOf(y, r) = VideoLine(r) /\ TextsOf(y, q) = VideoLine(q)
    BY <1>5, LineTexts
  <2>2. DOMAIN VideoLine(r) = 1 .. 5 /\ DOMAIN VideoLine(q) = 1 .. 5
    BY CountOfTexts, LineTexts
  <2>3. r.width = q.width /\ r.height = q.height
    BY ModeAssumption
  <2>4. QED
    BY <2>1, <2>2, <2>3, VideoPlaces DEF SamePlaces, At
<1>6. CASE y = 6
  <2>1. TextsOf(y, r) = StacksLine(r) /\ TextsOf(y, q) = StacksLine(q)
    BY <1>6, LineTexts
  <2>2. \A m \in 1 .. 4 : /\ At(StacksLine(r)[m], 9 * (m - 1), 8)
                          /\ At(StacksLine(q)[m], 9 * (m - 1), 8)
    BY DEF StacksLine, At, Shown, draw_chex32, draw_hex32
  <2>3. DOMAIN StacksLine(r) = 1 .. 4 /\ DOMAIN StacksLine(q) = 1 .. 4
    BY DEF StacksLine
  <2>4. QED
    BY <2>1, <2>2, <2>3 DEF SamePlaces, At
<1>7. QED
  BY <1>1, <1>2, <1>3, <1>4, <1>5, <1>6

LEMMA PlacesOfTime ==
    ASSUME NEW r \in Readings, NEW q \in Readings
    PROVE  Lettered(TimeLine(q)) \subseteq Covered(TimeLine(r))
<1> SUFFICES ASSUME NEW x \in Lettered(TimeLine(q)) PROVE x \in Covered(TimeLine(r))
  OBVIOUS
<1> DEFINE new == TimeLine(r)  old == TimeLine(q)
<1>1. DOMAIN new = 1 .. 9 /\ DOMAIN old = 1 .. 9
  BY CountOfTexts, LineTexts
<1>2. \A i \in 1 .. 8 : new[i].x = old[i].x /\ new[i].len = old[i].len
  <2> HIDE DEF new, old
  <2>1. QED
    BY TimePlaces DEF new, old, At
<1>3. new[8].x = 51 /\ new[8].len = 11
  BY TimePlaces DEF At
<1>4. old[9].x = 51 /\ old[9].len \in 1 .. 10
  BY TimePlaces, Widths DEF At
<1>5. PICK i \in 1 .. 9 : x \in Span(old[i])
  BY <1>1 DEF Lettered
<1> HIDE DEF new, old
<1>6. CASE i = 9
  <2>1. x \in Span(new[8])
    BY <1>3, <1>4, <1>5, <1>6 DEF Span
  <2>2. QED
    BY <1>1, <2>1 DEF Covered, new
<1>7. CASE i \in 1 .. 8
  <2>1. x \in Span(new[i])
    BY <1>2, <1>5, <1>7 DEF Span
  <2>2. QED
    BY <1>1, <1>7, <2>1 DEF Covered, new
<1>8. QED
  BY <1>6, <1>7

LEMMA PlacesOfTimer ==
    ASSUME NEW r \in Readings, NEW q \in Readings, NEW x \in Lettered(TimerLine(q))
    PROVE  x \in Covered(TimerLine(r)) \/ x = ValueColumn(r) + Width(r.tval)
<1> DEFINE new == TimerLine(r)  old == TimerLine(q)
           v == ValueColumn(r)  w == Width(r.tval)  u == Width(q.tval)
<1>0. w \in 1 .. 10 /\ u \in 1 .. 10 /\ v \in Nat
  BY Widths DEF ValueColumn
<1>v. ValueColumn(q) = v /\ Width(q.frq) = Width(r.frq)
  BY ModeAssumption DEF ValueColumn
<1>1. DOMAIN new = 1 .. 8 /\ DOMAIN old = 1 .. 8
  BY CountOfTexts, LineTexts
<1>p. /\ At(new[1], 0, 5) /\ At(new[2], 6, 1) /\ At(new[3], 8, Width(r.frq)) /\ At(new[4], v - 4, 3)
      /\ At(new[5], v, w) /\ At(new[6], v + w + 1, 27)
      /\ At(old[1], 0, 5) /\ At(old[2], 6, 1) /\ At(old[3], 8, Width(r.frq)) /\ At(old[4], v - 4, 3)
      /\ At(old[5], v, u) /\ old[6].what = "blank"
      /\ At(old[7], v + u + 1 + 1, 1) /\ At(old[8], v + u + 1 + 3, 8)
  BY <1>v, TimerPlaces
<1> HIDE DEF new, old, v, w, u
<1>2. \A i \in 1 .. 4 : new[i].x = old[i].x /\ new[i].len = old[i].len
  BY <1>p DEF At
<1>3. /\ new[5].x = v /\ new[5].len = w /\ old[5].x = v /\ old[5].len = u
      /\ new[6].x = v + w + 1 /\ new[6].len = 27 /\ old[6].what = "blank"
      /\ old[7].x = v + u + 2 /\ old[7].len = 1 /\ old[8].x = v + u + 4 /\ old[8].len = 8
  <2>1. v + u + 1 + 1 = v + u + 2 /\ v + u + 1 + 3 = v + u + 4
    BY <1>0
  <2>2. QED
    BY <1>p, <2>1 DEF At
<1>5. PICK i \in 1 .. 8 : x \in Span(old[i]) /\ old[i].what # "blank"
  BY <1>1 DEF Lettered, old
<1>6. CASE i \in 1 .. 4
  <2>1. x \in Span(new[i])
    BY <1>2, <1>5, <1>6 DEF Span
  <2>2. QED
    BY <1>1, <1>6, <2>1 DEF Covered, new
<1>7. CASE i \in 5 .. 8
  <2>1. i # 6
    BY <1>3, <1>5
  <2>2. x \in v .. v + 21
    BY <1>0, <1>3, <1>5, <1>7, <2>1 DEF Span
  <2>3. x \in Span(new[5]) \/ x \in Span(new[6]) \/ x = v + w
    BY <1>0, <1>3, <2>2 DEF Span
  <2>4. QED
    BY <1>1, <2>3 DEF Covered, new, v, w
<1>8. QED
  BY <1>6, <1>7

(* Nothing of an older page is outside the texts of the new one, but the   *)
(* column behind the timer's value.                                        *)
LEMMA Overdrawn ==
    ASSUME NEW r \in Readings, NEW q \in Readings, NEW y \in Lines,
           NEW x \in Lettered(TextsOf(y, q))
    PROVE  \/ x \in Covered(TextsOf(y, r))
           \/ y = 3 /\ x = ValueColumn(r) + Width(r.tval)
<1>1. CASE y = 8
  BY <1>1, PlacesOfTime DEF TextsOf
<1>2. CASE y = 3
  <2>1. TextsOf(y, r) = TimerLine(r) /\ TextsOf(y, q) = TimerLine(q)
    BY <1>2 DEF TextsOf, StatusLines
  <2>2. QED
    BY <1>2, <2>1, PlacesOfTimer
<1>3. CASE y \notin {3, 8}
  BY <1>3, PlacesOfLines, SameColumns
<1>4. QED
  BY <1>1, <1>2, <1>3

(* The texts of a line are at most ten. *)
LEMMA FewTexts ==
    ASSUME NEW r \in Readings, NEW y \in Lines
    PROVE  DOMAIN TextsOf(y, r) \subseteq 1 .. 10
<1>1. y \in {0, 1, 2, 3, 4, 5, 6, 7, 8}
  BY DEF Lines
<1>2. QED
  BY <1>1, CountOfTexts

(***************************************************************************)
(* Drawing texts over a line: where they are, the line shows them whatever *)
(* it showed before; elsewhere it shows what it showed before.             *)
(***************************************************************************)
LEMMA DrawnOver ==
    ASSUME NEW texts, DOMAIN texts \subseteq 1 .. 10, NEW line, NEW x
    PROVE  /\ x \in DOMAIN Line(line, texts) <=> x \in DOMAIN line \/ x \in Covered(texts)
           /\ x \in Covered(texts) =>
                /\ \A other : Line(line, texts)[x] = Line(other, texts)[x]
                /\ Line(line, texts)[x] = Blank \/ x \in Lettered(texts)
           /\ x \notin Covered(texts) /\ x \in DOMAIN line => Line(line, texts)[x] = line[x]
<1> DEFINE C == {i \in DOMAIN texts : x \in Span(texts[i])}
<1>1. \A l : /\ DOMAIN Line(l, texts) = DOMAIN l \cup Covered(texts)
             /\ x \in DOMAIN l \cup Covered(texts) =>
                   Line(l, texts)[x] = IF C = {} THEN l[x] ELSE Drawn(texts[Max(C)], x)
  BY DEF Line, Covered
<1>2. x \in Covered(texts) <=> C # {}
  BY DEF Covered
<1>3. C # {} => Max(C) \in C
  <2> SUFFICES ASSUME C # {} PROVE Max(C) \in C
    OBVIOUS
  <2> DEFINE T == {10 - i : i \in C}
  <2>1. T \in SUBSET Nat /\ T # {}
    OBVIOUS
  <2> HIDE DEF C
  <2>2. PICK m \in T : \A k \in T : m <= k
    <3> HIDE DEF T
    <3>1. QED
      BY <2>1, FirstOne
  <2>3. C \subseteq 1 .. 10
    BY DEF C
  <2>4. \E n \in C : \A k \in C : n >= k
    BY <2>2, <2>3
  <2>5. QED
    BY <2>4 DEF Max
<1>4. C # {} => Drawn(texts[Max(C)], x) = Blank \/ x \in Lettered(texts)
  BY <1>3 DEF Drawn, Lettered
<1>5. QED
  BY <1>1, <1>2, <1>4

LEMMA NewLetters ==
    ASSUME NEW r \in Readings, NEW y \in Lines, NEW line,
           \A x \in DOMAIN line :
               line[x] = Blank \/ \E q \in Readings : x \in Lettered(TextsOf(y, q))
    PROVE  \A x \in DOMAIN Line(line, TextsOf(y, r)) :
               \/ Line(line, TextsOf(y, r))[x] = Blank
               \/ \E q \in Readings : x \in Lettered(TextsOf(y, q))
BY FewTexts, DrawnOver

LEMMA NewLine ==
    ASSUME NEW r \in Readings, NEW y \in Lines, NEW line,
           \A x \in DOMAIN line :
               line[x] = Blank \/ \E q \in Readings : x \in Lettered(TextsOf(y, q)),
           NEW x
    PROVE  \/ LetterAt(Line(line, TextsOf(y, r)), x) = LetterAt(Line(Dark, TextsOf(y, r)), x)
           \/ y = 3 /\ x = ValueColumn(r) + Width(r.tval)
<1> DEFINE new == Line(line, TextsOf(y, r))  fresh == Line(Dark, TextsOf(y, r))
<1>1. DOMAIN Dark = {}
  BY DEF Dark
<1>2. CASE x \in Covered(TextsOf(y, r))
  BY <1>2, FewTexts, DrawnOver DEF LetterAt
<1>3. CASE x \notin Covered(TextsOf(y, r))
  <2>1. LetterAt(fresh, x) = Blank
    BY <1>1, <1>3, FewTexts, DrawnOver DEF LetterAt
  <2>2. LetterAt(new, x) = LetterAt(line, x)
    BY <1>3, FewTexts, DrawnOver DEF LetterAt
  <2>3. LetterAt(line, x) = Blank \/ (y = 3 /\ x = ValueColumn(r) + Width(r.tval))
    BY <1>3, Overdrawn DEF LetterAt
  <2>4. QED
    BY <2>1, <2>2, <2>3
<1>4. QED
  BY <1>2, <1>3
-----------------------------------------------------------------------------
StatusInv == regs \in Readings /\ reported.regs \in Readings /\ LettersInPlace /\ ShowsTheLatest

LEMMA PageLines ==
    ASSUME NEW p, NEW r, NEW y \in Lines
    PROVE  /\ StatusPage(p, r)[y] = Line(p[y], TextsOf(y, r))
           /\ p = [z \in Lines |-> p[z]] =>
                TimePage(p, r)[y] = IF y = 8 THEN Line(p[y], TextsOf(y, r)) ELSE p[y]
BY DEF StatusPage, TimePage, TextsOf, Lines

LEMMA InitStatus == StatusInit => StatusInv
<1> SUFFICES ASSUME StatusInit PROVE StatusInv
  OBVIOUS
<1>1. \A y \in Lines : page[y] = Dark /\ DOMAIN Dark = {}
  BY DEF StatusInit, Dark
<1>2. LettersInPlace
  BY <1>1 DEF StatusInit, LettersInPlace
<1>3. reported.call = "none" /\ reported.regs = regs
  BY DEF StatusInit
<1>4. QED
  BY <1>2, <1>3 DEF StatusInit, StatusInv, ShowsTheLatest

LEMMA NextStatus == StatusInv /\ [StatusNext]_statusVars => StatusInv'
<1> SUFFICES ASSUME StatusInv, [StatusNext]_statusVars PROVE StatusInv'
  OBVIOUS
<1> USE DEF StatusInv
<1>1. CASE status
  <2>1. page' = StatusPage(page, regs) /\ regs' = regs
        /\ reported'.call = "status" /\ reported'.regs = regs
    BY <1>1 DEF status, Report
  <2>2. \A y \in Lines : page'[y] = Line(page[y], TextsOf(y, regs))
    BY <2>1, PageLines
  <2>3. page' = [y \in Lines |-> page'[y]]
    BY <2>1 DEF StatusPage
  <2>4. LettersInPlace'
    BY <2>2, <2>3, NewLetters DEF LettersInPlace
  <2>5. ShowsTheLatest'
    <3>1. \A y \in Lines :
              StatusPage([z \in Lines |-> Dark], regs)[y] = Line(Dark, TextsOf(y, regs))
      BY PageLines
    <3>2. QED
      BY <2>1, <2>2, <3>1, NewLine DEF ShowsTheLatest, BehindValue, LettersInPlace
  <2>6. QED
    BY <2>1, <2>4, <2>5
<1>2. CASE time_status
  <2>1. page' = TimePage(page, regs) /\ regs' = regs
        /\ reported'.call = "time_status" /\ reported'.regs = regs
    BY <1>2 DEF time_status, Report
  <2>p. page = [y \in Lines |-> page[y]]
    BY DEF LettersInPlace
  <2>2. \A y \in Lines :
            page'[y] = IF y = 8 THEN Line(page[y], TextsOf(y, regs)) ELSE page[y]
    BY <2>1, <2>p, PageLines
  <2>3. page' = [y \in Lines |-> page'[y]]
    BY <2>1, <2>p DEF TimePage
  <2>4. LettersInPlace'
    BY <2>2, <2>3, NewLetters DEF LettersInPlace
  <2>5. ShowsTheLatest'
    <3>1. 8 \in Lines
      BY DEF Lines
    <3>2. StatusPage([z \in Lines |-> Dark], regs)[8] = Line(Dark, TextsOf(8, regs))
      BY <3>1, PageLines
    <3>3. page'[8] = Line(page[8], TextsOf(8, regs))
      BY <2>2, <3>1
    <3>4. \A x : LetterAt(page'[8], x)
                 = LetterAt(StatusPage([z \in Lines |-> Dark], regs)[8], x)
      BY <3>1, <3>2, <3>3, NewLine DEF LettersInPlace
    <3>5. QED
      BY <2>1, <3>4 DEF ShowsTheLatest
  <2>6. QED
    BY <2>1, <2>4, <2>5
<1>3. CASE Change
  BY <1>3 DEF Change, LettersInPlace, ShowsTheLatest, BehindValue
<1>4. CASE UNCHANGED statusVars
  BY <1>4 DEF statusVars, LettersInPlace, ShowsTheLatest, BehindValue
<1>5. QED
  BY <1>1, <1>2, <1>3, <1>4 DEF StatusNext

(* After status, and on its own line after time_status, the page shows the *)
(* registers that the call read and nothing of an earlier call.            *)
THEOREM PageIsFresh == StatusSpec => []ShowsTheLatest
<1>1. StatusInv => ShowsTheLatest
  BY DEF StatusInv
<1>2. QED
  BY <1>1, InitStatus, NextStatus, PTL DEF StatusSpec
-----------------------------------------------------------------------------
(***************************************************************************)
(* The screen: the pixels of a memory, each a colour, and the mode.        *)
(***************************************************************************)
Triples == Nat \X Nat \X Nat
Frame == 0 .. grant.pitch * grant.height - 1
Pixels == (0 .. grant.width - 1) \X (0 .. grant.height - 1)
Mode == [at |-> "frame", width |-> grant.width, height |-> grant.height,
         pitch |-> grant.pitch, rgb |-> grant.rgb]

(* The driver has the mode that the VideoCore is in. *)
Drawable == grant \in Grants /\ fb = Mode

LEMMA ModeFacts ==
    ASSUME grant \in Grants
    PROVE  /\ grant.width \in Nat /\ grant.height \in Nat /\ grant.pitch \in Nat
           /\ grant.pitch >= grant.width /\ grant.rgb \in BOOLEAN
           /\ FWidth <= grant.width /\ 2 * FHeight <= grant.height
BY ScreenAssumption

LEMMA SizeFacts ==
    /\ GlyphX \in Nat \ {0} /\ GlyphY \in Nat \ {0} /\ MaxX \in Nat \ {0} /\ MaxY \in Nat \ {0}
    /\ FWidth \in Nat /\ FHeight \in Nat
BY ScreenAssumption

LEMMA ColourFacts ==
    /\ Black \in Triples /\ Swapped(Black) = Black
    /\ \A c \in Triples : Swapped(c) \in Triples /\ Swapped(Swapped(c)) = c /\ c # Unchanged
<1>1. Black \in Triples /\ Swapped(Black) = Black
  BY DEF Black, Triples, Swapped
<1>2. \A c \in Triples : Swapped(c) \in Triples /\ Swapped(Swapped(c)) = c
  BY DEF Triples, Swapped
<1>3. \A c \in Triples : c # Unchanged
  BY DEF Triples, Unchanged
<1>4. QED
  BY <1>1, <1>2, <1>3

LEMMA PixelFacts ==
    ASSUME grant \in Grants, NEW p \in Pixels
    PROVE  /\ p[1] \in Nat /\ p[2] \in Nat /\ p[1] < grant.width /\ p[2] < grant.height
           /\ p[2] * grant.pitch + p[1] \in Frame
<1>1. p[1] \in Nat /\ p[2] \in Nat /\ p[1] < grant.width /\ p[2] < grant.height
  BY ModeFacts DEF Pixels
<1>2. ASSUME NEW P \in Nat, NEW H \in Nat, NEW x \in Nat, NEW y \in Nat, x < P, y < H
      PROVE  y * P + x \in 0 .. P * H - 1
  <2>1. (y + 1) * P <= H * P
    BY <1>2
  <2>2. QED
    BY <1>2, <2>1
<1>3. p[1] < grant.pitch
  BY <1>1, ModeFacts
<1>4. QED
  BY <1>1, <1>2, <1>3, ModeFacts DEF Frame

(* Of a box that is painted from column X and row Y on, a pixel is in the  *)
(* row and the column that it is in on the screen, unless it is behind the *)
(* end of a row above.                                                     *)
LEMMA RowOfPixel ==
    ASSUME NEW P \in Nat, NEW X \in Nat, NEW Y \in Nat, NEW dx \in Nat, NEW dy \in Nat,
           NEW x \in Nat, NEW y \in Nat, x < P, NEW j \in 0 .. dy - 1,
           y * P + x - (P * Y + X + j * P) \in 0 .. dx - 1,
           \A r \in 1 .. y : ~ (x + r * P \in X .. X + dx - 1 /\ y - r \in Y .. Y + dy - 1)
    PROVE  j = y - Y
<1> DEFINE r == y - Y - j
<1>1. r \in Int /\ y * P + x - (P * Y + X + j * P) = r * P + x - X
  OBVIOUS
<1>2. y - r = Y + j /\ y - r \in Y .. Y + dy - 1 /\ r <= y
  OBVIOUS
<1> HIDE DEF r
<1>3. x + r * P \in X .. X + dx - 1
  BY <1>1
<1>4. r > -1
  <2>1. r <= -1 => r * P <= -P
    BY <1>1
  <2>2. QED
    BY <1>1, <1>3, <2>1
<1>5. ~ r >= 1
  BY <1>1, <1>2, <1>3
<1>6. r = 0
  BY <1>1, <1>4, <1>5
<1>7. QED
  BY <1>6 DEF r

(* The greatest of some numbers up to n. *)
LEMMA Greatest ==
    ASSUME NEW n \in Nat, NEW T \in SUBSET (0 .. n), T # {}
    PROVE  Max(T) \in T /\ \A y \in T : Max(T) >= y
<1> DEFINE D == {n - y : y \in T}
<1>1. D \in SUBSET Nat /\ D # {}
  <2>1. \A y \in T : n - y \in Nat
    OBVIOUS
  <2>2. QED
    BY <2>1
<1>2. PICK d \in D : \A e \in D : d <= e
  <2> HIDE DEF D
  <2>1. QED
    BY <1>1, FirstOne
<1>3. PICK x \in T : d = n - x
  BY <1>2
<1>4. \A y \in T : x >= y
  <2> SUFFICES ASSUME NEW y \in T PROVE x >= y
    OBVIOUS
  <2>1. d <= n - y
    BY <1>2
  <2>2. QED
    BY <1>3, <2>1
<1>5. QED
  BY <1>4 DEF Max

(* What is painted, on the screen: the box is where it should be, as far   *)
(* as it is not in a row above, past the pitch.                            *)
Clear(p, X, Y, dx, dy) ==
    \A r \in 1 .. p[2] : ~ InBox(<<p[1] + r * grant.pitch, p[2] - r>>, X, Y, dx, dy)
Shows(q, m, X, Y, dx, dy, picture) ==
    \A p \in Pixels : Clear(p, X, Y, dx, dy) =>
        ShownIn(q, p) = IF InBox(p, X, Y, dx, dy) THEN picture[<<p[1] - X, p[2] - Y>>]
                        ELSE ShownIn(m, p)
Pictures(dx, dy) == [(0 .. dx - 1) \X (0 .. dy - 1) -> Triples]

Stored(c) == IF grant.rgb THEN Swapped(c) ELSE c
HitRows(a, ptr, dx, dy) == {j \in 0 .. dy - 1 : a - (ptr + j * grant.pitch) \in 0 .. dx - 1}
Landed(m, ptr, dx, dy, picture) ==
    [a \in Frame |->
        IF HitRows(a, ptr, dx, dy) = {} THEN m[a]
        ELSE LET j == Max(HitRows(a, ptr, dx, dy)) IN
             Stored(picture[<<a - (ptr + j * grant.pitch), j>>])]

LEMMA NextRow ==
    ASSUME NEW P \in Int, NEW q \in Int, NEW d \in Int, NEW j \in Int
    PROVE  q + (j + 1) * P = q + j * P + d + (P - d)
OBVIOUS

(* The pointer at each row. *)
LEMMA Rows ==
    ASSUME Drawable, NEW m \in [Frame -> Triples], NEW ptr \in Int, NEW dx \in Nat, NEW dy \in Nat,
           NEW picture
    PROVE  Paint(m, ptr, dx, dy, picture) = Landed(m, ptr, dx, dy, picture)
<1> DEFINE Fits(R) == R = [j \in 0 .. dy |-> IF j = 0 THEN ptr
                                             ELSE R[j - 1] + dx + RowStep(fb.pitch, dx)]
           Row == CHOOSE R : Fits(R)
           f == [j \in 0 .. dy |-> ptr + j * grant.pitch]
<1>1. fb.pitch = grant.pitch /\ fb.rgb = grant.rgb /\ grant.pitch \in Nat
  BY ModeFacts DEF Drawable, Mode
<1>2. Fits(f)
  <2>1. \A j \in 0 .. dy : f[j] = IF j = 0 THEN ptr ELSE f[j - 1] + dx + RowStep(fb.pitch, dx)
    <3> SUFFICES ASSUME NEW j \in 0 .. dy
                 PROVE  f[j] = IF j = 0 THEN ptr ELSE f[j - 1] + dx + RowStep(fb.pitch, dx)
      OBVIOUS
    <3>1. CASE j = 0
      BY <1>1, <3>1
    <3>2. CASE j # 0
      <4>1. j - 1 \in 0 .. dy /\ f[j - 1] = ptr + (j - 1) * grant.pitch
        BY <3>2
      <4>2. ptr + j * grant.pitch = ptr + (j - 1) * grant.pitch + dx + (grant.pitch - dx)
        <5>1. PICK i \in Int : i = j - 1 /\ j = i + 1
          OBVIOUS
        <5>2. ptr + (i + 1) * grant.pitch = ptr + i * grant.pitch + dx + (grant.pitch - dx)
          <6>1. i \in Int /\ grant.pitch \in Int /\ dx \in Int /\ ptr \in Int
            BY <1>1
          <6> HIDE DEF f
          <6>2. QED
            BY ONLY <6>1, NextRow
        <5>3. QED
          BY <5>1, <5>2
      <4>3. QED
        BY <1>1, <3>2, <4>1, <4>2 DEF RowStep
    <3>3. QED
      BY <3>1, <3>2
  <2>2. QED
    BY <2>1
<1>3. Fits(Row)
  <2> HIDE DEF Fits
  <2>1. QED
    BY <1>2
<1>4. \A j \in 0 .. dy : Row[j] = ptr + j * grant.pitch
  <2> DEFINE T == {j \in 0 .. dy : Row[j] = ptr + j * grant.pitch}
  <2> HIDE DEF Row
  <2>1. 0 \in T
    BY <1>1, <1>3
  <2>2. \A i \in 0 .. dy - 1 : i \in T => i + 1 \in T
    <3> SUFFICES ASSUME NEW i \in 0 .. dy - 1, i \in T PROVE i + 1 \in T
      OBVIOUS
    <3>1. i + 1 \in 0 .. dy /\ i + 1 # 0 /\ (i + 1) - 1 = i
      OBVIOUS
    <3>2. Row[i + 1] = Row[i] + dx + (grant.pitch - dx)
      BY <1>1, <1>3, <3>1 DEF RowStep
    <3>3. Row[i] = ptr + i * grant.pitch
      OBVIOUS
    <3>4. Row[i + 1] = ptr + (i + 1) * grant.pitch
      <4>1. i \in Int /\ grant.pitch \in Int /\ dx \in Int
        BY <1>1
      <4>2. ptr + (i + 1) * grant.pitch = ptr + i * grant.pitch + dx + (grant.pitch - dx)
        BY <4>1, NextRow
      <4> HIDE DEF T
      <4>3. QED
        BY <3>2, <3>3, <4>2
    <3>5. QED
      BY <3>1, <3>4
  <2>3. \A i \in 0 .. dy : i \in T
    <3> HIDE DEF T
    <3>1. QED
      BY <2>1, <2>2, Induct
  <2>4. QED
    BY <2>3
<1> DEFINE Hits(a) == {j \in 0 .. dy - 1 : a - Row[j] \in 0 .. dx - 1}
           Hit(a) == HitRows(a, ptr, dx, dy)
<1>5. Paint(m, ptr, dx, dy, picture) =
          [a \in Frame |->
              IF Hits(a) = {} THEN m[a]
              ELSE LET j == Max(Hits(a)) IN
                   IF fb.rgb THEN Swapped(picture[<<a - Row[j], j>>])
                   ELSE picture[<<a - Row[j], j>>]]
  BY DEF Paint
<1> HIDE DEF Row
<1>6. ASSUME NEW a \in Frame
      PROVE  /\ Hits(a) = Hit(a)
             /\ Hits(a) # {} => Row[Max(Hits(a))] = ptr + Max(Hits(a)) * grant.pitch
  <2>1. \A j \in 0 .. dy - 1 : j \in 0 .. dy
    OBVIOUS
  <2>2. Hits(a) = Hit(a)
    BY <1>4, <2>1 DEF HitRows
  <2>3. Hits(a) # {} => dy - 1 \in Nat /\ Max(Hits(a)) \in Hits(a)
    <3> SUFFICES ASSUME Hits(a) # {} PROVE dy - 1 \in Nat /\ Max(Hits(a)) \in Hits(a)
      OBVIOUS
    <3>1. dy - 1 \in Nat /\ Hits(a) \in SUBSET (0 .. dy - 1)
      OBVIOUS
    <3> HIDE DEF Hits
    <3>2. QED
      BY <3>1, Greatest
  <2>4. QED
    BY <1>4, <2>1, <2>2, <2>3
<1> HIDE DEF Hits
<1>7. QED
  BY <1>1, <1>5, <1>6 DEF Landed, Stored

LEMMA KeptColour ==
    ASSUME grant \in Grants, NEW c \in Triples
    PROVE  /\ Stored(c) \in Triples
           /\ (IF grant.rgb THEN Swapped(Stored(c)) ELSE Stored(c)) = c
<1>1. CASE grant.rgb
  BY <1>1, ColourFacts DEF Stored
<1>2. CASE ~ grant.rgb
  BY <1>2 DEF Stored
<1>3. QED
  BY <1>1, <1>2

LEMMA Painted ==
    ASSUME Drawable, NEW m \in [Frame -> Triples], NEW X \in Nat, NEW Y \in Nat,
           NEW dx \in Nat, NEW dy \in Nat, NEW picture \in Pictures(dx, dy),
           NEW ptr \in Int, ptr = grant.pitch * Y + X
    PROVE  /\ Paint(m, ptr, dx, dy, picture) \in [Frame -> Triples]
           /\ Shows(Paint(m, ptr, dx, dy, picture), m, X, Y, dx, dy, picture)
<1> DEFINE q == Paint(m, ptr, dx, dy, picture)
           Column(a, j) == a - (ptr + j * grant.pitch)
           Hit(a) == HitRows(a, ptr, dx, dy)
           Bottom(a) == Max(Hit(a))
<1>1. grant \in Grants /\ grant.pitch \in Nat /\ grant.height \in Nat
  BY ModeFacts DEF Drawable
<1>2. \A a \in Frame : q[a] = IF Hit(a) = {} THEN m[a]
                              ELSE Stored(picture[<<Column(a, Bottom(a)), Bottom(a)>>])
  <2>1. q = [a \in Frame |-> IF Hit(a) = {} THEN m[a]
                             ELSE Stored(picture[<<Column(a, Bottom(a)), Bottom(a)>>])]
    <3>1. q = Landed(m, ptr, dx, dy, picture)
      BY Rows
    <3> HIDE DEF q
    <3>2. QED
      BY <3>1 DEF Landed
  <2> HIDE DEF q, Hit, Bottom, Column
  <2>2. QED
    BY <2>1
<1>3. q = [a \in Frame |-> q[a]]
  BY Rows DEF Landed
<1>4. ASSUME NEW a \in Frame, Hit(a) # {} PROVE Bottom(a) \in Hit(a)
  <2>1. dy - 1 \in Nat /\ Hit(a) \in SUBSET (0 .. dy - 1)
    BY <1>4 DEF HitRows
  <2> HIDE DEF Hit
  <2>2. QED
    BY <1>4, <2>1, Greatest
<1>5. ASSUME NEW a \in Frame, NEW j \in Hit(a)
      PROVE  picture[<<Column(a, j), j>>] \in Triples
  <2>1. Column(a, j) \in 0 .. dx - 1 /\ j \in 0 .. dy - 1
    BY <1>5 DEF HitRows
  <2> HIDE DEF Column
  <2>2. QED
    BY <2>1 DEF Pictures
<1> HIDE DEF q, Bottom
<1>6. q \in [Frame -> Triples]
  <2>1. ASSUME NEW a \in Frame PROVE q[a] \in Triples
    <3> HIDE DEF Hit, Column
    <3>1. CASE Hit(a) = {}
      BY <1>2, <3>1
    <3>2. CASE Hit(a) # {}
      BY <1>1, <1>2, <1>4, <1>5, <3>2, KeptColour
    <3>3. QED
      BY <3>1, <3>2
  <2>2. QED
    BY <1>3, <2>1
<1>7. ASSUME NEW p \in Pixels, Clear(p, X, Y, dx, dy)
      PROVE  ShownIn(q, p) = IF InBox(p, X, Y, dx, dy) THEN picture[<<p[1] - X, p[2] - Y>>]
                             ELSE ShownIn(m, p)
  <2> DEFINE a == p[2] * grant.pitch + p[1]
  <2>1. a \in Frame /\ p[1] \in Nat /\ p[2] \in Nat /\ p[1] < grant.pitch
    BY <1>1, PixelFacts, ModeFacts
  <2>2. \A j \in Hit(a) : j = p[2] - Y
    <3> SUFFICES ASSUME NEW j \in 0 .. dy - 1, Column(a, j) \in 0 .. dx - 1 PROVE j = p[2] - Y
      BY DEF HitRows
    <3>1. p[2] * grant.pitch + p[1] - (grant.pitch * Y + X + j * grant.pitch) \in 0 .. dx - 1
      <4>1. Column(a, j) = p[2] * grant.pitch + p[1] - (grant.pitch * Y + X + j * grant.pitch)
        BY <1>1, <2>1
      <4> HIDE DEF Column, a
      <4>2. QED
        BY <4>1
    <3>2. \A r \in 1 .. p[2] : ~ (/\ p[1] + r * grant.pitch \in X .. X + dx - 1
                                  /\ p[2] - r \in Y .. Y + dy - 1)
      BY <1>7 DEF Clear, InBox
    <3> HIDE DEF a, Column, Hit
    <3>3. QED
      BY <1>1, <2>1, <3>1, <3>2, RowOfPixel
  <2>3. ASSUME NEW j \in Int, j = p[2] - Y PROVE Column(a, j) = p[1] - X
    BY <1>1, <2>1, <2>3
  <2>4. CASE InBox(p, X, Y, dx, dy)
    <3>1. p[2] - Y \in Int /\ p[2] - Y \in 0 .. dy - 1 /\ p[1] - X \in 0 .. dx - 1
      BY <2>1, <2>4 DEF InBox
    <3>2. p[2] - Y \in Hit(a)
      <4> HIDE DEF Column, a
      <4>1. Column(a, p[2] - Y) \in 0 .. dx - 1
        BY <2>3, <3>1
      <4>2. QED
        BY <3>1, <4>1 DEF HitRows, Column
    <3>3. Hit(a) # {} /\ Bottom(a) = p[2] - Y
      <4> HIDE DEF Hit, a
      <4>1. QED
        BY <1>4, <2>1, <2>2, <3>2
    <3>4. q[a] = Stored(picture[<<p[1] - X, p[2] - Y>>])
      <4> HIDE DEF Hit, a, Column
      <4>1. QED
        BY <1>2, <2>1, <2>3, <3>1, <3>3
    <3>5. picture[<<p[1] - X, p[2] - Y>>] \in Triples
      BY <3>1 DEF Pictures
    <3>6. QED
      BY <1>1, <2>4, <3>4, <3>5, KeptColour DEF ShownIn
  <2>5. CASE ~ InBox(p, X, Y, dx, dy)
    <3>1. Hit(a) = {}
      <4> SUFFICES ASSUME NEW j \in 0 .. dy - 1, Column(a, j) \in 0 .. dx - 1 PROVE FALSE
        BY DEF HitRows
      <4>1. j \in Int /\ j = p[2] - Y
        BY <2>2 DEF HitRows
      <4>2. p[1] - X \in 0 .. dx - 1
        <5> HIDE DEF a, Column
        <5>1. QED
          BY <2>3, <4>1
      <4>3. QED
        BY <2>1, <2>5, <4>1, <4>2 DEF InBox
    <3> HIDE DEF Hit
    <3>2. q[a] = m[a]
      BY <1>2, <2>1, <3>1
    <3>3. QED
      BY <2>5, <3>2 DEF ShownIn
  <2>6. QED
    BY <2>4, <2>5
<1>8. QED
  BY <1>6, <1>7 DEF Shows, q

(* A box that ends inside the screen. *)
HasBox(q, m, X, Y, dx, dy, c) ==
    /\ q \in [Frame -> Triples]
    /\ \A p \in Pixels : ShownIn(q, p) = IF InBox(p, X, Y, dx, dy) THEN c ELSE ShownIn(m, p)

LEMMA BoxShown ==
    ASSUME Drawable, NEW m \in [Frame -> Triples], NEW X \in Nat, NEW Y \in Nat,
           NEW dx \in Nat, NEW dy \in Nat, X + dx <= grant.width, NEW c \in Triples
    PROVE  HasBox(draw_cbox(m, X, Y, dx, dy, c), m, X, Y, dx, dy, c)
<1> DEFINE picture == [q \in (0 .. dx - 1) \X (0 .. dy - 1) |-> c]
           ptr == grant.pitch * Y + X
           q == draw_cbox(m, X, Y, dx, dy, c)
<1>1. grant.pitch \in Nat /\ grant.pitch >= grant.width /\ grant.width \in Nat /\ grant \in Grants
  BY ModeFacts DEF Drawable
<1>2. q = Paint(m, ptr, dx, dy, picture)
  BY DEF draw_cbox, Drawable, Mode
<1>3. picture \in Pictures(dx, dy) /\ ptr \in Int
  BY <1>1 DEF Pictures
<1>4. ASSUME NEW p \in Pixels, NEW i \in 0 .. dx - 1, NEW j \in 0 .. dy - 1
      PROVE  picture[<<i, j>>] = c
  OBVIOUS
<1> HIDE DEF picture, q
<1>5. q \in [Frame -> Triples] /\ Shows(q, m, X, Y, dx, dy, picture)
  BY <1>2, <1>3, Painted
<1>6. ASSUME NEW p \in Pixels PROVE Clear(p, X, Y, dx, dy)
  <2>1. p[1] \in Nat /\ p[2] \in Nat
    BY <1>1, PixelFacts
  <2>2. ASSUME NEW r \in 1 .. p[2] PROVE p[1] + r * grant.pitch >= X + dx
    <3>1. r * grant.pitch >= grant.pitch
      BY <1>1, <2>1
    <3>2. QED
      BY <1>1, <2>1, <3>1
  <2>3. QED
    BY <1>1, <2>1, <2>2 DEF Clear, InBox
<1>7. ASSUME NEW p \in Pixels, InBox(p, X, Y, dx, dy)
      PROVE  picture[<<p[1] - X, p[2] - Y>>] = c
  <2>1. p[1] \in Nat /\ p[2] \in Nat
    BY <1>1, PixelFacts
  <2>2. p[1] - X \in 0 .. dx - 1 /\ p[2] - Y \in 0 .. dy - 1
    BY <1>7, <2>1 DEF InBox
  <2>3. QED
    BY <1>4, <2>2
<1>8. QED
  BY <1>5, <1>6, <1>7 DEF Shows, HasBox, q

(* A place of a letter, and the pixels in it. *)
LEMMA InPlace ==
    ASSUME NEW G \in Nat \ {0}, NEW a \in Nat, NEW k \in Nat
    PROVE  /\ a \in k * G .. k * G + G - 1 <=> k = a \div G
           /\ k = a \div G => a - k * G = a % G
<1>1. a = (a \div G) * G + (a % G) /\ a % G \in 0 .. G - 1 /\ a \div G \in Nat
  OBVIOUS
<1>2. ASSUME a \in k * G .. k * G + G - 1 PROVE k = a \div G
  <2>1. k * G \in Int /\ a - k * G \in 0 .. G - 1 /\ a = k * G + (a - k * G)
    BY <1>2
  <2>2. QED
    BY <2>1, DivisionIsUnique
<1>3. QED
  BY <1>1, <1>2

Cell(p) == <<p[1] \div GlyphX, p[2] \div GlyphY>>
GlyphAt(p, letter, c) ==
    IF <<p[1] % GlyphX, p[2] % GlyphY>> \in Font[letter % 128] THEN c ELSE Black
ClearLetter(p, x, y) == Clear(p, x * GlyphX, y * GlyphY, GlyphX, GlyphY)

LEMMA LetterShown ==
    ASSUME Drawable, NEW m \in [Frame -> Triples], NEW x \in Nat, NEW y \in Nat,
           NEW letter, NEW c \in Triples
    PROVE  /\ draw_cletter(m, x, y, letter, c) \in [Frame -> Triples]
           /\ \A p \in Pixels : ClearLetter(p, x, y) =>
                 ShownIn(draw_cletter(m, x, y, letter, c), p) =
                    IF <<x, y>> = Cell(p) THEN GlyphAt(p, letter, c) ELSE ShownIn(m, p)
<1> DEFINE picture == [q \in (0 .. GlyphX - 1) \X (0 .. GlyphY - 1) |->
                          IF q \in Font[letter % 128] THEN c ELSE Black]
           X == x * GlyphX
           Y == y * GlyphY
           ptr == grant.pitch * y * GlyphY + x * GlyphX
           q == draw_cletter(m, x, y, letter, c)
<1>1. grant.pitch \in Nat /\ grant \in Grants
  BY ModeFacts DEF Drawable
<1>2. q = Paint(m, ptr, GlyphX, GlyphY, picture)
  BY DEF draw_cletter, Drawable, Mode
<1>3. picture \in Pictures(GlyphX, GlyphY)
  BY ColourFacts DEF Pictures
<1>4. ASSUME NEW i \in 0 .. GlyphX - 1, NEW j \in 0 .. GlyphY - 1
      PROVE  picture[<<i, j>>] = IF <<i, j>> \in Font[letter % 128] THEN c ELSE Black
  OBVIOUS
<1>5. X \in Nat /\ Y \in Nat /\ ptr \in Int /\ ptr = grant.pitch * Y + X
  <2>1. \A P, v, w, u \in Nat : /\ u * w \in Nat /\ P * v * w + u \in Int
                                /\ P * v * w + u = P * (v * w) + u
    OBVIOUS
  <2>2. QED
    BY <1>1, <2>1, SizeFacts
<1> HIDE DEF picture, q, ptr, X, Y
<1>6. q \in [Frame -> Triples] /\ Shows(q, m, X, Y, GlyphX, GlyphY, picture)
  BY <1>2, <1>3, <1>5, SizeFacts, Painted
<1>7. ASSUME NEW p \in Pixels
      PROVE  /\ InBox(p, X, Y, GlyphX, GlyphY) <=> <<x, y>> = Cell(p)
             /\ <<x, y>> = Cell(p) =>
                   picture[<<p[1] - X, p[2] - Y>>] = GlyphAt(p, letter, c)
  <2>1. p[1] \in Nat /\ p[2] \in Nat
    BY <1>1, PixelFacts
  <2>2. /\ p[1] \in X .. X + GlyphX - 1 <=> x = p[1] \div GlyphX
        /\ x = p[1] \div GlyphX => p[1] - X = p[1] % GlyphX
    BY <2>1, SizeFacts, InPlace DEF X
  <2>3. /\ p[2] \in Y .. Y + GlyphY - 1 <=> y = p[2] \div GlyphY
        /\ y = p[2] \div GlyphY => p[2] - Y = p[2] % GlyphY
    BY <2>1, SizeFacts, InPlace DEF Y
  <2>4. p[1] % GlyphX \in 0 .. GlyphX - 1 /\ p[2] % GlyphY \in 0 .. GlyphY - 1
    BY <2>1, SizeFacts
  <2>5. QED
    BY <1>4, <2>2, <2>3, <2>4 DEF InBox, Cell, GlyphAt
<1>8. ASSUME NEW p \in Pixels, ClearLetter(p, x, y)
      PROVE  ShownIn(q, p) = IF <<x, y>> = Cell(p) THEN GlyphAt(p, letter, c) ELSE ShownIn(m, p)
  <2>1. Clear(p, X, Y, GlyphX, GlyphY)
    BY <1>8 DEF ClearLetter, X, Y
  <2>2. QED
    BY <1>6, <1>7, <2>1 DEF Shows
<1>9. QED
  BY <1>6, <1>8 DEF q

(* The picture with its two boxes, in a mode without a gap behind a row. *)
LEMMA PictureShown ==
    ASSUME Drawable, NEW m \in [Frame -> Triples], NEW c \in Triples, NEW d \in Triples
    PROVE  /\ lfb_showpicture(m, c, d) \in [Frame -> Triples]
           /\ grant.pitch = grant.width =>
                 \A p \in Pixels : ShownIn(lfb_showpicture(m, c, d), p) =
                    IF p[1] < grant.width - FWidth \/ p[2] < grant.height - 2 * FHeight THEN Black
                    ELSE IF p[2] < grant.height - FHeight THEN c ELSE d
<1> DEFINE W == grant.width
           H == grant.height
           m1 == clear_screen(m)
           m2 == draw_cbox(m1, W - FWidth, H - FHeight * 2, FWidth, FHeight, c)
           m3 == draw_cbox(m2, W - FWidth, H - FHeight, FWidth, FHeight, d)
<1>1. /\ grant \in Grants /\ fb.width = W /\ fb.height = H /\ W \in Nat /\ H \in Nat
      /\ FWidth <= W /\ 2 * FHeight <= H
  BY ModeFacts DEF Drawable, Mode
<1>2. /\ W - FWidth \in Nat /\ H - FHeight * 2 \in Nat /\ H - FHeight \in Nat
      /\ W - FWidth + FWidth <= W
  BY <1>1, SizeFacts
<1>3. lfb_showpicture(m, c, d) = m3
  BY <1>1 DEF lfb_showpicture
<1>4. m1 \in [Frame -> Triples]
  BY ColourFacts DEF clear_screen
<1>5. ASSUME NEW p \in Pixels, grant.pitch = W PROVE ShownIn(m1, p) = Black
  <2>1. p[2] * grant.pitch + p[1] \in Frame /\ p[2] * grant.pitch + p[1] < W * H
    BY <1>1, <1>5, PixelFacts DEF Frame
  <2>2. m1[p[2] * grant.pitch + p[1]] = Black
    BY <1>1, <2>1 DEF clear_screen
  <2> HIDE DEF m1
  <2>3. QED
    BY <2>2, ColourFacts DEF ShownIn
<1> HIDE DEF m1, m2, m3, W, H
<1>6. /\ m2 \in [Frame -> Triples]
      /\ \A p \in Pixels : ShownIn(m2, p) =
            IF InBox(p, W - FWidth, H - FHeight * 2, FWidth, FHeight) THEN c ELSE ShownIn(m1, p)
  <2>1. PICK X \in Nat, Y \in Nat : X = W - FWidth /\ Y = H - FHeight * 2 /\ X + FWidth <= W
    BY <1>2
  <2>2. m2 = draw_cbox(m1, X, Y, FWidth, FHeight, c) /\ X + FWidth <= grant.width
    BY <2>1 DEF m2, W
  <2>3. HasBox(draw_cbox(m1, X, Y, FWidth, FHeight, c), m1, X, Y, FWidth, FHeight, c)
    BY <1>4, <2>2, SizeFacts, BoxShown
  <2>4. QED
    BY <2>1, <2>2, <2>3 DEF HasBox
<1>7. /\ m3 \in [Frame -> Triples]
      /\ \A p \in Pixels : ShownIn(m3, p) =
            IF InBox(p, W - FWidth, H - FHeight, FWidth, FHeight) THEN d ELSE ShownIn(m2, p)
  <2>1. PICK X \in Nat, Y \in Nat : X = W - FWidth /\ Y = H - FHeight /\ X + FWidth <= W
    BY <1>2
  <2>2. m3 = draw_cbox(m2, X, Y, FWidth, FHeight, d) /\ X + FWidth <= grant.width
    BY <2>1 DEF m3, W
  <2>3. HasBox(draw_cbox(m2, X, Y, FWidth, FHeight, d), m2, X, Y, FWidth, FHeight, d)
    BY <1>6, <2>2, SizeFacts, BoxShown
  <2>4. QED
    BY <2>1, <2>2, <2>3 DEF HasBox
<1>8. ASSUME NEW p \in Pixels
      PROVE  /\ InBox(p, W - FWidth, H - FHeight * 2, FWidth, FHeight) <=>
                    /\ ~ (p[1] < W - FWidth \/ p[2] < H - 2 * FHeight)
                    /\ p[2] < H - FHeight
             /\ InBox(p, W - FWidth, H - FHeight, FWidth, FHeight) <=>
                    /\ ~ p[1] < W - FWidth
                    /\ ~ p[2] < H - FHeight
  <2>1. p[1] \in Nat /\ p[2] \in Nat /\ p[1] < W /\ p[2] < H
    BY <1>1, PixelFacts DEF W, H
  <2>2. QED
    BY <1>1, <2>1, SizeFacts DEF InBox
<1>9. ASSUME NEW p \in Pixels PROVE p[2] < H - 2 * FHeight => p[2] < H - FHeight
  BY <1>1, SizeFacts, PixelFacts
<1>10. QED
  BY <1>3, <1>5, <1>6, <1>7, <1>8, <1>9 DEF W, H

(* Where the letter after n letters of a text is. *)
Spot(x0, y0, n) ==
    LET k == (x0 % MaxX) + n IN <<k % (MaxX + 1), (y0 % MaxY) + k \div (MaxX + 1)>>

LEMMA SpotFacts ==
    ASSUME NEW x0 \in Nat, NEW y0 \in Nat, NEW n \in Nat
    PROVE  /\ Spot(x0, y0, n)[1] \in 0 .. MaxX /\ Spot(x0, y0, n)[2] \in Nat
           /\ Spot(x0, y0, 0) = <<x0 % MaxX, y0 % MaxY>>
           /\ Spot(x0, y0, n + 1) =
                 IF Spot(x0, y0, n)[1] + 1 > MaxX THEN <<0, Spot(x0, y0, n)[2] + 1>>
                 ELSE <<Spot(x0, y0, n)[1] + 1, Spot(x0, y0, n)[2]>>
<1> DEFINE X == x0 % MaxX
           Y == y0 % MaxY
           W == MaxX + 1
           k == X + n
           q == k \div W
           r == k % W
<1>1. X \in Nat /\ X < MaxX /\ Y \in Nat /\ MaxX \in Nat /\ W \in Nat \ {0}
  BY SizeFacts
<1>2. \A a : Spot(x0, y0, a) = <<(X + a) % W, Y + (X + a) \div W>>
  BY DEF Spot
<1> HIDE DEF X, Y, W
<1>3. k \in Nat /\ X + (n + 1) = k + 1 /\ X + 0 = 0 * W + X /\ X + 0 \in Int
  BY <1>1
<1>4. q \in Nat /\ r \in 0 .. W - 1 /\ k = q * W + r
  BY <1>1, <1>3
<1> HIDE DEF k, q, r
<1>5. Spot(x0, y0, n) = <<r, Y + q>>
  BY <1>2 DEF k, q, r
<1>6. Spot(x0, y0, 0) = <<X, Y>>
  <2>1. X \in 0 .. W - 1 /\ 0 \in Int
    BY <1>1 DEF W
  <2>2. (X + 0) \div W = 0 /\ (X + 0) % W = X
    BY <1>1, <1>3, <2>1, DivisionIsUnique
  <2>3. QED
    BY <1>1, <1>2, <2>2
<1>7. Spot(x0, y0, n + 1) = IF r + 1 > MaxX THEN <<0, Y + q + 1>> ELSE <<r + 1, Y + q>>
  <2>1. Spot(x0, y0, n + 1) = <<(k + 1) % W, Y + (k + 1) \div W>>
    BY <1>2, <1>3
  <2>2. CASE r + 1 > MaxX
    <3>1. k + 1 = (q + 1) * W + 0 /\ k + 1 \in Int /\ q + 1 \in Int /\ 0 \in 0 .. W - 1
      BY <1>1, <1>3, <1>4, <2>2 DEF W
    <3>2. (k + 1) \div W = q + 1 /\ (k + 1) % W = 0
      BY <1>1, <3>1, DivisionIsUnique
    <3>3. QED
      BY <1>1, <1>4, <2>1, <2>2, <3>2
  <2>3. CASE ~ r + 1 > MaxX
    <3>1. k + 1 = q * W + (r + 1) /\ k + 1 \in Int /\ q \in Int /\ r + 1 \in 0 .. W - 1
      BY <1>1, <1>3, <1>4, <2>3 DEF W
    <3>2. (k + 1) \div W = q /\ (k + 1) % W = r + 1
      BY <1>1, <3>1, DivisionIsUnique
    <3>3. QED
      BY <1>1, <1>4, <2>1, <2>3, <3>2
  <2>4. QED
    BY <2>2, <2>3
<1>8. r \in 0 .. MaxX /\ Y + q \in Nat
  BY <1>1, <1>4 DEF W
<1>9. QED
  BY <1>5, <1>6, <1>7, <1>8 DEF X, Y

(* The states of the loop over the letters. *)
IsText(s) == Len(s) \in Nat /\ DOMAIN s = 1 .. Len(s)
Written == [m : [Frame -> Triples], x : Nat, y : Nat]

LEMMA LettersLoop ==
    ASSUME Drawable, NEW m \in [Frame -> Triples], NEW x0 \in Nat, NEW y0 \in Nat,
           NEW s, IsText(s), NEW c \in Triples
    PROVE  \E S \in [0 .. Len(s) -> Written] :
              /\ S[0] = [m |-> m, x |-> x0 % MaxX, y |-> y0 % MaxY]
              /\ \A k \in 1 .. Len(s) : S[k] = NextLetter(S[k - 1], s[k], c)
              /\ Letters(m, x0, y0, s, c) = S[Len(s)].m
<1> DEFINE n == Len(s)
           S0 == [m |-> m, x |-> x0 % MaxX, y |-> y0 % MaxY]
           Fits(S) == S = [k \in 0 .. n |-> IF k = 0 THEN S0 ELSE NextLetter(S[k - 1], s[k], c)]
           S == CHOOSE S : Fits(S)
           F == [a \in Nat \X Written |-> NextLetter(a[2], s[a[1]], c)]
<1>1. n \in Nat
  BY DEF IsText
<1>2. S0 \in Written
  <2>1. x0 % MaxX \in Nat /\ y0 % MaxY \in Nat
    BY SizeFacts
  <2>2. QED
    BY <2>1 DEF Written
<1>3. ASSUME NEW A \in Written, NEW letter PROVE NextLetter(A, letter, c) \in Written
  <2>1. A.m \in [Frame -> Triples] /\ A.x \in Nat /\ A.y \in Nat
    BY DEF Written
  <2>2. draw_cletter(A.m, A.x, A.y, letter, c) \in [Frame -> Triples]
    BY <2>1, LetterShown
  <2>3. QED
    BY <2>1, <2>2 DEF NextLetter, Written
<1>4. F \in [Nat \X Written -> Written]
  BY <1>3
<1>5. \A k \in Nat, A \in Written : F[<<k, A>>] = NextLetter(A, s[k], c)
  OBVIOUS
<1> HIDE DEF S0, F
<1>6. PICK f \in [0 .. n -> Written] : Turns(f, F, S0, n)
  BY <1>1, <1>2, <1>4, LoopFunction
<1>7. Fits(f)
  <2>1. f = [k \in 0 .. n |-> IF k = 0 THEN S0 ELSE F[<<k, f[k - 1]>>]]
    BY <1>6 DEF Turns
  <2>2. ASSUME NEW k \in 0 .. n, k # 0
        PROVE  F[<<k, f[k - 1]>>] = NextLetter(f[k - 1], s[k], c)
    <3>1. k \in Nat /\ f[k - 1] \in Written
      BY <1>1, <2>2
    <3>2. QED
      BY <1>5, <3>1
  <2>3. QED
    BY <2>1, <2>2
<1>8. Fits(S)
  <2> HIDE DEF Fits
  <2>1. QED
    BY <1>7
<1>9. Letters(m, x0, y0, s, c) = S[n].m
  BY DEF Letters, S0
<1> HIDE DEF S
<1>10. S[0] = S0 /\ \A k \in 1 .. n : S[k] = NextLetter(S[k - 1], s[k], c)
  <2>1. \A k \in 0 .. n : S[k] = IF k = 0 THEN S0 ELSE NextLetter(S[k - 1], s[k], c)
    BY <1>8
  <2>2. 0 \in 0 .. n /\ \A k \in 1 .. n : k \in 0 .. n /\ k # 0
    BY <1>1
  <2>3. QED
    BY <2>1, <2>2
<1>11. \A k \in 0 .. n : S[k] \in Written
  <2> DEFINE T == {k \in 0 .. n : S[k] \in Written}
  <2>1. 0 \in T
    BY <1>1, <1>2, <1>10
  <2>2. ASSUME NEW i \in 0 .. n - 1, i \in T PROVE i + 1 \in T
    <3>1. i + 1 \in 1 .. n /\ i + 1 \in 0 .. n /\ (i + 1) - 1 = i
      BY <1>1
    <3>2. S[i + 1] = NextLetter(S[i], s[i + 1], c)
      BY <1>10, <3>1
    <3>3. QED
      BY <1>3, <2>2, <3>1, <3>2
  <2>3. \A i \in 0 .. n : i \in T
    <3> HIDE DEF T
    <3>1. QED
      BY <1>1, <2>1, <2>2, Induct
  <2>4. QED
    BY <2>3
<1>12. S \in [0 .. n -> Written]
  <2>1. S = [k \in 0 .. n |-> S[k]]
    BY <1>8
  <2>2. QED
    BY <1>11, <2>1
<1>13. QED
  BY <1>9, <1>10, <1>12 DEF S0

(* The letters of a text so far that are at a place: a letter more is the  *)
(* last of them, if it is at the place.                                    *)
Spots(x0, y0, k, place) == {j \in 1 .. k : Spot(x0, y0, j - 1) = place}

LEMMA OneMore ==
    ASSUME NEW x0 \in Nat, NEW y0 \in Nat, NEW k \in Nat, NEW place
    PROVE  /\ Spot(x0, y0, k) # place => Spots(x0, y0, k + 1, place) = Spots(x0, y0, k, place)
           /\ Spot(x0, y0, k) = place => /\ Spots(x0, y0, k + 1, place) # {}
                                         /\ Max(Spots(x0, y0, k + 1, place)) = k + 1
<1> DEFINE A == Spots(x0, y0, k, place)
           B == Spots(x0, y0, k + 1, place)
<1>1. \A j : j \in 1 .. k + 1 <=> j \in 1 .. k \/ j = k + 1
  OBVIOUS
<1>2. (k + 1) - 1 = k /\ k + 1 \in Nat
  OBVIOUS
<1>3. Spot(x0, y0, k) # place => B = A
  BY <1>1, <1>2 DEF Spots
<1>4. ASSUME Spot(x0, y0, k) = place PROVE B # {} /\ Max(B) = k + 1
  <2>1. k + 1 \in B /\ B \in SUBSET (0 .. k + 1)
    BY <1>1, <1>2, <1>4 DEF Spots
  <2> HIDE DEF B
  <2>2. Max(B) \in B /\ Max(B) >= k + 1
    BY <1>2, <2>1, Greatest
  <2>3. Max(B) \in 0 .. k + 1
    BY <2>1, <2>2
  <2>4. QED
    BY <1>2, <2>1, <2>2, <2>3
<1>5. QED
  BY <1>3, <1>4

(* What a text shows: at the place of a letter the letter, the last if     *)
(* there are several.                                                      *)
ClearText(p, x0, y0, n) ==
    \A k \in 0 .. n - 1 : ClearLetter(p, Spot(x0, y0, k)[1], Spot(x0, y0, k)[2])
WithText(p, m, x0, y0, s, c, k) ==
    LET ks == Spots(x0, y0, k, Cell(p)) IN
    IF ks = {} THEN ShownIn(m, p) ELSE GlyphAt(p, s[Max(ks)], c)

LEMMA NextFields ==
    \A A, letter, c :
        LET B == NextLetter(A, letter, c) IN
        /\ B.m = draw_cletter(A.m, A.x, A.y, letter, c)
        /\ <<B.x, B.y>> = IF A.x + 1 > MaxX THEN <<0, A.y + 1>> ELSE <<A.x + 1, A.y>>
BY DEF NextLetter

LEMMA TextShown ==
    ASSUME Drawable, NEW m \in [Frame -> Triples], NEW x0 \in Nat, NEW y0 \in Nat,
           NEW s, IsText(s), NEW c \in Triples
    PROVE  /\ Letters(m, x0, y0, s, c) \in [Frame -> Triples]
           /\ \A p \in Pixels : ClearText(p, x0, y0, Len(s)) =>
                 ShownIn(Letters(m, x0, y0, s, c), p) = WithText(p, m, x0, y0, s, c, Len(s))
<1> DEFINE n == Len(s)
<1>1. n \in Nat
  BY DEF IsText
<1>2. PICK S \in [0 .. n -> Written] :
          /\ S[0] = [m |-> m, x |-> x0 % MaxX, y |-> y0 % MaxY]
          /\ \A k \in 1 .. n : S[k] = NextLetter(S[k - 1], s[k], c)
          /\ Letters(m, x0, y0, s, c) = S[n].m
  BY LettersLoop
<1>3. \A k \in 0 .. n : S[k].m \in [Frame -> Triples] /\ S[k].x \in Nat /\ S[k].y \in Nat
  BY DEF Written
<1>4. ASSUME NEW k \in 0 .. n - 1
      PROVE  /\ k \in 0 .. n /\ k + 1 \in 0 .. n /\ k \in Nat
             /\ S[k + 1] = NextLetter(S[k], s[k + 1], c)
  <2>1. k \in 0 .. n /\ k + 1 \in 0 .. n /\ k \in Nat /\ k + 1 \in 1 .. n /\ (k + 1) - 1 = k
    BY <1>1
  <2>2. QED
    BY <1>2, <2>1
<1>5. \A k \in 0 .. n : <<S[k].x, S[k].y>> = Spot(x0, y0, k)
  <2> DEFINE T == {k \in 0 .. n : <<S[k].x, S[k].y>> = Spot(x0, y0, k)}
  <2>1. 0 \in T
    <3>1. 0 \in 0 .. n /\ S[0].x = x0 % MaxX /\ S[0].y = y0 % MaxY
      BY <1>1, <1>2
    <3>2. Spot(x0, y0, 0) = <<x0 % MaxX, y0 % MaxY>>
      <4>1. 0 \in Nat
        OBVIOUS
      <4> HIDE DEF T
      <4>2. QED
        BY <4>1, SpotFacts
    <3>3. QED
      BY <3>1, <3>2
  <2>2. ASSUME NEW k \in 0 .. n - 1, k \in T PROVE k + 1 \in T
    <3>1. Spot(x0, y0, k)[1] = S[k].x /\ Spot(x0, y0, k)[2] = S[k].y
      BY <2>2
    <3> HIDE DEF T
    <3>2. <<S[k + 1].x, S[k + 1].y>> =
              IF S[k].x + 1 > MaxX THEN <<0, S[k].y + 1>> ELSE <<S[k].x + 1, S[k].y>>
      BY <1>4, NextFields
    <3>3. Spot(x0, y0, k + 1) =
              IF S[k].x + 1 > MaxX THEN <<0, S[k].y + 1>> ELSE <<S[k].x + 1, S[k].y>>
      <4>1. k \in Nat
        BY <1>4
      <4>2. Spot(x0, y0, k + 1) =
                IF Spot(x0, y0, k)[1] + 1 > MaxX THEN <<0, Spot(x0, y0, k)[2] + 1>>
                ELSE <<Spot(x0, y0, k)[1] + 1, Spot(x0, y0, k)[2]>>
        BY <4>1, SpotFacts
      <4>3. QED
        BY <3>1, <4>2
    <3>4. QED
      BY <1>4, <3>2, <3>3 DEF T
  <2>3. \A i \in 0 .. n : i \in T
    <3> HIDE DEF T
    <3>1. QED
      BY <1>1, <2>1, <2>2, Induct
  <2>4. QED
    BY <2>3
<1> HIDE DEF n
<1>6. ASSUME NEW p \in Pixels, ClearText(p, x0, y0, n)
      PROVE  ShownIn(S[n].m, p) = WithText(p, m, x0, y0, s, c, n)
  <2> DEFINE T == {k \in 0 .. n : ShownIn(S[k].m, p) = WithText(p, m, x0, y0, s, c, k)}
  <2>1. 0 \in T
    <3>1. Spots(x0, y0, 0, Cell(p)) = {}
      BY DEF Spots
    <3>2. S[0].m = m /\ 0 \in 0 .. n
      BY <1>1, <1>2
    <3>3. QED
      BY <3>1, <3>2 DEF WithText
  <2>2. ASSUME NEW k \in 0 .. n - 1, k \in T PROVE k + 1 \in T
    <3> DEFINE x == S[k].x
               y == S[k].y
    <3>1. /\ x \in Nat /\ y \in Nat /\ S[k].m \in [Frame -> Triples]
          /\ S[k + 1].m = draw_cletter(S[k].m, x, y, s[k + 1], c)
      BY <1>3, <1>4, NextFields
    <3>2. <<x, y>> = Spot(x0, y0, k) /\ Spot(x0, y0, k)[1] = x /\ Spot(x0, y0, k)[2] = y
      BY <1>4, <1>5
    <3>3. ClearLetter(p, x, y)
      BY <1>6, <3>2 DEF ClearText
    <3> HIDE DEF x, y
    <3>4. ShownIn(S[k + 1].m, p) =
              IF Spot(x0, y0, k) = Cell(p) THEN GlyphAt(p, s[k + 1], c) ELSE ShownIn(S[k].m, p)
      BY <3>1, <3>2, <3>3, LetterShown
    <3>5. ShownIn(S[k].m, p) = WithText(p, m, x0, y0, s, c, k)
      BY <2>2
    <3>6. k + 1 \in 0 .. n /\ k \in Nat
      BY <1>4
    <3>7. CASE Spot(x0, y0, k) = Cell(p)
      BY <3>4, <3>6, <3>7, OneMore DEF WithText
    <3>8. CASE Spot(x0, y0, k) # Cell(p)
      <4>1. Spots(x0, y0, k + 1, Cell(p)) = Spots(x0, y0, k, Cell(p))
        BY <3>6, <3>8, OneMore
      <4>2. QED
        BY <3>4, <3>5, <3>6, <3>8, <4>1 DEF WithText
    <3>9. QED
      BY <3>7, <3>8
  <2>3. \A i \in 0 .. n : i \in T
    <3> HIDE DEF T
    <3>1. QED
      BY <1>1, <2>1, <2>2, Induct
  <2>4. n \in 0 .. n
    BY <1>1
  <2>5. QED
    BY <2>3, <2>4
<1>7. S[n].m \in [Frame -> Triples]
  BY <1>1, <1>3
<1>8. QED
  BY <1>2, <1>6, <1>7 DEF n

(* The strings that numbers are drawn as. *)
DigitsOf(D, v) ==
    D = [n \in 0 .. v |-> IF n < 10 THEN <<n + 48>> ELSE Append(D[n \div 10], (n % 10) + 48)]

LEMMA DigitsExist ==
    ASSUME NEW v \in Nat
    PROVE  \E D \in [0 .. v -> Seq(Nat)] : DigitsOf(D, v)
<1> DEFINE T == {m \in 0 .. v : \E D \in [0 .. m -> Seq(Nat)] : DigitsOf(D, m)}
<1>1. 0 \in T
  <2> DEFINE f == [n \in 0 .. 0 |-> <<n + 48>>]
  <2>1. f \in [0 .. 0 -> Seq(Nat)]
    OBVIOUS
  <2>2. f = [n \in 0 .. 0 |-> IF n < 10 THEN <<n + 48>> ELSE Append(f[n \div 10], (n % 10) + 48)]
    OBVIOUS
  <2>3. DigitsOf(f, 0)
    BY <2>2 DEF DigitsOf
  <2> HIDE DEF f
  <2>4. QED
    BY <2>1, <2>3
<1>2. ASSUME NEW m \in 0 .. v - 1, m \in T PROVE m + 1 \in T
  <2>1. PICK f \in [0 .. m -> Seq(Nat)] : DigitsOf(f, m)
    BY <1>2
  <2> DEFINE New(d, n) == IF n < 10 THEN <<n + 48>> ELSE Append(d[n \div 10], (n % 10) + 48)
             g == [n \in 0 .. m + 1 |-> IF n = m + 1 THEN New(f, n) ELSE f[n]]
  <2>2. ASSUME NEW n \in 0 .. m + 1
        PROVE  n >= 10 => n \div 10 \in 0 .. m /\ n \div 10 \in 0 .. m + 1 /\ n \div 10 # m + 1
    BY <2>2
  <2>3. ASSUME NEW n \in 0 .. m + 1 PROVE g[n] \in Seq(Nat) /\ g[n] = New(g, n)
    <3>1. g[n] = IF n = m + 1 THEN New(f, n) ELSE f[n]
      OBVIOUS
    <3>2. n >= 10 => g[n \div 10] = f[n \div 10] /\ f[n \div 10] \in Seq(Nat)
      BY <2>2
    <3> HIDE DEF g
    <3>3. New(f, n) = New(g, n) /\ New(f, n) \in Seq(Nat)
      <4>1. CASE n < 10
        <5>1. <<n + 48>> \in Seq(Nat)
          OBVIOUS
        <5>2. QED
          BY <4>1, <5>1
      <4>2. CASE ~ n < 10
        <5>1. n >= 10 /\ (n % 10) + 48 \in Nat
          BY <4>2
        <5>2. QED
          BY <3>2, <4>2, <5>1
      <4>3. QED
        BY <4>1, <4>2
    <3>4. CASE n = m + 1
      BY <3>1, <3>3, <3>4
    <3>5. CASE n # m + 1
      <4>1. n \in 0 .. m
        BY <3>5
      <4>2. f[n] = New(f, n)
        BY <2>1, <4>1 DEF DigitsOf
      <4>3. QED
        BY <3>1, <3>3, <3>5, <4>2
    <3>6. QED
      BY <3>4, <3>5
  <2>4. g \in [0 .. m + 1 -> Seq(Nat)] /\ g = [n \in 0 .. m + 1 |-> New(g, n)]
    BY <2>3
  <2>5. DigitsOf(g, m + 1)
    BY <2>4 DEF DigitsOf
  <2>6. m + 1 \in 0 .. v
    OBVIOUS
  <2> HIDE DEF g
  <2>7. QED
    BY <2>4, <2>5, <2>6
<1> HIDE DEF T
<1>3. \A m \in 0 .. v : m \in T
  BY <1>1, <1>2, Induct
<1>4. v \in 0 .. v
  OBVIOUS
<1>5. QED
  BY <1>3, <1>4 DEF T

LEMMA SeqIsText == \A A : \A s \in Seq(A) : IsText(s)
BY DEF IsText

LEMMA DrawnTexts ==
    /\ \A s \in Texts : IsText(s)
    /\ \A v \in Values : IsText(HexLetters(v)) /\ IsText(Decimal(v))
<1>1. \A s \in Texts : IsText(s)
  BY ScreenAssumption, SeqIsText
<1>2. ASSUME NEW v \in Values PROVE IsText(HexLetters(v))
  <2> DEFINE A == {HexLetter(v \div 16 ^ (GlyphX - i)) : i \in 1 .. GlyphX}
  <2>1. HexLetters(v) \in [1 .. GlyphX -> A]
    BY DEF HexLetters
  <2> HIDE DEF A
  <2>2. HexLetters(v) \in Seq(A)
    BY <2>1, SizeFacts, SeqDef
  <2>3. QED
    BY <2>2, SeqIsText
<1>3. ASSUME NEW v \in Values PROVE IsText(Decimal(v))
  <2> DEFINE D == CHOOSE D : DigitsOf(D, v)
  <2>1. v \in Nat
    BY ScreenAssumption
  <2>2. DigitsOf(D, v)
    BY <2>1, DigitsExist
  <2>3. Decimal(v) = D[v]
    BY DEF Decimal, DigitsOf
  <2> HIDE DEF D
  <2>4. \A n \in 0 .. v : D[n] \in Seq(Nat)
    <3> DEFINE Off == {n \in 0 .. v : D[n] \notin Seq(Nat)}
    <3> SUFFICES ASSUME Off # {} PROVE FALSE
      OBVIOUS
    <3>1. PICK n \in Off : \A k \in Off : n <= k
      <4>1. Off \in SUBSET Nat
        OBVIOUS
      <4> HIDE DEF Off
      <4>2. QED
        BY <4>1, FirstOne
    <3>2. n \in 0 .. v /\ D[n] \notin Seq(Nat)
      OBVIOUS
    <3>3. D[n] = IF n < 10 THEN <<n + 48>> ELSE Append(D[n \div 10], (n % 10) + 48)
      BY <2>2, <3>2 DEF DigitsOf
    <3>4. CASE n < 10
      <4>1. <<n + 48>> \in Seq(Nat)
        BY <3>2
      <4>2. QED
        BY <3>2, <3>3, <3>4, <4>1
    <3>5. CASE ~ n < 10
      <4>1. n \div 10 \in 0 .. v /\ n \div 10 < n /\ (n % 10) + 48 \in Nat
        BY <2>1, <3>2, <3>5
      <4>2. D[n \div 10] \in Seq(Nat)
        BY <3>1, <3>2, <4>1
      <4>3. QED
        BY <3>2, <3>3, <3>5, <4>1, <4>2
    <3>6. QED
      BY <3>4, <3>5
  <2>5. Decimal(v) \in Seq(Nat)
    BY <2>1, <2>3, <2>4
  <2>6. QED
    BY <2>5, SeqIsText
<1>4. QED
  BY <1>1, <1>2, <1>3

(* The driver has no frame, or is in the mode of the VideoCore, and draws  *)
(* only after that is settled.                                             *)
Mails == [step : {"off", "write", "asked", "answered", "done"}, full : BOOLEAN,
          inbox : Seq({"other", "answer"}), mbox : {Unanswered, grant}]
ModeInv ==
    /\ grant \in Grants /\ mail \in Mails
    /\ fb.at = "low" \/ fb = Mode
    /\ memory = [low |-> memory.low, frame |-> memory.frame]
    /\ memory.frame \in [Frame -> Triples]
    /\ mail.step # "done" => drawn = Nothing
ScreenInv == ModeInv /\ ShowsWhatWasAsked

LEMMA InitScreen == ScreenInit => ScreenInv
<1> SUFFICES ASSUME ScreenInit PROVE ScreenInv
  OBVIOUS
<1>1. grant \in Grants /\ drawn = Nothing /\ fb.at = "low"
  BY DEF ScreenInit
<1>2. memory.frame \in [Frame -> Triples] /\ memory = [low |-> memory.low, frame |-> memory.frame]
  BY ColourFacts DEF ScreenInit, Frame
<1>3. mail \in Mails
  BY DEF ScreenInit, Mails
<1>4. ShowsWhatWasAsked
  BY <1>1 DEF ShowsWhatWasAsked
<1>5. QED
  BY <1>1, <1>2, <1>3, <1>4 DEF ScreenInv, ModeInv

(* What is drawn stays. *)
LEMMA StillShown ==
    ASSUME ScreenInv, UNCHANGED <<grant, memory, before, drawn>>,
           mail' \in Mails', fb'.at = "low" \/ fb' = Mode',
           mail'.step # "done" => drawn = Nothing, fb' = fb \/ drawn = Nothing
    PROVE  ScreenInv'
<1>1. ModeInv'
  BY DEF ScreenInv, ModeInv, Frame
<1>2. ShowsWhatWasAsked'
  <2>1. CASE drawn = Nothing
    BY <2>1 DEF ShowsWhatWasAsked
  <2>2. CASE fb' = fb
    <3>1. \A k : Place(k)' = Place(k)
      BY DEF Place
    <3>2. \A p : TextPixel(p)' = TextPixel(p) /\ Spilled(p)' = Spilled(p)
      BY <3>1 DEF TextPixel, Spilled
    <3>3. \A p : Asked(p)' = Asked(p)
      BY <3>2 DEF Asked
    <3>4. \A p : /\ ShownIn(memory.frame, p)' = ShownIn(memory.frame, p)
                 /\ ShownIn(before, p)' = ShownIn(before, p)
      BY DEF ShownIn
    <3>5. QED
      BY <2>2, <3>2, <3>3, <3>4 DEF ScreenInv, ShowsWhatWasAsked
  <2>3. QED
    BY <2>1, <2>2
<1>3. QED
  BY <1>1, <1>2 DEF ScreenInv

LEMMA MailSteps ==
    ScreenInv /\ (VideoCore \/ lfb_init \/ mbox_write \/ mbox_read \/ UNCHANGED screenVars)
        => ScreenInv'
<1> SUFFICES ASSUME ScreenInv,
                    VideoCore \/ lfb_init \/ mbox_write \/ mbox_read \/ UNCHANGED screenVars
             PROVE  ScreenInv'
  OBVIOUS
<1>1. /\ UNCHANGED <<grant, memory, before, drawn>>
      /\ mail \in Mails /\ (fb.at = "low" \/ fb = Mode)
      /\ mail.step # "done" => drawn = Nothing
  BY DEF VideoCore, lfb_init, mbox_write, mbox_read, screenVars, ScreenInv, ModeInv
<1>2. Mails' = Mails /\ (fb' = fb => (fb'.at = "low" \/ fb' = Mode'))
  BY <1>1 DEF Mails, Mode
<1>3. /\ mail.step \in {"off", "write", "asked", "answered", "done"} /\ mail.full \in BOOLEAN
      /\ mail.inbox \in Seq({"other", "answer"}) /\ mail.mbox \in {Unanswered, grant}
  BY <1>1 DEF Mails
<1>4. CASE VideoCore
  <2>1. fb' = fb /\ (Drain \/ Answer \/ Other)
    BY <1>4 DEF VideoCore
  <2>2. mail' \in Mails /\ (mail'.step # "done" => mail.step # "done")
    <3>1. CASE Drain
      BY <1>1, <3>1 DEF Drain, Mails
    <3>2. CASE Answer
      <4>1. Append(mail.inbox, "answer") \in Seq({"other", "answer"})
        BY <1>3
      <4>2. QED
        BY <1>1, <1>3, <3>2, <4>1 DEF Answer, Mails
    <3>3. CASE Other
      <4>1. <<"other">> \in Seq({"other", "answer"})
        OBVIOUS
      <4>2. QED
        BY <1>1, <1>3, <3>3, <4>1 DEF Other, Mails
    <3>4. QED
      BY <2>1, <3>1, <3>2, <3>3
  <2>3. QED
    BY <1>1, <1>2, <2>1, <2>2, StillShown
<1>5. CASE lfb_init \/ mbox_write
  <2>1. mail' \in Mails /\ fb' = fb /\ mail.step # "done"
    BY <1>1, <1>3, <1>5 DEF lfb_init, mbox_write, Mails
  <2>2. QED
    BY <1>1, <1>2, <2>1, StillShown
<1>6. CASE mbox_read
  <2> DEFINE done == Head(mail.inbox) = "answer"
  <2>1. mail.step # "done" /\ mail.inbox # <<>>
    BY <1>6 DEF mbox_read
  <2>2. mail' \in Mails
    <3>1. Tail(mail.inbox) \in Seq({"other", "answer"})
      BY <1>3, <2>1
    <3>2. mail' = [mail EXCEPT !.inbox = Tail(mail.inbox),
                               !.step = IF done THEN "done" ELSE mail.step]
      BY <1>6 DEF mbox_read
    <3>3. QED
      BY <1>1, <1>3, <3>1, <3>2 DEF Mails
  <2>3. fb'.at = "low" \/ fb' = Mode'
    <3>1. CASE fb' = fb
      BY <1>2, <3>1
    <3>2. CASE fb' # fb
      <4>1. /\ HasFrame(mail.mbox)
            /\ fb' = [at |-> "frame", width |-> mail.mbox.width, height |-> mail.mbox.height,
                      pitch |-> mail.mbox.pitch, rgb |-> mail.mbox.rgb]
        BY <1>6, <3>2 DEF mbox_read
      <4>2. mail.mbox # Unanswered
        BY <4>1 DEF HasFrame, Unanswered
      <4>3. QED
        BY <1>1, <1>3, <4>1, <4>2 DEF Mode
    <3>3. QED
      BY <3>1, <3>2
  <2>4. QED
    BY <1>1, <1>2, <2>1, <2>2, <2>3, StillShown
<1>7. CASE UNCHANGED screenVars
  <2>1. fb' = fb /\ mail' = mail
    BY <1>7 DEF screenVars
  <2>2. QED
    BY <1>1, <1>2, <2>1, StillShown
<1>8. QED
  BY <1>4, <1>5, <1>6, <1>7

(* A call that draws q. *)
LEMMA DrawKeeps ==
    ASSUME ScreenInv, NEW call, NEW q, Draw(call, q),
           Drawable =>
              /\ q \in [Frame -> Triples]
              /\ (call.what = "picture" => grant.pitch = grant.width) =>
                    \A p \in Pixels : Spilled(p)' \/
                        ShownIn(q, p) = IF Asked(p)' = Unchanged THEN ShownIn(memory.frame, p)
                                        ELSE Asked(p)'
    PROVE  ScreenInv'
<1>1. /\ UNCHANGED <<grant, mail, fb>> /\ mail.step = "done"
      /\ drawn' = call /\ before' = memory.frame /\ memory' = [memory EXCEPT ![fb.at] = q]
  BY DEF Draw
<1>2. memory = [low |-> memory.low, frame |-> memory.frame]
  BY DEF ScreenInv, ModeInv
<1>3. Mode' = Mode /\ Mails' = Mails /\ Frame' = Frame /\ Pixels' = Pixels
  BY <1>1 DEF Mode, Mails, Frame, Pixels
<1>4. CASE fb.at = "low"
  <2>1. memory' = [low |-> q, frame |-> memory.frame]
    BY <1>1, <1>2, <1>4
  <2>2. ModeInv'
    <3>1. memory'.low = q /\ memory'.frame = memory.frame
      BY <2>1
    <3>2. QED
      BY <1>1, <1>3, <1>4, <2>1, <3>1 DEF ScreenInv, ModeInv
  <2>3. ShowsWhatWasAsked'
    BY <1>1, <1>4 DEF ShowsWhatWasAsked
  <2>4. QED
    BY <2>2, <2>3 DEF ScreenInv
<1>5. CASE fb.at # "low"
  <2>1. Drawable /\ fb.at = "frame"
    BY <1>5 DEF ScreenInv, ModeInv, Drawable, Mode
  <2>2. memory' = [low |-> memory.low, frame |-> q] /\ memory'.frame = q
    BY <1>1, <1>2, <2>1
  <2>3. ModeInv'
    BY <1>1, <1>3, <2>1, <2>2 DEF ScreenInv, ModeInv
  <2>4. \A p : /\ ShownIn(memory.frame, p)' = ShownIn(q, p)
               /\ ShownIn(before, p)' = ShownIn(memory.frame, p)
    BY <1>1, <2>2 DEF ShownIn
  <2>5. ShowsWhatWasAsked'
    BY <1>1, <1>3, <2>1, <2>4 DEF ShowsWhatWasAsked, Pixels
  <2>6. QED
    BY <2>3, <2>5 DEF ScreenInv
<1>6. QED
  BY <1>4, <1>5

LEMMA DrawBoxKeeps ==
    ASSUME ScreenInv, NEW b \in Boxes, NEW c \in Colours, DrawBox(b, c)
    PROVE  ScreenInv'
<1> DEFINE call == [what |-> "box", box |-> b, c |-> c]
           q == IF b.dx = 1 /\ b.dy = 1 THEN draw_cpixel(memory[fb.at], b.x, b.y, c)
                ELSE draw_cbox(memory[fb.at], b.x, b.y, b.dx, b.dy, c)
<1>1. Draw(call, q) /\ q = draw_cbox(memory[fb.at], b.x, b.y, b.dx, b.dy, c)
  BY DEF DrawBox, draw_cpixel
<1>2. c \in Triples /\ grant \in Grants
  BY ScreenAssumption DEF Triples, ScreenInv, ModeInv
<1>3. b.x \in Nat /\ b.y \in Nat /\ b.dx \in Nat /\ b.dy \in Nat /\ b.x + b.dx <= grant.width
  BY <1>2, ScreenAssumption
<1>4. call.what = "box" /\ call.box = b /\ call.c = c
  OBVIOUS
<1> HIDE DEF call, q
<1>5. \A p \in Pixels : Asked(p)' = IF InBox(p, b.x, b.y, b.dx, b.dy) THEN c ELSE Unchanged
  <2>1. drawn' = call
    BY <1>1 DEF Draw
  <2>2. QED
    BY <1>4, <2>1 DEF Asked, InBox
<1>6. ASSUME Drawable
      PROVE  /\ q \in [Frame -> Triples]
             /\ \A p \in Pixels : ShownIn(q, p) = IF Asked(p)' = Unchanged
                                                  THEN ShownIn(memory.frame, p) ELSE Asked(p)'
  <2>1. q = draw_cbox(memory.frame, b.x, b.y, b.dx, b.dy, c) /\ memory.frame \in [Frame -> Triples]
    BY <1>1, <1>6 DEF Drawable, Mode, ScreenInv, ModeInv
  <2>2. HasBox(q, memory.frame, b.x, b.y, b.dx, b.dy, c)
    BY <1>2, <1>3, <1>6, <2>1, BoxShown
  <2>3. QED
    BY <1>2, <1>5, <2>2, ColourFacts DEF HasBox
<1>7. QED
  BY <1>1, <1>6, DrawKeeps

LEMMA ShowPictureKeeps ==
    ASSUME ScreenInv, NEW c \in Colours, NEW d \in Colours, ShowPicture(c, d)
    PROVE  ScreenInv'
<1> DEFINE call == [what |-> "picture", c |-> c, d |-> d]
           q == lfb_showpicture(memory[fb.at], c, d)
           Is(p) == IF p[1] < grant.width - FWidth \/ p[2] < grant.height - 2 * FHeight THEN Black
                    ELSE IF p[2] < grant.height - FHeight THEN c ELSE d
<1>1. Draw(call, q)
  BY DEF ShowPicture
<1>2. c \in Triples /\ d \in Triples /\ grant \in Grants
  BY ScreenAssumption DEF Triples, ScreenInv, ModeInv
<1>3. call.what = "picture" /\ call.c = c /\ call.d = d
  OBVIOUS
<1> HIDE DEF call, q
<1>4. \A p : Asked(p)' = Is(p) /\ Is(p) # Unchanged
  <2>1. drawn' = call /\ grant' = grant
    BY <1>1 DEF Draw
  <2>2. \A p : Is(p) # Unchanged
    BY <1>2, ColourFacts
  <2>3. QED
    BY <1>3, <2>1, <2>2 DEF Asked
<1>5. ASSUME Drawable
      PROVE  /\ q \in [Frame -> Triples]
             /\ grant.pitch = grant.width => \A p \in Pixels : ShownIn(q, p) = Is(p)
  <2>1. q = lfb_showpicture(memory.frame, c, d) /\ memory.frame \in [Frame -> Triples]
    BY <1>5 DEF q, Drawable, Mode, ScreenInv, ModeInv
  <2>2. QED
    BY <1>2, <1>5, <2>1, PictureShown
<1> HIDE DEF Is
<1>6. Drawable =>
         /\ q \in [Frame -> Triples]
         /\ (call.what = "picture" => grant.pitch = grant.width) =>
               \A p \in Pixels : Spilled(p)' \/
                   ShownIn(q, p) = IF Asked(p)' = Unchanged THEN ShownIn(memory.frame, p)
                                   ELSE Asked(p)'
  BY <1>3, <1>4, <1>5
<1>7. QED
  BY <1>1, <1>6, DrawKeeps

(* The property's places of letters are the ones of the loop. *)
LEMMA SpotIsPlace ==
    ASSUME NEW x \in Nat, NEW y \in Nat, NEW k \in Nat \ {0}, drawn'.x = x, drawn'.y = y
    PROVE  Place(k)' = Spot(x, y, k - 1)
<1>1. x % MaxX \in Nat
  BY SizeFacts
<1>2. (x % MaxX) + k - 1 = (x % MaxX) + (k - 1)
  BY <1>1
<1>3. QED
  BY <1>2 DEF Place, Spot

LEMMA DrawTextKeeps ==
    ASSUME ScreenInv, NEW x \in Nat, NEW y \in Nat, NEW s, IsText(s), NEW c \in Colours,
           DrawText(x, y, s, c)
    PROVE  ScreenInv'
<1> DEFINE call == [what |-> "text", x |-> x, y |-> y, s |-> s, c |-> c]
           q == Letters(memory[fb.at], x, y, s, c)
           n == Len(s)
           Over(p) == Spots(x, y, n, Cell(p))
<1>1. Draw(call, q)
  BY DEF DrawText
<1>2. c \in Triples /\ grant \in Grants
  BY ScreenAssumption DEF Triples, ScreenInv, ModeInv
<1>3. call.what = "text" /\ call.x = x /\ call.y = y /\ call.s = s /\ call.c = c
  OBVIOUS
<1>4. n \in Nat /\ DOMAIN s = 1 .. n
  BY DEF IsText
<1>5. drawn' = call /\ grant' = grant
  BY <1>1 DEF Draw
<1> HIDE DEF call, q, n
<1>6. \A k \in 1 .. n : Place(k)' = Spot(x, y, k - 1)
  <2>1. \A k \in 1 .. n : k \in Nat \ {0}
    BY <1>4
  <2>2. QED
    BY <1>3, <1>5, <2>1, SpotIsPlace
<1>7. ASSUME NEW p \in Pixels
      PROVE  Asked(p)' = IF Over(p) = {} THEN Unchanged ELSE GlyphAt(p, s[Max(Over(p))], c)
  <2> DEFINE ks == {k \in DOMAIN drawn'.s : Place(k)' = Cell(p)}
  <2>1. ks = Over(p)
    BY <1>3, <1>4, <1>5, <1>6 DEF Spots
  <2>2. Asked(p)' = TextPixel(p)'
    BY <1>3, <1>5 DEF Asked
  <2>3. TextPixel(p)' = IF ks = {} THEN Unchanged
                        ELSE IF <<p[1] % GlyphX, p[2] % GlyphY>> \in Font[drawn'.s[Max(ks)] % 128]
                             THEN drawn'.c ELSE Black
    BY DEF TextPixel, Cell
  <2> HIDE DEF ks, Over
  <2>4. QED
    BY <1>3, <1>5, <2>1, <2>2, <2>3 DEF GlyphAt
<1>8. ASSUME NEW p \in Pixels, ~ Spilled(p)' PROVE ClearText(p, x, y, n)
  <2>1. ASSUME NEW k \in 0 .. n - 1 PROVE ClearLetter(p, Spot(x, y, k)[1], Spot(x, y, k)[2])
    <3>1. k + 1 \in 1 .. n /\ (k + 1) - 1 = k
      BY <1>4
    <3>2. Place(k + 1)' = Spot(x, y, k)
      BY <1>6, <3>1
    <3>3. drawn'.what = "text" /\ k + 1 \in DOMAIN drawn'.s
      BY <1>3, <1>4, <1>5, <3>1
    <3>4. \A r \in 1 .. p[2] : ~ InBox(<<p[1] + r * grant'.pitch, p[2] - r>>,
                                       Place(k + 1)'[1] * GlyphX, Place(k + 1)'[2] * GlyphY,
                                       GlyphX, GlyphY)
      BY <1>8, <3>3 DEF Spilled
    <3>5. QED
      BY <1>5, <3>2, <3>4 DEF ClearLetter, Clear
  <2>2. QED
    BY <2>1 DEF ClearText
<1>9. ASSUME Drawable
      PROVE  /\ q \in [Frame -> Triples]
             /\ \A p \in Pixels : Spilled(p)' \/
                    ShownIn(q, p) = IF Asked(p)' = Unchanged THEN ShownIn(memory.frame, p)
                                    ELSE Asked(p)'
  <2>1. q = Letters(memory.frame, x, y, s, c) /\ memory.frame \in [Frame -> Triples]
    BY <1>9 DEF q, Drawable, Mode, ScreenInv, ModeInv
  <2>2. /\ q \in [Frame -> Triples]
        /\ \A p \in Pixels : ClearText(p, x, y, n) =>
              ShownIn(q, p) = WithText(p, memory.frame, x, y, s, c, n)
    BY <1>2, <1>9, <2>1, TextShown DEF n
  <2>3. \A p, letter : GlyphAt(p, letter, c) # Unchanged
    BY <1>2, ColourFacts DEF GlyphAt
  <2>4. \A p : WithText(p, memory.frame, x, y, s, c, n) =
                  IF Over(p) = {} THEN ShownIn(memory.frame, p) ELSE GlyphAt(p, s[Max(Over(p))], c)
    BY DEF WithText
  <2> HIDE DEF Over
  <2>5. QED
    BY <1>7, <1>8, <2>2, <2>3, <2>4
<1>10. QED
  BY <1>1, <1>9, DrawKeeps

LEMMA NextScreen == ScreenInv /\ [ScreenNext]_screenVars => ScreenInv'
<1> SUFFICES ASSUME ScreenInv, [ScreenNext]_screenVars PROVE ScreenInv'
  OBVIOUS
<1>1. CASE VideoCore \/ lfb_init \/ mbox_write \/ mbox_read \/ UNCHANGED screenVars
  BY <1>1, MailSteps
<1>2. ASSUME NEW b \in Boxes, NEW c \in Colours, DrawBox(b, c) PROVE ScreenInv'
  BY <1>2, DrawBoxKeeps
<1>3. ASSUME NEW x \in 0 .. MaxX, NEW y \in 0 .. MaxY - 1, NEW c \in Colours,
             \/ \E s \in Texts : DrawText(x, y, s, c)
             \/ \E v \in Values : DrawText(x, y, HexLetters(v), c) \/ DrawText(x, y, Decimal(v), c)
      PROVE  ScreenInv'
  <2>1. x \in Nat /\ y \in Nat
    BY SizeFacts
  <2>2. \E s : IsText(s) /\ DrawText(x, y, s, c)
    BY <1>3, DrawnTexts
  <2>3. QED
    BY <2>1, <2>2, DrawTextKeeps
<1>4. ASSUME NEW c \in Colours, NEW d \in Colours, ShowPicture(c, d) PROVE ScreenInv'
  BY <1>4, ShowPictureKeeps
<1>5. QED
  BY <1>1, <1>2, <1>3, <1>4 DEF ScreenNext

(* Screen: in every mode that the VideoCore may grant, with either order   *)
(* of channels and whatever the pitch, and for every font and every text,  *)
(* the screen shows at each pixel what the last call asked for, and leaves *)
(* the other pixels alone.                                                 *)
THEOREM ScreenShowsCalls == ScreenSpec => []ShowsWhatWasAsked
<1>1. ScreenInv => ShowsWhatWasAsked
  BY DEF ScreenInv
<1>2. QED
  BY <1>1, InitScreen, NextScreen, PTL DEF ScreenSpec
=============================================================================
