----------------------------- MODULE Interrupts -----------------------------
(***************************************************************************)
(* The interrupt sources of kernel/cpu/irq.c: the table irqs, filled and   *)
(* emptied statement by statement by threads in user mode, the devices     *)
(* behind it, and c_irq_handler, which runs with interrupts masked and is  *)
(* one step.                                                               *)
(*                                                                         *)
(* The pending word of the interrupt controller shows enabled sources only,*)
(* the compare bits of the system timer show every match: c_irq_handler    *)
(* reads the former for the UART and the GPIO bank and the latter for the  *)
(* timers.  A compare register, written or not, matches again and again.   *)
(* No fast interrupt is taken: boot.S masks F and nothing unmasks it.      *)
(***************************************************************************)
EXTENDS SequencesExt, Integers

CONSTANTS
    Timers,         \* the system timers in use, numbered as in irq.h
    Pins,           \* pins of GPIO bank 1
    Infos,          \* what a subscription can ask for: priority, oneshot, pins
    Clients,        \* the instances: subscriptions <<s, i>> that the threads make,
                    \*   and the number of threads in the pool
    None            \* a null handler or handler_info

UART_IRQ        == 0
GPIO_BANK_1_IRQ == 5

ASSUME TimersAssumption == Timers \subseteq 1 .. 4
ASSUME InfosAssumption ==
    Infos \subseteq [priority : Nat, oneshot : BOOLEAN, pins : SUBSET Pins]
ASSUME NoneAssumption ==
    None \notin [priority : Nat, oneshot : BOOLEAN, pins : SUBSET Pins]

Sources == Timers \cup {UART_IRQ, GPIO_BANK_1_IRQ}

ASSUME ClientsAssumption ==
    Clients \subseteq [calls : SUBSET (Sources \X Infos), threads : Nat \ {0}]

VARIABLES
    client,         \* the instance that this behaviour is of; never changed
    handler,        \* irqs[s].handler: the subscription it came with, or None
    info,           \* the contents of *irqs[s].handler_info, or None
    infoOf,         \* the subscription that handler_info came with
    enabled,        \* sources enabled at the interrupt controller
    cs,             \* SYS_TIMER_CS: the timers that have matched
    rx,             \* the UART holds a character and UART0_IMSC lets it interrupt
    imsc,
    gpeds,          \* GPEDS0: pins with a detected edge
    gparen,         \* GPAREN0: pins whose edges are detected
    shots,          \* threads started per timer since subscribe_irq last stored
                    \*   its info or enabled it, 0 to 2
    leftover        \* edges older than the subscription that is in force

tableVars  == <<client, handler, info, infoOf>>
deviceVars == <<enabled, cs, rx, imsc, gpeds, gparen, shots, leftover>>
irqVars    == <<tableVars, deviceVars>>

IrqInit ==
    /\ client \in Clients
    /\ handler = [s \in Sources |-> None]
    /\ info = handler /\ infoOf = handler
    /\ enabled = {} /\ cs = {} /\ rx = FALSE /\ imsc = FALSE
    /\ gpeds = {} /\ gparen = {} /\ leftover = {}
    /\ shots = [s \in Timers |-> 0]

(* A source that holds the interrupt line of the core. *)
Asserted(s) ==
    /\ s \in enabled
    /\ \/ s = UART_IRQ /\ rx /\ imsc
       \/ s = GPIO_BANK_1_IRQ /\ gpeds # {}
       \/ s \in Timers \cap cs
Line == \E s \in Sources : Asserted(s)
-----------------------------------------------------------------------------
(* The devices' own steps: a match, a character, an edge. *)
Used(s) == \E i \in Infos : <<s, i>> \in client.calls
Match(s) == s \in Timers \ cs /\ Used(s) /\ cs' = cs \cup {s}
            /\ UNCHANGED <<tableVars, enabled, rx, imsc, gpeds, gparen, shots, leftover>>
Receive  == ~ rx /\ Used(UART_IRQ) /\ rx' = TRUE
            /\ UNCHANGED <<tableVars, enabled, cs, imsc, gpeds, gparen, shots, leftover>>
Edge(p)  == p \in gparen \ gpeds /\ gpeds' = gpeds \cup {p}
            /\ UNCHANGED <<tableVars, enabled, cs, rx, imsc, gparen, shots, leftover>>

(* c_irq_handler: the sources it starts a thread for.  g stands for what   *)
(* a null handler_info reads as.                                           *)
InfoAt(s, g) == IF info[s] = None THEN g ELSE info[s]
Serves(s, g) ==
    /\ handler[s] # None
    /\ CASE s = UART_IRQ        -> Asserted(s)
         [] s = GPIO_BANK_1_IRQ -> Asserted(s) /\ gpeds \cap InfoAt(s, g).pins # {}
         [] OTHER               -> s \in cs
Served(g) == {s \in Sources : Serves(s, g)}

(* Its stores.  A character is read whether it is wanted or not.  Mutant:  *)
(* a one-shot timer is not disabled.                                       *)
c_irq_handler_repeating(g) ==
    /\ rx' = (rx /\ ~ Asserted(UART_IRQ))
    /\ gpeds' = gpeds \ (IF GPIO_BANK_1_IRQ \in Served(g)
                         THEN InfoAt(GPIO_BANK_1_IRQ, g).pins ELSE {})
    /\ cs' = cs \ Served(g)
    /\ leftover' = leftover \cap gpeds'
    /\ shots' = [s \in Timers |-> IF s \in Served(g) /\ shots[s] < 2 THEN shots[s] + 1
                                                                     ELSE shots[s]]
    /\ UNCHANGED <<tableVars, enabled, imsc, gparen>>

c_irq_handler(g) ==
    /\ rx' = (rx /\ ~ Asserted(UART_IRQ))
    /\ gpeds' = gpeds \ (IF GPIO_BANK_1_IRQ \in Served(g)
                         THEN InfoAt(GPIO_BANK_1_IRQ, g).pins ELSE {})
    /\ cs' = cs \ Served(g)
    /\ enabled' = enabled \ {s \in Served(g) \cap Timers : InfoAt(s, g).oneshot}
    /\ leftover' = leftover \cap gpeds'
    /\ shots' = [s \in Timers |-> IF s \in Served(g) /\ shots[s] < 2 THEN shots[s] + 1
                                                                     ELSE shots[s]]
    /\ UNCHANGED <<tableVars, imsc, gparen>>
-----------------------------------------------------------------------------
(* subscribe_irq(s, h, i), by statements; the handler is named by the i it *)
(* comes with.  The compare register is written last: a match may come at  *)
(* any time before or after, so that the store is no step of its own.      *)
StoreHandler(s, i) ==
    handler' = [handler EXCEPT ![s] = i] /\ UNCHANGED <<client, info, infoOf, deviceVars>>

(* A second subscription of the GPIO bank adds its pins to the first one.  *)
(* Mutant: a second subscription of any source keeps the first one's info. *)
StoreInfoOnce(s, i) ==
    /\ info' = [info EXCEPT ![s] = IF @ = None THEN i ELSE @]
    /\ infoOf' = [infoOf EXCEPT ![s] = IF @ = None THEN i ELSE @]
    /\ shots' = [t \in Timers |-> IF t = s THEN 0 ELSE shots[t]]
    /\ UNCHANGED <<client, handler, enabled, cs, rx, imsc, gpeds, gparen, leftover>>

StoreInfo(s, i) ==
    /\ info' = [info EXCEPT ![s] =
                   IF s = GPIO_BANK_1_IRQ /\ @ # None
                   THEN [i EXCEPT !.pins = @ \cup info[s].pins] ELSE i]
    /\ infoOf' = [infoOf EXCEPT ![s] = i]
    /\ shots' = [t \in Timers |-> IF t = s THEN 0 ELSE shots[t]]
    /\ UNCHANGED <<client, handler, enabled, cs, rx, imsc, gpeds, gparen, leftover>>

EnableSource(s) ==
    /\ enabled' = enabled \cup {s}
    /\ imsc' = (imsc \/ s = UART_IRQ)
    /\ gparen' = IF s = GPIO_BANK_1_IRQ THEN info[s].pins ELSE gparen
    /\ leftover' = IF s = GPIO_BANK_1_IRQ THEN gpeds ELSE leftover
    /\ shots' = [t \in Timers |-> IF t = s THEN 0 ELSE shots[t]]
    /\ UNCHANGED <<tableVars, cs, rx, gpeds>>

(* unsubscribe_irq(s), by statements. *)
ClearHandler(s) ==
    handler' = [handler EXCEPT ![s] = None] /\ UNCHANGED <<client, info, infoOf, deviceVars>>

ClearInfo(s) ==
    /\ info' = [info EXCEPT ![s] = None] /\ infoOf' = [infoOf EXCEPT ![s] = None]
    /\ shots' = [t \in Timers |-> IF t = s THEN 0 ELSE shots[t]]
    /\ UNCHANGED <<client, handler, enabled, cs, rx, imsc, gpeds, gparen, leftover>>

(* Mutant: the source stays enabled. *)
KeepSource(s) == UNCHANGED irqVars

DisableSource(s) ==
    /\ enabled' = enabled \ {s}
    /\ UNCHANGED <<tableVars, cs, rx, imsc, gpeds, gparen, shots, leftover>>
=============================================================================
