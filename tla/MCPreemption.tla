---------------------------- MODULE MCPreemption ----------------------------
(* An instance of Preemption for TLC: a one-shot and a periodic use of one *)
(* timer with three threads; a one-shot timer next to the UART, and the    *)
(* GPIO bank with two pins, with two threads.                              *)
EXTENDS Preemption

Best(once, pins)  == [priority |-> 0, oneshot |-> once, pins |-> pins]
Worst(once, pins) == [priority |-> 1, oneshot |-> once, pins |-> pins]

MCInfos == {Best(TRUE, {}), Worst(FALSE, {}), Best(FALSE, {1}), Worst(FALSE, {2})}
MCClients ==
    {[threads |-> 3, calls |-> {<<1, Best(TRUE, {})>>, <<1, Worst(FALSE, {})>>}],
     [threads |-> 2, calls |-> {<<1, Best(TRUE, {})>>, <<UART_IRQ, Worst(FALSE, {})>>}],
     [threads |-> 2, calls |-> {<<GPIO_BANK_1_IRQ, Best(FALSE, {1})>>,
                                <<GPIO_BANK_1_IRQ, Worst(FALSE, {2})>>}]}
=============================================================================
