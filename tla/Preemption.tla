----------------------------- MODULE Preemption -----------------------------
(***************************************************************************)
(* Threads under interrupts: the scheduler when handlers of interrupts are *)
(* subscribed, so that a thread is switched out between any two statements *)
(* it executes in user mode.  Besides the clients' own code those are      *)
(* subscribe_irq and unsubscribe_irq, and cleanup (schedule.S), which runs *)
(* when a thread's function returns and works on the scheduler's queues.   *)
(*                                                                         *)
(* next is the memory of the queues, as in LinkedQueues.  Cleanup's pop and*)
(* push are one step per store here, and an interrupt finds next as the    *)
(* stores so far have left it: where it finds a pop or a push half done,   *)
(* next may stop being lists, and what the handler and the scheduler make  *)
(* of it then is in the model, for MaxAftermath more interrupts that       *)
(* switch.  Two things are not: a pop of an empty queue, which c_cleanup   *)
(* does not expect, is a step not taken; and the words of its stack that a *)
(* thread loses when it is added while it runs.  queue is what the callers *)
(* mean by next as long as it is lists.                                    *)
(*                                                                         *)
(* A handler preempts, so that levels matter: a thread's priority is that  *)
(* of its subscription.                                                    *)
(***************************************************************************)
EXTENDS Interrupts, QueueMemory

CONSTANTS MAX_THREADS, PRIORITIES, MaxStrikes, MaxAftermath

ASSUME PoolAssumption ==
    /\ MAX_THREADS \in Nat /\ \A c \in Clients : c.threads <= MAX_THREADS
    /\ PRIORITIES \in Nat \ {0} /\ MaxStrikes \in Nat /\ MaxAftermath \in Nat

Threads       == 0 .. MAX_THREADS - 1
usrloopthread == -1
Priority      == 0 .. PRIORITIES - 1
Ready(p)      == <<"ready", p>>
Free          == <<"free", 0>>
QueueNames    == {Ready(p) : p \in Priority} \cup {Free}
Nodes         == {Entry(t) : t \in Threads}
                     \cup {Start(a) : a \in QueueNames} \cup {End(a) : a \in QueueNames}

(* Where a thread is in user mode: the name of the statement, and what it  *)
(* holds in registers there.                                               *)
At(name)       == [name |-> name]
AtIrq(name, s, i) == [name |-> name, s |-> s, i |-> i]
Garbage        == At("garbage")
NoPc           == At("none")

VARIABLES
    rthread,
    next,           \* the next field of every entry of the scheduler's queues
    queue,          \* the threads on each queue, until next stops being lists
    priority,       \* threads[t].priority
    pc,             \* where the processor executes: user code of rthread
    saved,          \* threads[t].pc while t does not run: it is read once, by
                    \*   restore_ctx, before it is written again
    irqlr,
    left,           \* where each thread was when it last left user mode
    aftermath,      \* the interrupts that have switched since next stopped being lists
    struck          \* the kinds of window in which interrupts have switched

schedVars == <<rthread, next, queue, priority, pc, saved, irqlr, left, struck, aftermath>>
vars == <<irqVars, schedVars>>

(* init_scheduler on the memory: the pool of the instance on free_threads; *)
(* core.c:44 adds main to it at level 0, which takes the first entry.      *)
init_scheduler ==
    LET last == client.threads - 1 IN
    [n \in Nodes |->
        CASE entry_type(n) = "value" -> IF n[2] < last THEN Entry(n[2] + 1) ELSE End(Free)
          [] n = Start(Free)         -> Entry(0)
          [] n = End(Free)           -> Entry(last)
          [] OTHER -> IF entry_type(n) = "start" THEN End(n[2]) ELSE Start(n[2])]
InitQueue ==
    [a \in QueueNames |-> IF a = Free THEN [i \in 1 .. client.threads |-> i - 1] ELSE <<>>]

Init ==
    /\ IrqInit
    /\ rthread = 0
    /\ next = pushed(popped(init_scheduler, Free), Entry(0), Ready(0))
    /\ queue = MoveHead(InitQueue, Free, Ready(0))
    /\ priority = [t \in Threads |-> 0]
    /\ pc = At("run")
    /\ saved = [t \in Threads \cup {usrloopthread} |->
                  IF t = usrloopthread THEN At("idle") ELSE NoPc]
    /\ left = saved
    /\ irqlr = NoPc
    /\ struck = {} /\ aftermath = 0

IsNextThread(m, t) ==
    \/ (\A p \in Priority : entry_type(m[Start(Ready(p))]) = "end") /\ t = usrloopthread
    \/ \E p \in Priority : /\ m[Start(Ready(p))] = Entry(t)
                           /\ \A b \in Priority : b < p => entry_type(m[Start(Ready(b))]) = "end"

(* What an interrupt breaks if it switches before the next statement of    *)
(* cleanup.  "queue": pop has read that it takes the last entry, or has not*)
(* told the end entry so yet; or push has not made all of its three stores.*)
(* "pool": the entry is on no queue.  "context": the entry is free, and its*)
(* thread's stack still in use.                                            *)
EndsAt(n) == entry_type(n) = "end"
Window ==
    CASE pc.name = "unlink" -> IF EndsAt(pc.next) THEN {"queue"} ELSE {}
      [] pc.name = "untail" -> IF EndsAt(next[Entry(pc.s)]) THEN {"queue"} ELSE {"pool"}
      [] pc.name = "link"   -> {"pool"}
      [] pc.name \in {"append", "close"}  -> {"queue"}
      [] pc.name \in {"freed", "loadsp"} -> {"context"}
      [] OTHER -> {}

(* svc_add_thread on the memory m and the queues q, saved contexts c and   *)
(* levels l; f is where threads left.  A new thread's stack is written:    *)
(* whoever has a context on it loses that context.                         *)
AddThread(S, arg) ==
    IF EndsAt(S.m[Start(Free)]) THEN S
    ELSE LET t == S.m[Start(Free)][2]
             p == IF arg >= PRIORITIES THEN PRIORITIES - 1 ELSE arg
         IN [m |-> pushed(popped(S.m, Free), Entry(t), Ready(p)),
             q |-> MoveHead(S.q, Free, Ready(p)),
             c |-> [u \in DOMAIN S.c |->
                       IF u = t THEN At("run")
                       ELSE IF S.c[u] = [name |-> "loadsp", s |-> t] THEN Garbage ELSE S.c[u]],
             l |-> [S.l EXCEPT ![t] = p],
             f |-> [S.f EXCEPT ![t] = At("run")]]

(* The branches of c_irq_handler, in their order. *)
Branch(S, s, g) == IF s \in Served(g) THEN AddThread(S, InfoAt(s, g).priority) ELSE S
AddThreads(g) ==
    LET now    == [m |-> next, q |-> queue, c |-> saved, l |-> priority, f |-> left]
        uart   == Branch(now, UART_IRQ, g)
        gpio   == Branch(uart, GPIO_BANK_1_IRQ, g)
        timer1 == Branch(gpio, 1, g)
        timer2 == Branch(timer1, 2, g)
        timer3 == Branch(timer2, 3, g)
    IN Branch(timer3, 4, g)

(* The macros: rthread's context is saved with where it goes on; the       *)
(* context of t is restored.                                               *)
preserve_ctx(c, link) == [c EXCEPT ![rthread] = link]
restore_ctx(c, t) == saved' = [c EXCEPT ![t] = NoPc] /\ pc' = c[t]

(* schedule on memory m and contexts c, with the link register and irqlr:  *)
(* an interrupt leaves what it found in the link register.  Mutant: irqlr  *)
(* is not used.                                                            *)
scheduleIgnoringIrqlr(m, c, link, irqlink) ==
    \E t \in Threads \cup {usrloopthread} :
        /\ IsNextThread(m, t)
        /\ rthread' = t /\ next' = m /\ irqlr' = NoPc
        /\ restore_ctx(preserve_ctx(c, link), t)

schedule(m, c, link, irqlink) ==
    \E t \in Threads \cup {usrloopthread} :
        /\ IsNextThread(m, t)
        /\ rthread' = t /\ next' = m /\ irqlr' = NoPc
        /\ restore_ctx(preserve_ctx(c, IF irqlink = NoPc THEN link ELSE irqlink), t)

(* The queues become q, or mean nothing any more. *)
Means(q) == queue' = IF "queue" \in struck' THEN [a \in QueueNames |-> <<>>] ELSE q

(* irq.S: c_irq_handler, and the switch when it started a thread.  Mutant: *)
(* the interrupted thread goes on.                                         *)
IrqNoSwitch ==
    \E g \in Infos :
        LET S == AddThreads(g) IN
        /\ Line
        /\ c_irq_handler(g)
        /\ priority' = S.l /\ next' = S.m /\ queue' = S.q /\ saved' = S.c /\ left' = S.f
        /\ UNCHANGED <<rthread, pc, irqlr, struck, aftermath>>

Irq ==
    \E g \in Infos :
        LET S == AddThreads(g) IN
        /\ Line
        /\ c_irq_handler(g)
        /\ IF Served(g) = {}
           THEN UNCHANGED schedVars
           ELSE /\ struck' = struck \cup Window /\ Cardinality(struck') <= MaxStrikes
                /\ aftermath' = IF "queue" \in struck THEN aftermath + 1 ELSE 0
                /\ aftermath' <= MaxAftermath
                /\ schedule(S.m, S.c, Garbage, pc)
                /\ Means(S.q)
                /\ priority' = S.l
                /\ left' = [S.f EXCEPT ![rthread] = pc, ![rthread'] = NoPc]
-----------------------------------------------------------------------------
(* User code.  A step within a thread moves pc and leaves the scheduler's  *)
(* variables, or the queues only, alone.                                   *)
Goto(p) == pc' = p /\ UNCHANGED <<rthread, priority, saved, irqlr, left, struck, aftermath>>
Running == rthread # usrloopthread /\ pc.name = "run"
SameQueues == UNCHANGED <<next, queue>>
Stays == SameQueues /\ UNCHANGED irqVars

(* A supervisor call of a thread that goes on: only the switch. *)
SvcSchedule ==
    /\ Running
    /\ schedule(next, saved, pc, irqlr)
    /\ left' = [left EXCEPT ![rthread] = pc, ![rthread'] = NoPc]
    /\ UNCHANGED <<irqVars, queue, priority, struck, aftermath>>

(* One thread at a time is in subscribe_irq or unsubscribe_irq for s.      *)
Code(t) == IF t = rthread THEN pc ELSE saved[t]
Inside(s, names) == \E t \in Threads : Code(t).name \in names /\ Code(t).s = s
Subscribing   == {"info", "enable"}
Unsubscribing == {"clear", "disable"}
Alone(s) == ~ Inside(s, Subscribing \cup Unsubscribing)

SubscribeIrq(s, i) ==
    /\ Running /\ <<s, i>> \in client.calls /\ Alone(s)
    /\ StoreHandler(s, i) /\ Goto(AtIrq("info", s, i)) /\ SameQueues
SubscribeInfo ==
    pc.name = "info" /\ StoreInfo(pc.s, pc.i) /\ Goto(AtIrq("enable", pc.s, pc.i)) /\ SameQueues
SubscribeEnable ==
    pc.name = "enable" /\ EnableSource(pc.s) /\ Goto(At("run")) /\ SameQueues
UnsubscribeIrq(s) ==
    /\ Running /\ Alone(s) /\ handler[s] # None
    /\ ClearHandler(s) /\ Goto(AtIrq("clear", s, None)) /\ SameQueues
UnsubscribeInfo ==
    pc.name = "clear" /\ ClearInfo(pc.s) /\ Goto(AtIrq("disable", pc.s, None)) /\ SameQueues
UnsubscribeDisable ==
    pc.name = "disable" /\ DisableSource(pc.s) /\ Goto(At("run")) /\ SameQueues

(* cleanup.  c_cleanup's pop_from_queue: e is the head of the thread's     *)
(* ready queue.  The store of start.next, and, if e->next, read again, is  *)
(* the end entry, that of end.next.                                        *)
Own == Ready(priority[rthread])
AtEntry(name, t) == [name |-> name, s |-> t]
Return == Running /\ Goto(At("pop")) /\ Stays
CleanupRead ==
    LET e == next[Start(Own)] IN
    /\ pc.name = "pop" /\ ~ EndsAt(e)
    /\ Goto([name |-> "unlink", s |-> e[2], next |-> next[e]])
    /\ Stays
CleanupUnlink ==
    /\ pc.name = "unlink"
    /\ next' = [next EXCEPT ![Start(Own)] = pc.next]
    /\ Goto(AtEntry("untail", pc.s)) /\ Means(pop_from_queue(queue, Own)) /\ UNCHANGED irqVars
CleanupUntail ==
    /\ pc.name = "untail"
    /\ next' = [next EXCEPT ![End(Own)] = IF EndsAt(next[Entry(pc.s)]) THEN Start(Own) ELSE @]
    /\ Goto(AtEntry("link", pc.s)) /\ UNCHANGED <<queue, irqVars>>

(* Its push_to_queue to free_threads, store by store.  Mutants: the entry  *)
(* is not linked to the last one; e->next keeps its old value.             *)
CleanupNoLink ==
    /\ pc.name = "link"
    /\ Goto(AtEntry("append", pc.s)) /\ Stays
CleanupLink ==
    /\ pc.name = "link"
    /\ next' = [next EXCEPT ![next[End(Free)]] = Entry(pc.s)]
    /\ Goto(AtEntry("append", pc.s)) /\ Means(push_to_queue(pc.s, queue, Free)) /\ UNCHANGED irqVars
CleanupAppend ==
    /\ pc.name = "append"
    /\ next' = [next EXCEPT ![End(Free)] = Entry(pc.s)]
    /\ Goto(AtEntry("close", pc.s)) /\ UNCHANGED <<queue, irqVars>>
CleanupNoClose ==
    pc.name = "close" /\ Goto(At("freed")) /\ Stays
CleanupClose ==
    /\ pc.name = "close"
    /\ next' = [next EXCEPT ![Entry(pc.s)] = End(Free)]
    /\ Goto(At("freed")) /\ UNCHANGED <<queue, irqVars>>

(* The rest of cleanup: rthread, sp, svc #2.  Until sp is loaded the stack *)
(* is that of the thread s that has returned.                              *)
CleanupLeave ==
    /\ pc.name = "freed"
    /\ rthread' = usrloopthread /\ pc' = AtEntry("loadsp", rthread)
    /\ UNCHANGED <<priority, saved, irqlr, left, struck, aftermath>> /\ Stays
CleanupLoadSp == pc.name = "loadsp" /\ Goto(At("svc")) /\ Stays
CleanupSvc ==
    /\ pc.name = "svc"
    /\ schedule(next, saved, At("idle"), irqlr)
    /\ left' = [left EXCEPT ![rthread] = At("idle"), ![rthread'] = NoPc]
    /\ UNCHANGED <<irqVars, queue, priority, struck, aftermath>>

Cleanup == \/ Return \/ CleanupRead \/ CleanupUnlink \/ CleanupUntail
           \/ CleanupLink \/ CleanupAppend \/ CleanupClose
           \/ CleanupLeave \/ CleanupLoadSp \/ CleanupSvc
Subscription == \/ \E s \in Sources : UnsubscribeIrq(s) \/ \E i \in Infos : SubscribeIrq(s, i)
                \/ SubscribeInfo \/ SubscribeEnable \/ UnsubscribeInfo \/ UnsubscribeDisable
Device == /\ \/ \E s \in Timers : Match(s)
             \/ Receive
             \/ \E p \in Pins : Edge(p)
          /\ UNCHANGED schedVars

Next == Irq \/ SvcSchedule \/ Subscription \/ Cleanup \/ Device

Spec == Init /\ [][Next]_vars
-----------------------------------------------------------------------------
(* The memory once cleanup has made the stores that are left of the pop or *)
(* the push that it is in.                                                 *)
Settled ==
    LET e == Entry(pc.s) IN
    CASE pc.name = "untail" -> [next EXCEPT ![End(Own)] = IF EndsAt(next[e]) THEN Start(Own) ELSE @]
      [] pc.name = "append" -> [next EXCEPT ![End(Free)] = e, ![e] = End(Free)]
      [] pc.name = "close"  -> [next EXCEPT ![e] = End(Free)]
      [] OTHER              -> next

EntriesOf(s) == [i \in DOMAIN s |-> Entry(s[i])]
Represents(m, q) == \A a \in QueueNames : LinkedAs(m, EntriesOf(q[a]), a)

(* The queues are lists, each entry on one of them and once, wherever an   *)
(* interrupt switches, c_cleanup included; but not if it switches before a *)
(* store of push_to_queue after its first, or before a store of            *)
(* pop_from_queue that takes the last entry.                               *)
NeverListedTwice ==
    "queue" \notin struck => Represents(Settled, queue) /\ OnePosition(queue, QueueNames)

(* No thread of the pool is lost: each is on a queue, or is the one that   *)
(* c_cleanup holds between pop and push.  Unless, besides those windows, an*)
(* interrupt switched between pop and push.                                *)
PoolAccounted ==
    struck \cap {"queue", "pool"} = {} =>
        \A t \in 0 .. client.threads - 1 :
            \/ \E a \in QueueNames : Holds(queue, a, t)
            \/ pc \in {AtEntry("untail", t), AtEntry("link", t)}

(* A thread goes on where it was, whether it left by a supervisor call or  *)
(* an interrupt, and a new one starts at its function; and so does the     *)
(* idle loop.  Unless an interrupt switched in the first windows, or       *)
(* between c_cleanup and the load of the idle loop's stack.                *)
ContextIntact ==
    struck \cap {"queue", "context"} = {} =>
        /\ \A t \in Threads : t # rthread /\ ~ Holds(queue, Free, t) => saved[t] = left[t]
        /\ pc # Garbage

(* Preemption: client code runs only in a thread that no ready thread is   *)
(* better than, and that stands at the head of its queue, whatever has     *)
(* become of the queues.                                                   *)
RunsTheBest == pc.name = "run" => IsNextThread(next, rthread)

(* A step in which c_irq_handler ran, unless an interrupt has switched in  *)
(* the first windows before: threads may be lost or restarted after that.  *)
Taken == Line /\ (\E g \in Infos : c_irq_handler(g)) /\ "queue" \notin struck

(* A thread is started with the handler and the information of the same    *)
(* subscription, unless the interrupt falls between their stores.          *)
StartedAsSubscribed ==
    [][\A s \in Sources : Taken /\ (\E g \in Infos : Serves(s, g)) =>
          handler[s] = infoOf[s] \/ Inside(s, {"info"})]_vars

(* A one-shot timer that has started its thread starts it again only in an *)
(* interrupt of another source, which finds its compare bit set.           *)
OneShotOnce ==
    [][\A s \in Timers :
          (Taken /\ shots[s] > 0 /\ shots[s]' # shots[s] /\ info[s] # None /\ info[s].oneshot)
              => \E r \in Sources \ {s} : Asserted(r)]_vars

(* Every interrupt is acknowledged: after c_irq_handler no source holds    *)
(* the line, unless its thread is in the middle of unsubscribe_irq, or the *)
(* source is the GPIO bank with an edge from before its subscription.      *)
Acknowledged ==
    [][\A s \in Sources : Taken /\ Asserted(s)' =>
          \/ Inside(s, Unsubscribing)
          \/ s = GPIO_BANK_1_IRQ /\ leftover # {}]_vars
=============================================================================
