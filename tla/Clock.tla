-------------------------------- MODULE Clock --------------------------------
(***************************************************************************)
(* The system timer as util/time.c and SYS_TIME of exceptions/svc.S read   *)
(* it: a counter of two words that goes on between the two loads.  The     *)
(* constants named CLO and CHI are the upper and the lower word, in this   *)
(* order, and both readers load the upper one first.  get_time's loads are *)
(* not volatile: this is the order they are written in.                    *)
(***************************************************************************)
EXTENDS Integers

CONSTANTS
    Word,           \* values of a word, 2^32 in the system
    MaxTime,        \* bound of the counter
    MaxRun,         \* ticks from the start of a behaviour
    Waits           \* arguments of wait_msec: ticks, in spite of the name

ASSUME ClockAssumption == Word \in Nat \ {0, 1} /\ MaxTime \in Nat /\ Waits \subseteq 0 .. Word - 1

VARIABLES
    now,            \* the counter
    began,          \* its value when this behaviour began
    at,             \* where the caller is
    since,          \* the time at which its call started
    word,           \* the words that get_time has loaded
    start,          \* the word that wait_msec has loaded
    ticks,          \* its argument
    time            \* what the last call of get_time returned; -1: none

clockVars == <<now, began, at, since, word, start, ticks, time>>

SYS_TIMER_CLO == now \div Word
SYS_TIMER_CHI == now % Word

ClockInit ==
    /\ now \in 0 .. MaxTime /\ began = now
    /\ at = "idle" /\ since = 0 /\ word = [upper |-> 0, lower |-> 0]
    /\ start = 0 /\ ticks = 0 /\ time = -1

Tick ==
    /\ now < MaxTime /\ now < began + MaxRun
    /\ now' = now + 1
    /\ UNCHANGED <<began, at, since, word, start, ticks, time>>

(* get_time and SYS_TIME: upper word, lower word, the two put together.    *)
get_time ==
    /\ at \in {"idle", "returned"}
    /\ at' = "first" /\ since' = now /\ time' = -1
    /\ UNCHANGED <<now, began, word, start, ticks>>

(* Mutant: lower word first. *)
OrderSwapped == <<"lower", "upper">>

Order == <<"upper", "lower">>
Load(w) == [word EXCEPT ![w] = IF w = "upper" THEN SYS_TIMER_CLO ELSE SYS_TIMER_CHI]
LoadFirst  == at = "first" /\ at' = "second" /\ word' = Load(Order[1])
              /\ UNCHANGED <<now, began, since, start, ticks, time>>
LoadSecond == /\ at = "second" /\ at' = "returned" /\ word' = Load(Order[2])
              /\ time' = word'.upper * Word + word'.lower
              /\ UNCHANGED <<now, began, since, start, ticks>>

wait_msec(n) ==
    /\ at \in {"idle", "returned"}
    /\ at' = "waiting" /\ since' = now /\ ticks' = n /\ start' = SYS_TIMER_CHI /\ time' = -1
    /\ UNCHANGED <<now, began, word>>

(* The test of the loop.  Mutant: the end of the wait is computed, and may *)
(* lie behind the wrap of the word.                                        *)
StillWaitingUntil(w) == w < (start + ticks) % Word

StillWaiting(w) == (w - start) % Word < ticks
Poll ==
    /\ at = "waiting" /\ ~ StillWaiting(SYS_TIMER_CHI)
    /\ at' = "waited" /\ UNCHANGED <<now, began, since, word, start, ticks, time>>
Leave == at = "waited" /\ at' = "idle"
         /\ UNCHANGED <<now, began, since, word, start, ticks, time>>

ClockNext ==
    \/ Tick \/ get_time \/ LoadFirst \/ LoadSecond
    \/ \E n \in Waits : wait_msec(n)
    \/ Poll \/ Leave

ClockSpec == ClockInit /\ [][ClockNext]_clockVars
-----------------------------------------------------------------------------
(* A time that get_time or SYS_TIME returns is never ahead of the clock.   *)
(* It is not before the call either, except when the lower word wraps      *)
(* between the loads, and then by less than one wrap, however long the     *)
(* caller was preempted there.                                             *)
NeverAhead ==
    at = "returned" =>
        /\ time <= now /\ since - Word < time
        /\ since \div Word = now \div Word => since <= time

(* wait_msec does not return before its ticks have gone by, though only    *)
(* the lower word is read and wraps, and though its caller may be          *)
(* preempted for any time between two polls.                               *)
WaitsLongEnough == at = "waited" => now - since >= ticks
=============================================================================
