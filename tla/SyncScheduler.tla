----------------------------- MODULE SyncScheduler -----------------------------
(***************************************************************************)
(* Class SyncScheduler of scheduler.py and the threads around it: one      *)
(* executes run, others add and cancel entries and stop it at last.  The   *)
(* queue and its run loop are those of the standard library's sched.       *)
(*                                                                         *)
(* add sets the event before it enters the entry, stop before it sets      *)
(* _stop.  Some threads hold the scheduler's lock when they call them, as  *)
(* AbstractScheduler.lock offers, others do not: durand's own services     *)
(* never do, be it in the scheduler's thread, as callbacks, or in the one  *)
(* that listens on the bus.                                                *)
(***************************************************************************)
EXTENDS Integers, Sequences

CONSTANTS
    Thread,     \* threads of the application
    Entry,      \* callbacks
    Periodic,   \* those that add themselves again, as heartbeat does
    MaxDelay,   \* bound: time units of a delay
    Locking     \* threads that hold the scheduler's lock when they use it

VARIABLES
    queue,      \* _sched: entries in the order of their times, with the time
                \* that is left and who added them
    wake_up,    \* _wake_up: the event is set
    stop,       \* _stop
    loop,       \* where run is, and the time left of sched's sleep or the
                \* entry being called
    app         \* where each thread is

vars == <<queue, wake_up, stop, loop, app>>

Delays == 0..MaxDelay
NoEntry == "no entry"
Itself  == "itself"     \* a callback, in the thread of run

ASSUME DelayAssumption    == MaxDelay \in Nat \ {0}
ASSUME PeriodicAssumption == Periodic \subseteq Entry
ASSUME EntryAssumption    == NoEntry \notin Entry
ASSUME LockingAssumption  == Locking \subseteq Thread /\ Itself \notin Thread

TypeOK ==
    /\ queue \in Seq([entry : Entry, left : Delays, by : Thread \cup {Itself}])
    /\ wake_up \in BOOLEAN /\ stop \in BOOLEAN
    /\ loop \in [at : {"sched", "sleep", "call", "wait", "clear", "check", "ended"},
                 left : Delays, entry : Entry \cup {NoEntry}]
    /\ app \in [Thread -> [at : {"ready", "enter", "stop", "stopped"},
                           entry : Entry \cup {NoEntry}, delay : Delays]]

At(place) == [at |-> place, left |-> 0, entry |-> NoEntry]
Ready     == [at |-> "ready", entry |-> NoEntry, delay |-> 0]

Init ==
    /\ queue = <<>> /\ wake_up = FALSE /\ stop = FALSE
    /\ loop = At("sched")
    /\ app = [t \in Thread |-> Ready]

-----------------------------------------------------------------------------
(* sched *)

Queued(e) == \E i \in DOMAIN queue : queue[i].entry = e

(* enterabs: behind the entries that are due before or with it. *)
Enters(e, d, t) ==
    \E k \in 0..Len(queue) :
      /\ \A i \in DOMAIN queue : queue[i].left <= d <=> i <= k
      /\ queue' = SubSeq(queue, 1, k) \o <<[entry |-> e, left |-> d, by |-> t]>>
                   \o SubSeq(queue, k + 1, Len(queue))

Leaves(i) == queue' = SubSeq(queue, 1, i - 1) \o SubSeq(queue, i + 1, Len(queue))

(* Time passes.  Entries that are late stay in their order. *)
Less(left) == IF left = 0 THEN 0 ELSE left - 1

Tick ==
    /\ queue' = [i \in DOMAIN queue |-> [queue[i] EXCEPT !.left = Less(@)]]
    /\ loop' = [loop EXCEPT !.left = Less(@)]
    /\ UNCHANGED <<wake_up, stop, app>>

-----------------------------------------------------------------------------
(* run *)

(* sched.run looks at the first entry; an entry that is added in front of  *)
(* it during the sleep is late.                                            *)
Select ==
    /\ loop.at = "sched"
    /\ IF queue = <<>> THEN loop' = At("wait") /\ UNCHANGED queue
       ELSE IF Head(queue).left > 0
       THEN /\ loop' = [At("sleep") EXCEPT !.left = Head(queue).left]
            /\ UNCHANGED queue
       ELSE /\ loop' = [At("call") EXCEPT !.entry = Head(queue).entry]
            /\ queue' = Tail(queue)
    /\ UNCHANGED <<wake_up, stop, app>>

Slept ==
    /\ loop.at = "sleep" /\ loop.left = 0
    /\ loop' = At("sched")
    /\ UNCHANGED <<queue, wake_up, stop, app>>

(* The callback.  It may add itself again. *)
Call ==
    /\ loop.at = "call"
    /\ loop' = At("sched")
    /\ IF loop.entry \in Periodic
       THEN Enters(loop.entry, MaxDelay, Itself) /\ wake_up' = TRUE
       ELSE UNCHANGED <<queue, wake_up>>
    /\ UNCHANGED <<stop, app>>

Wait ==
    /\ loop.at = "wait" /\ wake_up
    /\ loop' = At("clear")
    /\ UNCHANGED <<queue, wake_up, stop, app>>

Clear ==
    /\ loop.at = "clear"
    /\ wake_up' = FALSE /\ loop' = At("check")
    /\ UNCHANGED <<queue, stop, app>>

(* Holders of the lock are in the middle of add or stop. *)
Free == \A t \in Locking : app[t].at \notin {"enter", "stop"}

(* Variant of Check that does not wait for the lock. *)
CheckUnlocked ==
    /\ loop.at = "check"
    /\ loop' = At(IF stop THEN "ended" ELSE "sched")
    /\ UNCHANGED <<queue, wake_up, stop, app>>

Check ==
    /\ loop.at = "check" /\ Free
    /\ loop' = At(IF stop THEN "ended" ELSE "sched")
    /\ UNCHANGED <<queue, wake_up, stop, app>>

-----------------------------------------------------------------------------
(* The threads *)

MayUse(t) == app[t].at = "ready" /\ (t \in Locking => Free)

NewEntry(t) == \E e \in Entry, d \in Delays :
    /\ ~Queued(e) /\ loop.entry # e
    /\ \A u \in Thread : app[u].entry # e
    /\ app' = [app EXCEPT ![t] = [at |-> "enter", entry |-> e, delay |-> d]]

(* Variant of Add that sets no event. *)
AddQuietly(t) ==
    /\ MayUse(t)
    /\ NewEntry(t)
    /\ UNCHANGED <<queue, stop, loop, wake_up>>

(* add, up to and after the event is set *)
Add(t) ==
    /\ MayUse(t)
    /\ NewEntry(t)
    /\ wake_up' = TRUE
    /\ UNCHANGED <<queue, stop, loop>>

Enter(t) ==
    /\ app[t].at = "enter"
    /\ Enters(app[t].entry, app[t].delay, t)
    /\ app' = [app EXCEPT ![t] = Ready]
    /\ UNCHANGED <<wake_up, stop, loop>>

(* cancel raises, and changes nothing, when the entry is called already. *)
Cancel(t) ==
    /\ MayUse(t)
    /\ \E i \in DOMAIN queue : Leaves(i)
    /\ UNCHANGED <<wake_up, stop, loop, app>>

(* Variant of Stop that sets no event. *)
StopQuietly(t) ==
    /\ MayUse(t)
    /\ app' = [app EXCEPT ![t].at = "stop"]
    /\ UNCHANGED <<queue, stop, loop, wake_up>>

Stop(t) ==
    /\ MayUse(t)
    /\ app' = [app EXCEPT ![t].at = "stop"]
    /\ wake_up' = TRUE
    /\ UNCHANGED <<queue, stop, loop>>

SetStop(t) ==
    /\ app[t].at = "stop"
    /\ stop' = TRUE
    /\ app' = [app EXCEPT ![t].at = "stopped"]
    /\ UNCHANGED <<queue, wake_up, loop>>

Run == Select \/ Slept \/ Call \/ Wait \/ Clear \/ Check
Go(t) == Enter(t) \/ SetStop(t)

Next == \/ Tick \/ Run
        \/ \E t \in Thread : Add(t) \/ Cancel(t) \/ Stop(t) \/ Go(t)

Spec == Init /\ [][Next]_vars

(* Time passes, a thread that can go on does, and whoever waits for the    *)
(* lock gets it at last when it is free again and again.                   *)
FairSpec == /\ Spec
            /\ WF_vars(Tick) /\ WF_vars(Run) /\ SF_vars(Check)
            /\ \A t \in Thread : WF_vars(Go(t))

-----------------------------------------------------------------------------
(* Properties *)

(* Those whose calls must not be lost: the callbacks themselves and the    *)
(* threads that hold the lock.                                             *)
Safe == Locking \cup {Itself}
SafelyQueued(e) == \E i \in DOMAIN queue : queue[i].entry = e /\ queue[i].by \in Safe

(* The docstring of lock: "A global lock which can be used the assure      *)
(* thread safety".  run never waits for the event while an entry is queued *)
(* that a callback or a holder of the lock has added, nor after a holder   *)
(* of the lock has stopped it, whatever the others do without the lock:    *)
(* between the event and the entry or flag it was set for, run has not     *)
(* gone to sleep again.                                                    *)
NoLostWakeUp ==
    loop.at = "wait" /\ ~wake_up =>
      /\ \A i \in DOMAIN queue : queue[i].by \notin Safe
      /\ \A t \in Locking : app[t].at # "stopped"

(* The docstring of add: "callback: a function object called when time has *)
(* passed".  Such an entry leaves the queue, called or cancelled.          *)
EntriesAreCalled ==
    \A e \in Entry : SafelyQueued(e) ~> (~Queued(e) \/ loop.at = "ended")

(* stop by a holder of the lock ends run, once no callback adds itself     *)
(* again and no thread adds anything: with ever new entries sched.run does *)
(* not return.                                                             *)
StopEndsRun ==
    /\ <>[](\A e \in Periodic : ~Queued(e) /\ loop.entry # e)
    /\ <>[][\A t \in Thread : ~Add(t)]_vars
    => \A t \in Locking : app[t].at = "stopped" ~> loop.at = "ended"
===============================================================================
