--------------------------- MODULE SchedulerProofs ---------------------------
(***************************************************************************)
(* Theorems about SyncScheduler, for any threads, callbacks and delays,    *)
(* and any set of threads that hold the lock.                              *)
(***************************************************************************)
EXTENDS SyncScheduler, SequenceTheorems, TLAPS

Places == {"sched", "sleep", "call", "wait", "clear", "check", "ended"}
Phase  == {"ready", "enter", "stop", "stopped"}

(* The entries added by some of the threads or the callbacks. *)
Of(who) == [entry : Entry, left : Delays, by : who]
Anyone  == Thread \cup {Itself}
Others  == Thread \ Locking

Typed ==
    /\ queue \in Seq(Of(Anyone))
    /\ loop \in [at : Places, left : Delays, entry : Entry \cup {NoEntry}]
    /\ app \in [Thread -> [at : Phase, entry : Entry \cup {NoEntry}, delay : Delays]]
    /\ \A t \in Thread : app[t].at = "enter" => app[t].entry \in Entry
    /\ \A t \in Thread : app[t].at = "stopped" => stop
    /\ loop.at = "call" => loop.entry \in Entry

(* While run may still go to sleep on the event, the event is set for      *)
(* whatever is on its way from a holder of the lock: an entry announced    *)
(* and not yet in the queue, a stop announced or set.                      *)
OnItsWay == \E t \in Locking : app[t].at \in {"enter", "stop", "stopped"}
Announced == OnItsWay /\ loop.at \in {"sched", "sleep", "call", "wait"} => wake_up

(* It does sleep only while all entries are from others. *)
SleepsAlone == loop.at = "wait" /\ ~wake_up => queue \in Seq(Of(Others))

Inv == Typed /\ Announced /\ SleepsAlone

LEMMA InitInv == Init => Inv
<1> SUFFICES ASSUME Init PROVE Inv
  OBVIOUS
<1>1. 0 \in Delays /\ Locking \subseteq Thread
  BY DelayAssumption, LockingAssumption DEF Delays
<1> QED
  BY <1>1 DEF Init, Inv, Typed, Announced, SleepsAlone, OnItsWay, At, Ready, Places, Phase

-----------------------------------------------------------------------------
(* The queue *)

LEMMA LessLeft == \A d \in Delays : Less(d) \in Delays
  BY DelayAssumption DEF Less, Delays

LEMMA TimePasses ==
    ASSUME NEW S, queue \in Seq(Of(S))
    PROVE  [i \in DOMAIN queue |-> [queue[i] EXCEPT !.left = Less(@)]] \in Seq(Of(S))
<1>1. \A i \in 1..Len(queue) : queue[i] \in Of(S)
  BY ElementOfSeq
<1>2. \A q \in Of(S) : [q EXCEPT !.left = Less(@)] \in Of(S)
  BY LessLeft DEF Of
<1> QED
  BY <1>1, <1>2

LEMMA EntersKeeps ==
    ASSUME NEW S, queue \in Seq(Of(S)), NEW e \in Entry, NEW d \in Delays, NEW t \in S,
           Enters(e, d, t)
    PROVE  queue' \in Seq(Of(S))
<1>1. PICK k \in 0..Len(queue) :
        queue' = SubSeq(queue, 1, k) \o <<[entry |-> e, left |-> d, by |-> t]>>
                   \o SubSeq(queue, k + 1, Len(queue))
  BY DEF Enters
<1>2. \A i \in 1..Len(queue) : queue[i] \in Of(S)
  BY ElementOfSeq
<1>3. SubSeq(queue, 1, k) \in Seq(Of(S)) /\ SubSeq(queue, k + 1, Len(queue)) \in Seq(Of(S))
  BY <1>2, SubSeqProperties
<1>4. <<[entry |-> e, left |-> d, by |-> t]>> \in Seq(Of(S))
  BY DEF Of
<1> QED
  BY <1>1, <1>3, <1>4, ConcatProperties

LEMMA LeavesKeeps ==
    ASSUME NEW S, queue \in Seq(Of(S)), NEW i \in DOMAIN queue, Leaves(i)
    PROVE  queue' \in Seq(Of(S))
<1>1. \A k \in 1..Len(queue) : queue[k] \in Of(S)
  BY ElementOfSeq
<1>2. /\ SubSeq(queue, 1, i - 1) \in Seq(Of(S))
      /\ SubSeq(queue, i + 1, Len(queue)) \in Seq(Of(S))
  BY <1>1, SubSeqProperties
<1> QED
  BY <1>2, ConcatProperties DEF Leaves

-----------------------------------------------------------------------------
(* The scheduler's thread *)

LEMMA RunInv == ASSUME Inv, Tick \/ Run PROVE Inv'
<1> USE DEF Inv, Typed, Announced, SleepsAlone, OnItsWay, At, Places
<1>0. 0 \in Delays
  BY DelayAssumption DEF Delays
<1>1. CASE Tick
  <2>1. loop' \in [at : Places, left : Delays, entry : Entry \cup {NoEntry}]
        /\ loop'.at = loop.at /\ loop'.entry = loop.entry
    BY <1>1, LessLeft DEF Tick
  <2>2. /\ queue' \in Seq(Of(Anyone))
        /\ queue \in Seq(Of(Others)) => queue' \in Seq(Of(Others))
    BY <1>1, TimePasses DEF Tick
  <2> QED
    BY <1>1, <2>1, <2>2 DEF Tick
<1>2. CASE Select
  <2>1. CASE queue = <<>>
    BY <1>0, <1>2, <2>1 DEF Select
  <2>2. CASE queue # <<>>
    <3>1. /\ Head(queue) \in Of(Anyone) /\ Tail(queue) \in Seq(Of(Anyone))
      BY <2>2, HeadTailProperties
    <3>2. /\ loop'.at \in {"sleep", "call"} /\ queue' \in Seq(Of(Anyone))
          /\ loop' \in [at : Places, left : Delays, entry : Entry \cup {NoEntry}]
          /\ loop'.at = "call" => loop'.entry \in Entry
      BY <1>0, <1>2, <2>2, <3>1 DEF Select, Of
    <3> QED
      BY <1>2, <3>2 DEF Select
  <2> QED
    BY <2>1, <2>2
<1>3. CASE Slept
  BY <1>0, <1>3 DEF Slept
<1>4. CASE Call
  <2>1. queue' \in Seq(Of(Anyone))
    BY <1>4, EntersKeeps, DelayAssumption DEF Call, Anyone, Delays
  <2> QED
    BY <1>0, <1>4, <2>1 DEF Call
<1>5. CASE Wait
  BY <1>0, <1>5 DEF Wait
<1>6. CASE Clear
  BY <1>0, <1>6 DEF Clear
<1>7. CASE Check
  <2>1. ~stop => ~OnItsWay
    BY <1>7, LockingAssumption DEF Check, Free
  <2> QED
    BY <1>0, <1>7, <2>1 DEF Check
<1> QED
  BY <1>1, <1>2, <1>3, <1>4, <1>5, <1>6, <1>7 DEF Run

-----------------------------------------------------------------------------
(* The application's threads *)

LEMMA ThreadInv ==
    ASSUME Inv, NEW t \in Thread, Add(t) \/ Cancel(t) \/ Stop(t) \/ Go(t)
    PROVE  Inv'
<1> USE DEF Inv, Typed, Announced, SleepsAlone, OnItsWay, Phase
<1>1. CASE Add(t)
  <2>1. PICK e \in Entry, d \in Delays :
          app' = [app EXCEPT ![t] = [at |-> "enter", entry |-> e, delay |-> d]]
    BY <1>1 DEF Add, NewEntry
  <2> QED
    BY <1>1, <2>1 DEF Add
<1>2. CASE Cancel(t)
  <2>1. PICK i \in DOMAIN queue : Leaves(i)
    BY <1>2 DEF Cancel
  <2>2. /\ queue' \in Seq(Of(Anyone))
        /\ queue \in Seq(Of(Others)) => queue' \in Seq(Of(Others))
    BY <2>1, LeavesKeeps
  <2> QED
    BY <1>2, <2>2 DEF Cancel
<1>3. CASE Stop(t)
  BY <1>3 DEF Stop, MayUse
<1>4. CASE Enter(t)
  <2>1. /\ app[t].at = "enter" /\ app[t].entry \in Entry /\ app[t].delay \in Delays
        /\ Enters(app[t].entry, app[t].delay, t)
        /\ app' = [app EXCEPT ![t] = Ready]
    BY <1>4 DEF Enter
  <2>2. Ready \in [at : Phase, entry : Entry \cup {NoEntry}, delay : Delays]
    BY DelayAssumption DEF Ready, Delays
  <2>3. queue' \in Seq(Of(Anyone))
    BY <2>1, EntersKeeps DEF Anyone
  <2>4. loop.at = "wait" /\ ~wake_up => t \notin Locking
    BY <2>1
  <2>5. loop.at = "wait" /\ ~wake_up => queue' \in Seq(Of(Others))
    BY <2>1, <2>4, EntersKeeps DEF Others
  <2> QED
    BY <1>4, <2>1, <2>2, <2>3, <2>5 DEF Enter, Ready
<1>5. CASE SetStop(t)
  BY <1>5 DEF SetStop
<1> QED
  BY <1>1, <1>2, <1>3, <1>4, <1>5 DEF Go

LEMMA NextInv == Inv /\ [Next]_vars => Inv'
<1> SUFFICES ASSUME Inv, [Next]_vars PROVE Inv'
  OBVIOUS
<1>1. CASE UNCHANGED vars
  BY <1>1 DEF vars, Inv, Typed, Announced, SleepsAlone, OnItsWay
<1>2. CASE Next
  BY <1>2, RunInv, ThreadInv DEF Next
<1> QED
  BY <1>1, <1>2

-----------------------------------------------------------------------------

(* run never sleeps on its event while an entry that a callback or a       *)
(* holder of the lock has added is in the queue, or after a holder of the  *)
(* lock has stopped it, for any number of threads that hold the lock and   *)
(* of others that add, cancel and stop without it.                         *)
THEOREM NoWakeUpIsLost == Spec => []NoLostWakeUp
<1>1. Inv => NoLostWakeUp
  <2> SUFFICES ASSUME Inv, loop.at = "wait", ~wake_up PROVE NoLostWakeUp
    BY DEF NoLostWakeUp
  <2>1. \A i \in 1..Len(queue) : queue[i] \in Of(Others)
    BY ElementOfSeq DEF Inv, SleepsAlone
  <2>2. \A i \in DOMAIN queue : queue[i].by \notin Safe
    BY <2>1, LockingAssumption DEF Of, Others, Safe, Inv, Typed
  <2>3. \A t \in Locking : app[t].at # "stopped"
    BY DEF Inv, Announced, OnItsWay
  <2> QED
    BY <2>2, <2>3 DEF NoLostWakeUp
<1> QED
  BY InitInv, NextInv, <1>1, PTL DEF Spec
=============================================================================
