---------------------------- MODULE MessageTracker ----------------------------
(***************************************************************************)
(* The message tracker of internal/producer/tracker.go.  Its methods are   *)
(* one section each under its mutex; beside their callers run a goroutine  *)
(* that cleans up on a ticker and the Close that stops it.                 *)
(*                                                                         *)
(* Time is the age of each status, up to the first that is beyond the      *)
(* retention time.  Of a receipt, its status is kept; SetReceipt reads it  *)
(* twice (tracker.go:138, :149), which is one read as long as its owner    *)
(* does not change it in just that moment.  Methods that only read, and    *)
(* calls for a message that is not tracked, change nothing.                *)
(***************************************************************************)
EXTENDS Integers, Sequences

CONSTANTS Message,
          MaxHistory, RetentionTime,
          Updates, Receipts, \* the states that callers report
          MaxLog             \* bound: entries since a message was tracked

DeliveryStatus == {"success", "partial_failure", "failed", "pending", "timeout", "cancelled"}

ASSUME TrackerAssumption ==
    /\ MaxHistory \in Nat \ {0} /\ RetentionTime \in Nat /\ MaxLog \in Nat
    /\ Updates \subseteq DeliveryStatus /\ Receipts \subseteq DeliveryStatus

VARIABLES
    statuses,  \* the status of each message, or Untracked
    log,       \* history: every state since the message was tracked
    ticker,    \* the ticker runs
    tick,      \* there is a tick in its channel
    stopped,   \* stopCleanup is closed
    cleaner    \* where the clean-up goroutine is

cleaning == <<ticker, tick, stopped, cleaner>>
trackerVars == <<statuses, log, cleaning>>

NoReceipt == "none"
Untracked == [CurrentState |-> "untracked", Receipt |-> NoReceipt, Age |-> 0, History |-> <<>>]

Tracked == {m \in Message : statuses[m] # Untracked}

TrackerInit ==
    /\ statuses = [m \in Message |-> Untracked]
    /\ log = [m \in Message |-> <<>>]
    /\ ticker = TRUE /\ tick = FALSE
    /\ stopped = FALSE
    /\ cleaner = "waiting"

-----------------------------------------------------------------------------
\* A message that is tracked already starts anew.
TrackMessage(m) ==
    /\ statuses' = [statuses EXCEPT ![m] =
           [CurrentState |-> "pending", Receipt |-> NoReceipt, Age |-> 0, History |-> <<"pending">>]]
    /\ log' = [log EXCEPT ![m] = <<"pending">>]
    /\ UNCHANGED cleaning

\* Mutant: the history is cut at its new end.
Trim_Newest(history) == SubSeq(history, 1, MaxHistory)

Trim(history) ==
    IF Len(history) > MaxHistory
      THEN SubSeq(history, Len(history) - MaxHistory + 1, Len(history))
      ELSE history

Record(m, s, receipt) ==
    /\ m \in Tracked /\ Len(log[m]) < MaxLog
    /\ statuses' = [statuses EXCEPT ![m] =
           [CurrentState |-> s, Receipt |-> receipt, Age |-> 0,
            History |-> Trim(Append(statuses[m].History, s))]]
    /\ log' = [log EXCEPT ![m] = Append(@, s)]
    /\ UNCHANGED cleaning

\* Any state may follow any other.
UpdateStatus(m) == \E s \in Updates : Record(m, s, statuses[m].Receipt)

SetReceipt(m) == \E s \in Receipts : Record(m, s, s)

\* What the owner of a receipt may make of it: SetError, SetTimeout, SetCancelled.
SetError == "failed"
SetTimeout == "timeout"
SetCancelled == "cancelled"

\* The tracker keeps the pointer it was given, so the owner changes the receipt
\* in it too: without the mutex, and without the state or the history following.
OwnerChangesReceipt(m) ==
    /\ m \in Tracked /\ statuses[m].Receipt # NoReceipt
    /\ \E s \in {SetError, SetTimeout, SetCancelled} :
           statuses' = [statuses EXCEPT ![m] = [statuses[m] EXCEPT !.Receipt = s]]
    /\ UNCHANGED <<log, cleaning>>

RemoveMessage(m) ==
    /\ m \in Tracked
    /\ statuses' = [statuses EXCEPT ![m] = Untracked]
    /\ log' = [log EXCEPT ![m] = <<>>]
    /\ UNCHANGED cleaning

Clear ==
    /\ statuses' = [m \in Message |-> Untracked]
    /\ log' = [m \in Message |-> <<>>]
    /\ UNCHANGED cleaning

-----------------------------------------------------------------------------
(* The goroutine of startCleanupRoutine.                                   *)

\* Mutant: a failed message is not done.
isFinalState_NotFailed(s) == s \in {"success", "cancelled"}

isFinalState(s) == s \in {"success", "failed", "cancelled"}

Expired(m) == statuses[m].Age > RetentionTime /\ isFinalState(statuses[m].CurrentState)

cleanupOldStatuses ==
    /\ cleaner = "waiting" /\ tick
    /\ tick' = FALSE
    /\ statuses' = [m \in Message |-> IF Expired(m) THEN Untracked ELSE statuses[m]]
    /\ log' = [m \in Message |-> IF Expired(m) THEN <<>> ELSE log[m]]
    /\ UNCHANGED <<ticker, stopped, cleaner>>

\* When a tick waits too, the select may take either.
StopCleaner ==
    /\ cleaner = "waiting" /\ stopped
    /\ cleaner' = "gone"
    /\ ticker' = FALSE
    /\ UNCHANGED <<statuses, log, tick, stopped>>

Cleaner == cleanupOldStatuses \/ StopCleaner

\* The channel of a ticker has room for one tick; the others are lost.
Fire ==
    /\ ticker /\ ~tick
    /\ tick' = TRUE
    /\ UNCHANGED <<statuses, log, ticker, stopped, cleaner>>

\* Close, which the service calls once: it closes the channel, and then stops
\* the ticker, as the goroutine may have done by then.
Close ==
    /\ ~stopped
    /\ stopped' = TRUE
    /\ UNCHANGED <<statuses, log, ticker, tick, cleaner>>

\* Mutant: the ticker is left to the goroutine.
StopTicker_LeftToCleaner ==
    /\ stopped /\ ticker /\ cleaner = "gone"
    /\ ticker' = FALSE
    /\ UNCHANGED <<statuses, log, tick, stopped, cleaner>>

StopTicker ==
    /\ stopped /\ ticker
    /\ ticker' = FALSE
    /\ UNCHANGED <<statuses, log, tick, stopped, cleaner>>

TimePasses ==
    /\ \E m \in Tracked : statuses[m].Age <= RetentionTime
    /\ statuses' = [m \in Message |->
           IF m \in Tracked /\ statuses[m].Age <= RetentionTime
             THEN [statuses[m] EXCEPT !.Age = @ + 1]
             ELSE statuses[m]]
    /\ UNCHANGED <<log, cleaning>>

TrackerNext ==
    \/ \E m \in Message : TrackMessage(m) \/ UpdateStatus(m) \/ SetReceipt(m)
                         \/ OwnerChangesReceipt(m) \/ RemoveMessage(m)
    \/ Clear
    \/ Cleaner \/ Fire \/ Close \/ StopTicker
    \/ TimePasses

TrackerSpec == TrackerInit /\ [][TrackerNext]_trackerVars

\* The goroutine runs, a Close that was begun ends, the ticker fires and time
\* passes.
TrackerFairSpec ==
    /\ TrackerSpec
    /\ WF_trackerVars(Cleaner) /\ WF_trackerVars(StopTicker)
    /\ WF_trackerVars(Fire) /\ WF_trackerVars(TimePasses)

-----------------------------------------------------------------------------
MessageStatus ==
    [CurrentState : DeliveryStatus, Receipt : DeliveryStatus \cup {NoReceipt},
     Age : 0..(RetentionTime + 1), History : Seq(DeliveryStatus)]

TrackerTypeOK ==
    /\ statuses \in [Message -> MessageStatus \cup {Untracked}]
    /\ log \in [Message -> Seq(DeliveryStatus)]
    /\ ticker \in BOOLEAN /\ tick \in BOOLEAN /\ stopped \in BOOLEAN
    /\ cleaner \in {"waiting", "gone"}

\* h is the end of full.
EndOf(h, full) ==
    /\ Len(h) <= Len(full)
    /\ \A i \in 1..Len(h) : h[i] = full[Len(full) - Len(h) + i]

Recent(status, full) ==
    /\ Len(status.History) \in 1..MaxHistory
    /\ status.History[Len(status.History)] = status.CurrentState
    /\ Len(status.History) < Len(full) => Len(status.History) = MaxHistory
    /\ EndOf(status.History, full)

\* The history of a tracked message is the end of what was reported for it since
\* it was tracked: never empty, never too long, and its last entry is the state.
HistoryIsRecent == \A m \in Tracked : Recent(statuses[m], log[m])

\* tracker.go:299 "cleanupOldStatuses removes statuses older than the retention
\* time": while the tracker is open a message that reached an end and is not
\* reported again does not stay for ever.
FinalsAreRemoved ==
    \A m \in Message :
        statuses[m].CurrentState \in {"success", "failed", "cancelled"} ~>
            \/ statuses[m].CurrentState \notin {"success", "failed", "cancelled"}
            \/ stopped

\* tracker.go:338 "Close stops the tracker and cleanup routine": the select may
\* prefer ticks for as long as there are any, and there are no more in the end.
CleanerStops == stopped ~> cleaner = "gone"
=============================================================================
