---------------------------- MODULE AckWaitClock ----------------------------
(***************************************************************************)
(* One delivery of a message against the broker's ack_wait clock.          *)
(*                                                                         *)
(* While the handler is inside _in_progress_until_done, a second asyncio   *)
(* task sends an in-progress ack every interval, each of which restarts    *)
(* the clock (worker/dispatcher.py).  Time is a count of ticks.  The       *)
(* network and the event loop are given by two bounds: MaxLate, how late a *)
(* frame may reach the broker, and MaxMisses, how many in-progress acks in *)
(* a row may be lost or raise.                                             *)
(*                                                                         *)
(* The ack or NAK follows the last in-progress ack at once, except in the  *)
(* catch-all, which first awaits save_failure: no heartbeat runs then, and *)
(* nothing bounds how long the database takes.                             *)
(***************************************************************************)
EXTENDS Naturals

CONSTANTS
  Interval,  \* dispatcher._IN_PROGRESS_INTERVAL_SECONDS
  AckWait,   \* dispatcher._ACK_WAIT_SECONDS
  MaxLate,   \* ticks a due frame may take to reach the broker
  MaxMisses  \* in-progress acks in a row that do not reach it

Period == Interval + MaxLate

ASSUME ClockAssumption ==
  /\ Interval \in Nat \ {0} /\ AckWait \in Nat /\ MaxLate \in Nat /\ MaxMisses \in Nat
  /\ (MaxMisses + 1) * Period + MaxLate < AckWait

VARIABLES
  handler,   \* where _handle_message stands
  caught,    \* its catch-all has caught what _process raised
  beat,      \* the heartbeat task
  elapsed,   \* ticks since the heartbeat last went to sleep, or was stopped
  misses,    \* in-progress acks lost in a row
  age,       \* the broker's ack_wait clock for the message
  msg        \* the message, as the broker sees it

clockVars == <<handler, caught, beat, elapsed, misses, age, msg>>

ClockTypeOK ==
  /\ handler \in {"process", "leave", "save_failure", "answer", "done", "gone"}
  /\ caught \in BOOLEAN
  /\ beat \in {"on", "off"}
  /\ elapsed \in 0 .. Period
  /\ misses \in 0 .. MaxMisses
  /\ age \in 0 .. AckWait
  /\ msg \in {"pending", "acked", "naked", "due"}

ClockInit ==
  /\ handler = "process"
  /\ caught = FALSE
  /\ beat = "on"
  /\ elapsed = 0
  /\ misses = 0
  /\ age = 0
  /\ msg = "pending"

\* An in-progress ack is due once the sleep is over.
BeatDue == beat = "on" /\ elapsed >= Interval

\* An in-progress ack reaches the broker, which restarts the clock of a message
\* that it still waits for, or that has been NAKed with a delay (external).
InProgressAck ==
  /\ msg' = IF msg = "naked" THEN "pending" ELSE msg
  /\ age' = IF msg \in {"pending", "naked"} THEN 0 ELSE age
  /\ misses' = 0

InProgressAckLost ==
  /\ misses < MaxMisses
  /\ misses' = misses + 1
  /\ UNCHANGED <<age, msg>>

\* Mutant of SendInProgress: an ack that raises ends the heartbeat.
SendInProgressOnce ==
  /\ BeatDue /\ handler # "leave"
  /\ \/ InProgressAck /\ UNCHANGED beat
     \/ InProgressAckLost /\ beat' = "off"
  /\ elapsed' = 0
  /\ UNCHANGED <<handler, caught>>

\* _send_in_progress: one round of the loop, which an ack that raises does not
\* end.
SendInProgress ==
  /\ BeatDue /\ handler # "leave"
  /\ InProgressAck \/ InProgressAckLost
  /\ elapsed' = 0
  /\ UNCHANGED <<handler, caught, beat>>

\* _process returns or raises, a _TransientError or something unexpected: the
\* finally clause cancels the heartbeat.
Leave ==
  /\ handler = "process"
  /\ handler' = "leave"
  /\ caught' \in BOOLEAN
  /\ UNCHANGED <<beat, elapsed, misses, age, msg>>

\* Mutant of HeartbeatStopped: the handler does not wait for the heartbeat.
HeartbeatStoppedUnawaited ==
  /\ handler = "leave"
  /\ handler' = IF caught THEN "save_failure" ELSE "answer"
  /\ UNCHANGED <<caught, beat, elapsed, misses, age, msg>>

\* asyncio.wait({heartbeat}) returns: the cancelled task has ended, its last
\* frame, if one was due, sent or not.
HeartbeatStopped ==
  /\ handler = "leave"
  /\ handler' = IF caught THEN "save_failure" ELSE "answer"
  /\ beat' = "off"
  /\ elapsed' = 0
  /\ UNCHANGED caught
  /\ \/ UNCHANGED <<misses, age, msg>>
     \/ BeatDue /\ InProgressAck

\* The catch-all's save_failure returns (one that raises is a Stop).
SaveFailure ==
  /\ handler = "save_failure"
  /\ handler' = "answer"
  /\ elapsed' = 0
  /\ UNCHANGED <<caught, beat, misses, age, msg>>

\* The ack, in the catch-all too, or the NAK.  For a message that is due it comes
\* too late: the broker has handed out the next delivery.
AnswerMessage ==
  /\ handler = "answer"
  /\ handler' = "done"
  /\ \/ msg = "pending" /\ msg' = "acked"
     \/ msg = "pending" /\ ~caught /\ msg' = "naked"
     \/ msg # "pending" /\ UNCHANGED msg
  /\ UNCHANGED <<caught, beat, elapsed, misses, age>>

\* Mutant of Stop: a cancelled handler leaves its heartbeat running.
StopHandlerOnly ==
  /\ handler \in {"process", "leave", "save_failure", "answer"}
  /\ handler' = "gone"
  /\ UNCHANGED <<caught, beat, elapsed, misses, age, msg>>

\* The worker dies, or its shutdown cancels the handler, whose finally clause
\* then cancels the heartbeat; or the catch-all's save_failure raises.
Stop ==
  /\ handler \in {"process", "leave", "save_failure", "answer"}
  /\ handler' = "gone"
  /\ beat' = "off"
  /\ elapsed' = 0
  /\ UNCHANGED <<caught, misses, age, msg>>

\* The broker (external): the message is due again once its clock has run out.
Expire ==
  /\ msg = "pending" /\ age = AckWait
  /\ msg' = "due"
  /\ UNCHANGED <<handler, caught, beat, elapsed, misses, age>>

\* Time passes until the next frame is overdue; save_failure takes as long as it
\* takes.
Tick ==
  /\ msg = "pending"
  /\ age < AckWait
  /\ beat = "on" => elapsed < Period
  /\ handler = "answer" => elapsed < MaxLate
  /\ age' = age + 1
  /\ elapsed' = IF beat = "on" \/ handler = "answer" THEN elapsed + 1 ELSE elapsed
  /\ UNCHANGED <<handler, caught, beat, misses, msg>>

ClockNext ==
  \/ SendInProgress \/ Leave \/ HeartbeatStopped \/ SaveFailure \/ AnswerMessage \/ Stop
  \/ Expire \/ Tick

ClockSpec == ClockInit /\ [][ClockNext]_clockVars

\* Time goes on, the tasks on the event loop run, and the broker expires what
\* is overdue.  Whether _process or save_failure ever returns is left open.
ClockFairness ==
  /\ WF_clockVars(Tick) /\ WF_clockVars(SendInProgress) /\ WF_clockVars(HeartbeatStopped)
  /\ WF_clockVars(AnswerMessage) /\ WF_clockVars(Expire)

ClockFairSpec == ClockSpec /\ ClockFairness
-----------------------------------------------------------------------------

\* However long a generation runs, its message is not redelivered while
\* _process works, nor before the answer that follows it: a run of MaxMisses
\* lost in-progress acks, each other one MaxLate ticks late, does not let
\* ack_wait lapse (dispatcher.py:106-108).  It lapses only for a handler that is
\* gone, or that has come to the catch-all and its save_failure.
NeverLapses ==
  msg = "due" => handler \notin {"process", "leave"} /\ (handler = "gone" \/ caught)

\* Refuted: it is redelivered only for a handler that died or was cancelled
\* (dispatcher.py:44-45).  The catch-all awaits save_failure without a heartbeat.
RedeliveredOnlyIfGone == msg = "due" => handler = "gone"

\* No in-progress ack follows the ack or the NAK: the broker would take the
\* NAKed message for one in progress again (dispatcher.py:336-339).
AnswerStands == [][(msg \in {"acked", "naked"}) => msg' = msg]_clockVars

\* The heartbeat does not outlive its handler: the message of a handler that
\* was killed or cancelled becomes due again (dispatcher.py:44-45).
LostIsRedelivered == handler = "gone" ~> msg = "due"
=============================================================================
