------------------------------ MODULE JobWatch ------------------------------
(***************************************************************************)
(* How the submitter sees the job: a browser page that wakes the backend,  *)
(* submits the job, opens its event stream once the API has accepted it    *)
(* and falls back to polling when the stream fails.  The stream's server   *)
(* side is a timer that reads the job hash every second; its events reach  *)
(* the page later, but in their order.  Polls may be refused or get lost,  *)
(* and overtake each other when more than one is out.                      *)
(*                                                                         *)
(* An event is abstracted to the status it carries, so updatedAt, by which *)
(* the server tells whether there is news, is abstracted to the status.    *)
(* A page follows one job; waking shares no state with the engine's parts  *)
(* below, so that its steps may be, and are, taken before all of theirs.   *)
(***************************************************************************)
EXTENDS JobLifecycle, WakeClient

CONSTANTS
  Watched,      \* the jobs a page follows
  WatchFaults,  \* which of its requests fail
  MaxPolls      \* bound: polls of a job that are out at the same time

ASSUME WatchAssumption ==
  /\ Watched \subseteq Jobs \cap Actions
  /\ WatchFaults \subseteq {"answerLost", "snapshotFails", "streamDrops", "pollRefused", "pollThrows"}
  /\ MaxPolls \in Nat \ {0}

VARIABLES
  page,    \* where each page is
  shown,   \* the status it shows
  sent,    \* the last status its stream has sent; "closed" once it has ended
  wire,    \* events on their way to the page
  replies  \* what each poll that is out has read, on its way to the page

pageVars  == <<page, shown, sent, wire, replies>>
watchVars == <<vars, wakeVars, pageVars>>

PageStates ==
  {"submitting",  \* ensureBackendAwake, POST /v1/jobs
   "streaming",   \* streamJobEvents
   "polling",     \* pollJob: the first fetchStatus
   "interval",    \* pollJob: one fetchStatus every two seconds
   "settled",     \* follows the job no more: it has seen the end of it
   "abandoned"}   \* follows the job no more: it has shown an error of its own

NoEvent == "none"
Polls   == 1 .. MaxPolls

WatchInit ==
  /\ page    = [j \in Watched |-> "submitting"]
  /\ shown   = [j \in Watched |-> "queued"]
  /\ sent    = [j \in Watched |-> NoEvent]
  /\ wire    = [j \in Watched |-> <<>>]
  /\ replies = [j \in Watched |-> [n \in Polls |-> NoEvent]]

Leave(j, from, to) ==
  /\ page[j] = from
  /\ page' = [page EXCEPT ![j] = to]

\* 202: the page asks for the events, and the stream begins.
OpenStream(j) ==
  /\ api[j] = "accepted"
  /\ Leave(j, "submitting", IF status[j] = "absent" THEN "polling" ELSE "streaming")
  /\ UNCHANGED <<shown, sent, wire, replies>>

\* The wake threw, or the answer is any other: the page shows the job as failed
\* and forgets it.
ShowRefusal(j) ==
  /\ asked[j] = "failed" \/ api[j] \in {"rejected", "unavailable", "error", "crashed"}
  /\ Leave(j, "submitting", "abandoned")
  /\ shown' = [shown EXCEPT ![j] = "failed"]
  /\ UNCHANGED <<sent, wire, replies>>

\* The request was sent, and no answer comes: the submission is not repeated.
LoseAnswer(j) ==
  /\ "answerLost" \in WatchFaults
  /\ asked[j] = "sent"
  /\ Leave(j, "submitting", "abandoned")
  /\ shown' = [shown EXCEPT ![j] = "failed"]
  /\ UNCHANGED <<sent, wire, replies>>

\* Mutants: nothing but "done" is sent for a final status; "failed" is not final.
DoneOnly(j) ==
  /\ page[j] = "streaming" /\ sent[j] # "closed" /\ sent[j] # status[j]
  /\ LET final == status[j] \in Terminal
     IN  /\ sent' = [sent EXCEPT ![j] = IF final THEN "closed" ELSE status[j]]
         /\ wire' = [wire EXCEPT ![j] = Append(@, IF final THEN "done" ELSE status[j])]
  /\ UNCHANGED <<page, shown, replies>>

FailedNotFinal(j) ==
  /\ page[j] = "streaming" /\ sent[j] # "closed" /\ sent[j] # status[j]
  /\ LET final == status[j] = "succeeded"
     IN  /\ sent' = [sent EXCEPT ![j] = IF final THEN "closed" ELSE status[j]]
         /\ wire' = [wire EXCEPT ![j] = @ \o IF final THEN <<status[j], "done">> ELSE <<status[j]>>]
  /\ UNCHANGED <<page, shown, replies>>

\* One HGETALL and, without another await, the events it gives rise to.
PublishSnapshot(j) ==
  /\ page[j] = "streaming" /\ sent[j] # "closed" /\ sent[j] # status[j]
  /\ LET final == status[j] \in Terminal
         gone  == status[j] = "absent"
     IN  /\ sent' = [sent EXCEPT ![j] = IF final \/ gone THEN "closed" ELSE status[j]]
         /\ wire' = [wire EXCEPT ![j] = @ \o IF gone THEN <<"error">>
                                             ELSE IF final THEN <<status[j], "done">>
                                             ELSE <<status[j]>>]
  /\ UNCHANGED <<page, shown, replies>>

\* The page reads the next event.
ReceiveEvent(j) ==
  /\ page[j] = "streaming" /\ wire[j] # <<>>
  /\ wire' = [wire EXCEPT ![j] = Tail(@)]
  /\ LET event == Head(wire[j])
     IN  /\ page'  = [page EXCEPT ![j] = IF event = "done" THEN "settled"
                                         ELSE IF event = "error" THEN "polling" ELSE @]
         /\ shown' = [shown EXCEPT ![j] = IF event \in {"done", "error"} THEN @ ELSE event]
  /\ UNCHANGED <<sent, replies>>

\* Redis does not answer the stream's timer: stream_failed, and the end.
SnapshotFails(j) ==
  /\ "snapshotFails" \in WatchFaults
  /\ page[j] = "streaming" /\ sent[j] # "closed"
  /\ sent' = [sent EXCEPT ![j] = "closed"]
  /\ wire' = [wire EXCEPT ![j] = Append(@, "error")]
  /\ UNCHANGED <<page, shown, replies>>

\* The read fails: what was on its way is lost, and the server closes its end.
StreamDrops(j) ==
  /\ "streamDrops" \in WatchFaults
  /\ Leave(j, "streaming", "polling")
  /\ sent' = [sent EXCEPT ![j] = "closed"]
  /\ wire' = [wire EXCEPT ![j] = <<>>]
  /\ UNCHANGED <<shown, replies>>

\* What the n-th poll is to bring: a status, or an answer that is not ok.
Poll(j, n, what) ==
  /\ replies[j][n] = NoEvent
  /\ page[j] = "interval" \/ (page[j] = "polling" /\ \A m \in Polls : replies[j][m] = NoEvent)
  /\ replies' = [replies EXCEPT ![j][n] = what]
  /\ UNCHANGED <<page, shown, sent, wire>>

\* GET /v1/jobs/:jobId reads the hash; without one it answers 404.
GetExecution(j) == \E n \in Polls : Poll(j, n, IF status[j] = "absent" THEN "refused" ELSE status[j])

\* 429 of the rate limit, or 5xx.
RefusePoll(j) == "pollRefused" \in WatchFaults /\ \E n \in Polls : Poll(j, n, "refused")

\* fetchStatus: the interval is set after the first one, whatever it found, and
\* cleared by a later one that finds a final status or is refused.
FetchStatus(j) ==
  \E n \in Polls :
    LET answer == replies[j][n]
    IN  /\ answer # NoEvent
        /\ replies' = [replies EXCEPT ![j][n] = NoEvent]
        /\ shown' = [shown EXCEPT ![j] = IF answer = "refused" THEN "failed" ELSE answer]
        /\ page'  = [page EXCEPT ![j] = IF @ = "polling" THEN "interval"
                                        ELSE IF @ # "interval" THEN @
                                        ELSE IF answer = "refused" THEN "abandoned"
                                        ELSE IF answer \in Terminal THEN "settled" ELSE @]
        /\ UNCHANGED <<sent, wire>>

\* A first poll that gets no answer ends the following with network_error; a
\* later one is an unhandled rejection, and the interval goes on.
LosePoll(j) ==
  /\ "pollThrows" \in WatchFaults
  /\ \E n \in Polls :
       /\ replies[j][n] # NoEvent
       /\ replies' = [replies EXCEPT ![j][n] = NoEvent]
  /\ page'  = [page EXCEPT ![j] = IF @ = "polling" THEN "abandoned" ELSE @]
  /\ shown' = [shown EXCEPT ![j] = IF page[j] = "polling" THEN "failed" ELSE @]
  /\ UNCHANGED <<sent, wire>>

Follow(j) ==
  \/ OpenStream(j)
  \/ ShowRefusal(j)
  \/ PublishSnapshot(j)
  \/ ReceiveEvent(j)
  \/ GetExecution(j)
  \/ FetchStatus(j)

Disturb(j) == LoseAnswer(j) \/ SnapshotFails(j) \/ StreamDrops(j) \/ RefusePoll(j) \/ LosePoll(j)

(***************************************************************************)
(* The composition.  No submission has begun while the page wakes the      *)
(* backend, and its other actions have been answered when one begins.      *)
(***************************************************************************)
Others   == Actions \ Watched
NotBegun == day = 0 /\ \A j \in Jobs : api[j] = "idle"
Woken    == /\ loop = "off" /\ ~fresh
            /\ \A a \in Actions : asked[a] = "idle" \/ (a \in Watched /\ asked[a] # "waiting")

WakeStep ==
  /\ NotBegun
  /\ \/ LoopStep
     \/ Stale
     \/ RefreshHealth
     \/ \E a \in Actions : Ask(a)
     \/ \E a \in Others : Answer(a)
  /\ UNCHANGED <<vars, pageVars>>

\* The page's submission arrives when its action is sent.
SentFirst == \A j \in Watched : api[j] = "idle" /\ api'[j] # "idle" => asked[j] = "sent"

EngineStep == Next /\ Woken /\ SentFirst /\ UNCHANGED <<wakeVars, pageVars>>

WatchNext ==
  \/ EngineStep
  \/ WakeStep
  \/ \E j \in Watched : Woken /\ (Follow(j) \/ Disturb(j)) /\ UNCHANGED <<vars, wakeVars>>

PagesInit == Init /\ WakeInit /\ WatchInit

\* The stream's timer and the page's go on and the network delivers: not every
\* poll gets lost.
WatchSpec ==
  /\ PagesInit
  /\ [][WatchNext]_watchVars
  /\ Fairness
  /\ WF_watchVars(LoopStep /\ UNCHANGED <<vars, pageVars>>)
  /\ \A j \in Watched :
       /\ WF_watchVars(Follow(j) /\ UNCHANGED <<vars, wakeVars>>)
       /\ SF_watchVars(FetchStatus(j) /\ UNCHANGED <<vars, wakeVars>>)
-----------------------------------------------------------------------------
\* A page that has stopped following an accepted job without an error of its own
\* shows its final status, whichever of the stream and the polls it learnt it
\* from, and whatever got lost before.
ShownIsFinal ==
  \A j \in Watched : page[j] = "settled" =>
    status[j] \in Terminal /\ shown[j] = status[j]

\* In the end no action waits for the backend to wake, and the page of an
\* accepted job follows it no more.
WatchEnds ==
  <>[](\A j \in Watched :
         /\ asked[j] # "waiting"
         /\ api[j] = "accepted" => page[j] \in {"settled", "abandoned"})
=============================================================================
