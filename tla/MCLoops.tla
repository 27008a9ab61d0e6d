------------------------------ MODULE MCLoops ------------------------------
(***************************************************************************)
(* The background loops on small instances of their own: the recovery      *)
(* timer, the workflow poller, the sync scheduler twice, with two rows in  *)
(* the web process ("rows") and with one row and two invocations of the    *)
(* worker instead of it ("workers"), the queue of two Dialpad events of    *)
(* one call in the wrong order, with nothing failing and Dialpad enabled   *)
(* throughout, and the passes over Google Local Services beside a member   *)
(* of staff.  A behaviour is one of one of them; the others do not begin.  *)
(***************************************************************************)
EXTENDS RecoveryTimer

CONSTANTS Timer, Backoffs, MaxPolls, Nothing, gmail, hcp, v1, v2, web, pass, clerk, call

VARIABLES
  part,
  isRunning, pollerTimer, delay, backoff, polls, nudge,
  rOn, rTimer, rPc, rList, rCur, rActive, rRow, rEnabled, rHolder, rLost,
  wOn, wTimer, wPc, wList, wCur, wActive, wRow, wEnabled, wHolder, wLost,
  received, processed, failed, meta, copies, arriving, job, queue, inFlight, dialpad, gate, polling,
  scanned, faults,
  google, row, gPc, listed, this, found, base, answer, autoCalls, deleted, gFaults, gCrashes, disputes

pollerVars == <<isRunning, pollerTimer, delay, backoff, polls, nudge>>
rowsVars == <<rOn, rTimer, rPc, rList, rCur, rActive, rRow, rEnabled, rHolder, rLost>>
workersVars == <<wOn, wTimer, wPc, wList, wCur, wActive, wRow, wEnabled, wHolder, wLost>>
eventVars == <<received, processed, failed, meta, copies, arriving, job, queue, inFlight, dialpad,
               gate, polling, scanned, faults>>
glsVars == <<google, row, gPc, listed, this, found, base, answer, autoCalls, deleted,
             gFaults, gCrashes, disputes>>
loopVars == <<pollerVars, rowsVars, workersVars>>

P == INSTANCE AdaptivePoller WITH asked <- nudge

R == INSTANCE SyncScheduler WITH
       Integration <- {gmail, hcp}, Recoverable <- {gmail}, InApp <- TRUE, Worker <- {}, Nobody <- Nothing,
       isRunning <- rOn, timer <- rTimer, pc <- rPc, list <- rList, cur <- rCur,
       activeSyncs <- rActive, row <- rRow, enabled <- rEnabled, holder <- rHolder, lost <- rLost

W == INSTANCE SyncScheduler WITH
       Integration <- {gmail}, Recoverable <- {gmail}, InApp <- FALSE, Worker <- {v1, v2}, Nobody <- Nothing,
       isRunning <- wOn, timer <- wTimer, pc <- wPc, list <- wList, cur <- wCur,
       activeSyncs <- wActive, row <- wRow, enabled <- wEnabled, holder <- wHolder, lost <- wLost

D == INSTANCE DialpadEvents WITH
       enabled <- dialpad,
       NumEvents <- 2, CallOf <- <<"c1", "c1">>, Stamp <- <<2, 1>>, Copies <- 2,
       Process <- {web}, OneShot <- {}, Concurrency <- 2, MaxAttempts <- 2,
       MaxFaults <- 0

G == INSTANCE GlsPull WITH
       pc <- gPc, faults <- gFaults, crashes <- gCrashes, None <- Nothing,
       GoogleLead <- {call}, Pass <- {pass}, Clerk <- {clerk},
       Caller <- [g \in {call} |-> g], Matched <- {call},
       MaxRows <- 3, MaxFaults <- 1, MaxCrashes <- 0, MaxDeletes <- 0, MaxDisputes <- 1

LoopsInit ==
  /\ part \in {"recovery", "poller", "rows", "workers", "events", "gls"}
  /\ Init /\ P!Init /\ R!Init /\ W!Init /\ D!Init /\ G!Init

LoopsNext ==
  \/ part = "recovery" /\ Next /\ UNCHANGED <<part, loopVars, eventVars, glsVars>>
  \/ part = "poller" /\ P!Next /\ UNCHANGED <<part, vars, rowsVars, workersVars, eventVars, glsVars>>
  \/ part = "rows" /\ R!Next /\ UNCHANGED <<part, vars, pollerVars, workersVars, eventVars, glsVars>>
  \/ part = "workers" /\ W!Next /\ UNCHANGED <<part, vars, pollerVars, rowsVars, eventVars, glsVars>>
  \/ part = "events" /\ D!Next /\ UNCHANGED <<part, vars, loopVars, glsVars, dialpad>>
  \/ part = "gls" /\ G!Next /\ UNCHANGED <<part, vars, loopVars, eventVars>>

(* The fairness of SyncScheduler and GlsPull.  Of a part that does not      *)
(* begin only what is guarded here by "part" is enabled.                    *)
LoopsSpec ==
  /\ LoopsInit /\ [][LoopsNext]_<<part, vars, loopVars, eventVars, glsVars>>
  /\ R!ChainFairness
  /\ \A v \in {v1, v2} : /\ WF_workersVars(part = "workers" /\ W!WorkerBegins(v))
                         /\ SF_workersVars(W!Recover(v)) /\ WF_workersVars(W!Step(v))
  /\ WF_glsVars(part = "gls" /\ G!PassStep(pass))
  /\ \A r \in 1..3 : WF_glsVars(G!Age(r))

(* The workflow poller's chain of polls never breaks.                       *)
ChainAlive == P!ChainAlive

(* The workflow poller never loses a nudge.                                 *)
PollerNudgeHonoured == P!NudgeHonoured

(* One sync of a row at a time within the process, and within the lock; and *)
(* two events of one call, delivered in the wrong order, log it once, in a  *)
(* queue none of whose jobs waits beside a free slot.                       *)
AloneAndOnce == R!SyncAlone /\ W!SyncAlone /\ D!CallLoggedOnce /\ D!PumpKeepsUp

(* A due row has its turn, and a missing row of an enabled integration      *)
(* comes back to have one.                                                  *)
DueHasItsTurn == R!DueHasItsTurn /\ W!RowRestored

(* Google's decision reaches the lead in the CRM.                           *)
GoogleHasTheLastWord == part = "gls" => G!GoogleHasTheLastWord
=============================================================================
