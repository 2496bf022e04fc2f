------------------------------ MODULE EchoCore ------------------------------
(***************************************************************************)
(* The life of an SRT publish through the server: the ingest session and   *)
(* its receivers (SrtSession) create a core session in the manager         *)
(* (SessionManager), whose instance task (SessionInstance) republishes     *)
(* their samples on the session's bus to the HLS writer (HlsWriter), and   *)
(* the teardown runs the other way: EndOfSample ends the instance,         *)
(* ReleaseSession drops the registry entry, the bus closes, the writer     *)
(* releases its playlist and the cleaner finally sends ReleaseHlsSession.  *)
(*                                                                         *)
(* Every component is its own task (tokio::spawn) and all of them talk     *)
(* through unbounded FIFO queues, oneshot replies and the broadcast bus,   *)
(* so the specification is the interleaving of the components' steps.     *)
(***************************************************************************)
EXTENDS Integers, Sequences, FiniteSets

CONSTANTS Sessions, MaxConn, MaxPackets, MaxFill, DrainIters, BusCap

VARIABLES inbox, registry, hlsTrig, hist, inst, wr, reply,
          media, bus, cleaner, hlsUp, ss, rcv, ctl, closeq

vars == <<inbox, registry, hlsTrig, hist, inst, wr, reply,
          media, bus, cleaner, hlsUp, ss, rcv, ctl, closeq>>

MaxSid == MaxConn - 1

Mgr  == INSTANCE SessionManager
Inst == INSTANCE SessionInstance
Hls  == INSTANCE HlsWriter
Srt  == INSTANCE SrtSession

Init == Mgr!Init /\ Inst!Init /\ Hls!Init /\ Srt!Init

\* A step of one component leaves the variables it does not declare alone.
MgrStep(A)  == A /\ UNCHANGED <<media, bus, cleaner, hlsUp, ss, rcv, ctl, closeq>>
InstStep(A) == A /\ UNCHANGED <<inbox, registry, hlsTrig, hist, reply, cleaner, hlsUp,
                                ss, rcv, ctl, closeq>>
HlsStep(A)  == A /\ UNCHANGED <<hlsTrig, hist, reply, media, ss, rcv, ctl, closeq>>
SrtStep(A)  == A /\ UNCHANGED <<registry, hlsTrig, hist, wr, bus, cleaner, hlsUp>>

ManagerStep ==
    \/ MgrStep(Mgr!CreateSession)
    \/ MgrStep(Mgr!ReleaseSession)
    \/ \E k \in {"Pause", "Resume", "ReadyHls", "ReleaseHls", "Quality"} : MgrStep(Mgr!FanOut(k))
    \/ MgrStep(Mgr!RegisterTrigger)

Next ==
    \/ ManagerStep
    \/ HlsStep(Hls!HlsStart)
    \/ \E id \in Sessions :
          \/ InstStep(Inst!HandleSample(id))
          \/ InstStep(Inst!HandleEndOfSample(id))
          \/ HlsStep(Hls!HlsCreateWriter(id))
          \/ HlsStep(Hls!HlsCreateFailed(id))
          \/ HlsStep(Hls!WriterRecv(id))
          \/ HlsStep(Hls!WriterLagged(id))
          \/ HlsStep(Hls!WriterClosed(id))
          \/ HlsStep(Hls!CleanerRelease(id))
    \/ \E s \in Sessions :
          \/ SrtStep(Srt!Poll(s))
          \/ SrtStep(Srt!Accept(s))
          \/ SrtStep(Srt!Created(s))
          \/ SrtStep(Srt!IdleTick(s))
          \/ SrtStep(Srt!ConnTimeout(s))
          \/ SrtStep(Srt!ListenError(s))
          \/ SrtStep(Srt!DrainRecv(s))
          \/ SrtStep(Srt!DrainSend(s))
          \/ SrtStep(Srt!Exit(s))
          \/ SrtStep(Srt!Teardown(s))
          \/ \E k \in Srt!Sids :
                \/ SrtStep(Srt!RecvPacket(s, k))
                \/ SrtStep(Srt!RecvDisconnect(s, k))
                \/ SrtStep(Srt!RecvStarve(s, k))
                \/ SrtStep(Srt!RecvReadTimeout(s, k))

(***************************************************************************)
(* Fairness.  Every server task keeps running while it has work: the      *)
(* manager, the instance tasks, the HLS service, writers and cleaner, the  *)
(* ingest session's loop and its receivers' read loops.  A timeout always  *)
(* fires eventually: a receiver that gets no packets reaches its read     *)
(* timeout, and an ingest session with no receiver reaches its connection  *)
(* timeout, which is strong fairness because the loop only tests the      *)
(* clock once per turn.  The publisher (connections, packets, disconnects) *)
(* and the HTTP caller (teardown) get no fairness.                         *)
(***************************************************************************)
Fairness ==
    /\ WF_vars(ManagerStep)
    /\ WF_vars(HlsStep(Hls!HlsStart))
    /\ \A id \in Sessions :
        /\ WF_vars(InstStep(Inst!HandleSample(id) \/ Inst!HandleEndOfSample(id)))
        /\ WF_vars(HlsStep(Hls!HlsCreateWriter(id) \/ Hls!HlsCreateFailed(id)))
        /\ WF_vars(HlsStep(Hls!WriterRecv(id) \/ Hls!WriterLagged(id) \/ Hls!WriterClosed(id)))
        /\ WF_vars(HlsStep(Hls!CleanerRelease(id)))
    /\ \A s \in Sessions :
        /\ WF_vars(SrtStep(Srt!Poll(s)))
        /\ WF_vars(SrtStep(Srt!Created(s)))
        /\ WF_vars(SrtStep(Srt!IdleTick(s) \/ Srt!ConnTimeout(s)))
        /\ SF_vars(SrtStep(Srt!ConnTimeout(s)))
        /\ WF_vars(SrtStep(Srt!DrainRecv(s)))
        /\ WF_vars(SrtStep(Srt!DrainSend(s)))
        /\ WF_vars(SrtStep(Srt!Exit(s)))
        /\ \A k \in Srt!Sids :
             /\ WF_vars(SrtStep(Srt!RecvStarve(s, k) \/ Srt!RecvReadTimeout(s, k)))
             /\ WF_vars(SrtStep(Srt!RecvReadTimeout(s, k)))

Spec == Init /\ [][Next]_vars /\ Fairness

TypeOK == Mgr!TypeOK /\ Inst!TypeOK /\ Hls!TypeOK /\ Srt!TypeOK

-----------------------------------------------------------------------------
(***************************************************************************)
(* receiver_count, the ingest session's own count of its live receivers,  *)
(* is exactly the receivers still running plus the close events queued    *)
(* and not yet taken, for as long as run_inner runs.  It is incremented    *)
(* when a receiver is spawned and decremented by close events taken in     *)
(* two places (the main loop and the drain loop); if it drifted, the       *)
(* session would pause while a publisher is connected, or never pause and *)
(* never time out.                                                         *)
(***************************************************************************)
ReceiverCountAccurate ==
    \A s \in Sessions :
        ss[s].pc \in {"poll", "await", "creating", "drainRecv", "drainSend"} =>
            ss[s].rcount = Cardinality({k \in Srt!Sids : rcv[s][k].st = "run"})
                           + Len(closeq[s])

(***************************************************************************)
(* What the manager handles for one session is well ordered: CreateSession *)
(* comes first, ReleaseSession at most once, and no PauseSession,          *)
(* ResumeSession or InputQualityReport follows the release.  The ingest    *)
(* session, its drain loop and the run() epilogue all feed one FIFO queue; *)
(* a report sent after the release would reach stats for a dead session.  *)
(***************************************************************************)
ManagerHistoryOrdered ==
    \A s \in Sessions :
        LET h == hist[s]
            rel == {i \in 1..Len(h) : h[i] = "Release"}
        IN
        /\ h # <<>> => h[1] = "Create"
        /\ Cardinality(rel) <= 1
        /\ \A i \in rel, j \in 1..Len(h) :
              j > i => h[j] \notin {"Create", "Pause", "Resume", "Quality"}

(***************************************************************************)
(* Every publish winds down completely: the ingest session finishes, its   *)
(* id leaves the registry, the instance task ends, the HLS writer (if any) *)
(* ends, the cleaner has sent ReleaseHlsSession for every writer that      *)
(* handled a sample, and the manager has handled everything sent to it.    *)
(* A lost EndOfSample or ReleaseSession, or a writer that never sees its   *)
(* bus close, would leak the session for the life of the server.          *)
(***************************************************************************)
WoundDown(s) ==
    /\ ss[s].pc = "done"
    /\ s \notin registry
    /\ inst[s] # "running"
    /\ wr[s].st \in {"none", "done"}
    /\ s \notin cleaner
    /\ wr[s].has => \E i \in 1..Len(hist[s]) : hist[s][i] = "ReleaseHls"

EverySessionWindsDown == <>[](inbox = <<>> /\ \A s \in Sessions : WoundDown(s))

(***************************************************************************)
(* The HLS writer keeps reading a session's bus for as long as the session *)
(* is registered: it stops, releasing the playlist and scheduling          *)
(* ReleaseHlsSession, only once ReleaseSession has removed the id.  The    *)
(* broadcast bus promises a lagging subscriber a lag signal and then the  *)
(* retained suffix of the stream.                                          *)
(***************************************************************************)
WriterOutlivesIngest ==
    \A s \in Sessions : wr[s].st = "done" => s \notin registry

(***************************************************************************)
(* The states the ingest session reports to the transfer service          *)
(* (send_session_event, and Terminated from run()) follow the lifecycle of *)
(* spec.md: Ready only before the core session exists, Paused only after   *)
(* Publishing, Terminated last.  state_v4 answers from these reports, and  *)
(* the pause test in the idle branch decides between Ready and Paused.     *)
(***************************************************************************)
ReportedState(s) == IF ss[s].pc = "done" THEN "Terminated" ELSE ss[s].st

Lifecycle == INSTANCE SessionLifecycle
                 WITH Ids <- Sessions, state <- [s \in Sessions |-> ReportedState(s)]

ReportsFollowLifecycle == Lifecycle!Spec

=============================================================================
