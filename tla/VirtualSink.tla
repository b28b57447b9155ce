----------------------------- MODULE VirtualSink -----------------------------
(***************************************************************************)
(* virtual_sink.rs and virtual_sink_windows.rs: the thread that owns the   *)
(* audio server's end and writes the ring, the VirtualSink::new that waits *)
(* for it or not, and the drop that joins it.  PipeWire answers through    *)
(* callbacks on that thread; WASAPI is polled, and its COM objects must    *)
(* not outlive the last apartment.                                         *)
(***************************************************************************)
EXTENDS Integers, Sequences

CONSTANTS
  Backends,    (* of "pipewire" and "wasapi"                                *)
  MaxPackets   (* bound: loopback packets unread                            *)

ASSUME SinkAssumption ==
  /\ Backends \subseteq {"pipewire", "wasapi"}
  /\ MaxPackets \in Nat

VARIABLES
  backend,     (* the platform this run is on                               *)
  pc,          (* the caller, in new() and drop()                           *)
  result,      (* what new() returned                                       *)
  quit,        (* drop() has sent the quit message, or set the flag         *)
  tpc,         (* the sink's thread                                         *)
  ready,       (* the readiness channel                                     *)
  signalled,   (* the hook's flags                                          *)
  shutdown,
  stream,      (* the state of the PipeWire stream                          *)
  closed,      (* the ring's flag                                           *)
  callerMta,   (* the caller is in the COM apartment                        *)
  threadMta,   (* the thread is                                             *)
  objects,     (* who holds COM objects                                     *)
  packets,     (* loopback packets the pump has not read                    *)
  broken,      (* something outside has failed                              *)
  alarm        (* "sink stream was disconnected" has been logged            *)

hookVars == <<signalled, shutdown, alarm>>
comVars == <<callerMta, threadMta, objects, packets>>
callerVars == <<pc, result, quit>>
vars == <<backend, callerVars, tpc, ready, hookVars, stream, closed, comVars, broken>>

-----------------------------------------------------------------------------
(* VirtualSink::new on PipeWire: spawn the thread, wait for its answer.    *)

Spawn ==
  /\ pc = "spawn"
  /\ tpc' = "setup"
  /\ pc' = "await"
  /\ UNCHANGED <<backend, result, quit, ready, hookVars, stream, closed, comVars, broken>>

(* A failure drops the sink, which exists since before the wait.           *)
(* mutant: the sink is made after the wait *)
Fail_NoSink == pc' = "gone" /\ result' = "error"
Fail == pc' = "quit" /\ result' = "error"

TakeAnswer ==
  /\ pc = "await" /\ ready # <<>>
  /\ ready' = Tail(ready)
  /\ IF Head(ready) = "ok" THEN pc' = "use" /\ result' = "ok" ELSE Fail
  /\ UNCHANGED <<backend, quit, tpc, hookVars, stream, closed, comVars, broken>>

(* READY_TIMEOUT has passed, or the thread has ended without a word.       *)
GiveUp ==
  /\ pc = "await" /\ ready = <<>>
  /\ Fail
  /\ UNCHANGED <<backend, quit, tpc, ready, hookVars, stream, closed, comVars, broken>>

-----------------------------------------------------------------------------
(* VirtualSink::new on Windows: everything that can be refused is asked    *)
(* for before the thread is spawned.                                       *)

RefuseWasapi == pc' = "gone" /\ result' = "error"

EnterMta ==
  /\ pc = "enter"
  /\ \/ callerMta' = TRUE /\ pc' = "find" /\ UNCHANGED result
     \/ RefuseWasapi /\ UNCHANGED callerMta
  /\ UNCHANGED <<backend, quit, tpc, ready, hookVars, stream, closed, threadMta, objects,
                 packets, broken>>

(* Of the endpoints, the one that matches or the default: never one of     *)
(* several.                                                                *)
FindEndpoint ==
  /\ pc = "find"
  /\ \E hits \in 0..2 :
       \/ hits = 1 /\ pc' = "open" /\ UNCHANGED <<result, callerMta>>
       \/ hits # 1 /\ RefuseWasapi /\ callerMta' = FALSE
  /\ UNCHANGED <<backend, quit, tpc, ready, hookVars, stream, closed, threadMta, objects,
                 packets, broken>>

StartCapture ==
  /\ pc = "open"
  /\ \/ objects' = {"caller"} /\ pc' = "agile" /\ UNCHANGED <<result, callerMta>>
     \/ RefuseWasapi /\ callerMta' = FALSE /\ UNCHANGED objects
  /\ UNCHANGED <<backend, quit, tpc, ready, hookVars, stream, closed, threadMta, packets,
                 broken>>

(* The agile references go to the thread; the caller's own objects go.     *)
HandOver ==
  /\ pc = "agile"
  /\ \/ /\ tpc' = "enter" /\ objects' = {"thread"}
        /\ pc' = "use" /\ result' = "ok" /\ UNCHANGED callerMta
     \/ /\ RefuseWasapi /\ objects' = {} /\ callerMta' = FALSE
        /\ UNCHANGED tpc
  /\ UNCHANGED <<backend, quit, ready, hookVars, stream, closed, threadMta, packets, broken>>

-----------------------------------------------------------------------------
(* drop(): quit, join, then the fields.                                    *)

DropSink ==
  /\ pc = "use"
  /\ pc' = "quit"
  /\ UNCHANGED <<backend, result, quit, tpc, ready, hookVars, stream, closed, comVars, broken>>

(* mutant: the apartment is left before the join *)
Quit_LeavesMta ==
  /\ pc = "quit"
  /\ quit' = TRUE
  /\ pc' = "join"
  /\ callerMta' = FALSE
  /\ UNCHANGED <<backend, result, tpc, ready, hookVars, stream, closed, threadMta, objects,
                 packets, broken>>

Quit ==
  /\ pc = "quit"
  /\ quit' = TRUE
  /\ pc' = "join"
  /\ UNCHANGED <<backend, result, tpc, ready, hookVars, stream, closed, comVars, broken>>

Join ==
  /\ pc = "join" /\ tpc = "done"
  /\ callerMta' = FALSE
  /\ pc' = "gone"
  /\ UNCHANGED <<backend, result, quit, tpc, ready, hookVars, stream, closed, threadMta,
                 objects, packets, broken>>

Caller ==
  \/ Spawn \/ TakeAnswer \/ GiveUp
  \/ EnterMta \/ FindEndpoint \/ StartCapture \/ HandOver
  \/ Quit \/ Join

-----------------------------------------------------------------------------
(* run_pw_thread up to the loop: three calls that may fail.                *)

Preparation == [setup |-> "register", register |-> "connect", connect |-> "attach"]

Prepare ==
  /\ tpc \in DOMAIN Preparation
  /\ tpc' = Preparation[tpc]
  /\ stream' = IF tpc = "connect" THEN "connecting" ELSE stream
  /\ UNCHANGED <<backend, callerVars, ready, hookVars, closed, comVars, broken>>

PrepareFails ==
  /\ tpc \in DOMAIN Preparation
  /\ ready' = Append(ready, "err")
  /\ tpc' = "refuse"
  /\ broken' = TRUE
  /\ UNCHANGED <<backend, callerVars, hookVars, stream, closed, comVars>>

Refuse ==
  /\ tpc = "refuse"
  /\ closed' = TRUE
  /\ tpc' = "done"
  /\ UNCHANGED <<backend, callerVars, ready, hookVars, stream, comVars, broken>>

(* A quit message sent before this is found once the loop runs.            *)
AttachQuit ==
  /\ tpc = "attach"
  /\ tpc' = "run"
  /\ UNCHANGED <<backend, callerVars, ready, hookVars, stream, closed, comVars, broken>>

-----------------------------------------------------------------------------
(* Callbacks of the loop.                                                  *)

(* The first word is the one that counts.                                  *)
(* mutant: every word is sent *)
Signal_Always(word) == signalled' = TRUE /\ ready' = Append(ready, word)
Signal(word) ==
  /\ signalled' = TRUE
  /\ ready' = IF signalled THEN ready ELSE Append(ready, word)

StreamPauses ==
  /\ tpc = "run" /\ stream \in {"connecting", "streaming"}
  /\ stream' = "paused"
  /\ UNCHANGED <<backend, callerVars, tpc, ready, hookVars, closed, comVars, broken>>

StreamStarts ==
  /\ tpc = "run" /\ stream = "paused"
  /\ stream' = "streaming"
  /\ Signal("ok")
  /\ UNCHANGED <<backend, callerVars, tpc, shutdown, alarm, closed, comVars, broken>>

Connected == stream \in {"connecting", "paused", "streaming"}

StreamErrs ==
  /\ tpc = "run" /\ Connected
  /\ stream' = "error" /\ broken' = TRUE
  /\ Signal("err")
  /\ tpc' = "closeOnError"
  /\ UNCHANGED <<backend, callerVars, shutdown, alarm, closed, comVars>>

CloseOnError ==
  /\ tpc = "closeOnError"
  /\ closed' = TRUE
  /\ tpc' = "run"
  /\ UNCHANGED <<backend, callerVars, ready, hookVars, stream, comVars, broken>>

(* Unconnected is a failure once there was a word and if it is not ours.   *)
(* mutant: our own shutdown is not told apart *)
Unexpected_Always == signalled
Unexpected == signalled /\ ~shutdown

OnUnconnected ==
  /\ stream' = "unconnected"
  /\ alarm' = (alarm \/ Unexpected)
  /\ closed' = (closed \/ Unexpected)

StreamDisconnects ==
  /\ tpc = "run" /\ (Connected \/ stream = "error")
  /\ OnUnconnected
  /\ broken' = TRUE
  /\ UNCHANGED <<backend, callerVars, tpc, ready, signalled, shutdown, comVars>>

HandleQuit ==
  /\ tpc = "run" /\ quit /\ ~shutdown
  /\ shutdown' = TRUE
  /\ UNCHANGED <<backend, callerVars, tpc, ready, signalled, alarm, stream, closed, comVars,
                 broken>>

(* The loop ends once quit, or by an error of its own.                     *)
(* mutant: the handler does not quit the loop *)
LoopQuits_Never == FALSE
LoopQuits == shutdown

LoopEnds ==
  /\ tpc = "run" /\ LoopQuits
  /\ tpc' = "answer"
  /\ UNCHANGED <<backend, callerVars, ready, hookVars, stream, closed, comVars, broken>>

LoopBreaks ==
  /\ tpc = "run" /\ ~shutdown
  /\ broken' = TRUE
  /\ tpc' = "answer"
  /\ UNCHANGED <<backend, callerVars, ready, hookVars, stream, closed, comVars>>

(* mutant: a caller still waiting is left to its time-out *)
LastWord_None == signalled' = TRUE /\ UNCHANGED ready
LastWord == Signal("err")

Answer ==
  /\ tpc = "answer"
  /\ LastWord
  /\ tpc' = "close"
  /\ UNCHANGED <<backend, callerVars, shutdown, alarm, stream, closed, comVars, broken>>

(* Disconnecting calls the hook once more; then the locals are dropped.    *)
Disconnect ==
  /\ tpc = "exit" /\ backend = "pipewire"
  /\ IF stream = "unconnected" THEN UNCHANGED <<stream, alarm, closed>> ELSE OnUnconnected
  /\ tpc' = "done"
  /\ UNCHANGED <<backend, callerVars, ready, signalled, shutdown, comVars, broken>>

-----------------------------------------------------------------------------
(* run_wasapi_thread.                                                      *)

ThreadEntersMta ==
  /\ tpc = "enter"
  /\ \/ threadMta' = TRUE /\ tpc' = "resolve" /\ UNCHANGED broken
     \/ broken' = TRUE /\ tpc' = "close" /\ UNCHANGED threadMta
  /\ UNCHANGED <<backend, callerVars, ready, hookVars, stream, closed, callerMta, objects,
                 packets>>

pumpVars == <<backend, callerVars, ready, hookVars, stream, closed, callerMta, threadMta>>

(* Resolving consumes the references, whether it succeeds or not.          *)
Resolve ==
  /\ tpc = "resolve"
  /\ \/ tpc' = "pump" /\ UNCHANGED <<objects, broken>>
     \/ broken' = TRUE /\ objects' = {} /\ tpc' = "leave"
  /\ UNCHANGED <<pumpVars, packets>>

(* pump_capture looks at the flag, tops the silence up, and reads packets  *)
(* until there is none; an error of any call ends it.  Either way it drops *)
(* the interfaces.                                                         *)
CheckQuit ==
  /\ tpc = "pump"
  /\ IF quit THEN tpc' = "leave" /\ objects' = {}
             ELSE tpc' = "keepAlive" /\ UNCHANGED objects
  /\ UNCHANGED <<pumpVars, packets, broken>>

KeepAlive ==
  /\ tpc = "keepAlive"
  /\ tpc' = "packets"
  /\ UNCHANGED <<pumpVars, objects, packets, broken>>

ReadPacket ==
  /\ tpc = "packets" /\ packets > 0
  /\ packets' = packets - 1
  /\ UNCHANGED <<pumpVars, tpc, objects, broken>>

NoPacket ==
  /\ tpc = "packets" /\ packets = 0
  /\ tpc' = "sleep"
  /\ UNCHANGED <<pumpVars, objects, packets, broken>>

SleepEnds ==
  /\ tpc = "sleep"
  /\ tpc' = "pump"
  /\ UNCHANGED <<pumpVars, objects, packets, broken>>

PumpFails ==
  /\ tpc \in {"keepAlive", "packets"}
  /\ broken' = TRUE /\ objects' = {}
  /\ tpc' = "leave"
  /\ UNCHANGED <<pumpVars, packets>>

(* A round is short against a packet: they come while the pump sleeps.     *)
PacketArrives ==
  /\ tpc = "sleep" /\ packets < MaxPackets
  /\ packets' = packets + 1
  /\ UNCHANGED <<pumpVars, tpc, objects, broken>>

LeaveMta ==
  /\ tpc = "leave"
  /\ threadMta' = FALSE
  /\ tpc' = "close"
  /\ UNCHANGED <<backend, callerVars, ready, hookVars, stream, closed, callerMta, objects,
                 packets, broken>>

(* References that were never resolved go with the thread's arguments.     *)
ReleaseAgile ==
  /\ tpc = "exit" /\ backend = "wasapi"
  /\ objects' = {}
  /\ tpc' = "done"
  /\ UNCHANGED <<pumpVars, packets, broken>>

(* Both threads close the ring on their way out.                           *)
(* mutant: only an orderly end closes the ring *)
CloseRing_IfQuit ==
  /\ tpc = "close"
  /\ closed' = (closed \/ quit)
  /\ tpc' = "exit"
  /\ UNCHANGED <<backend, callerVars, ready, hookVars, stream, comVars, broken>>

CloseRing ==
  /\ tpc = "close"
  /\ closed' = TRUE
  /\ tpc' = "exit"
  /\ UNCHANGED <<backend, callerVars, ready, hookVars, stream, comVars, broken>>

Thread ==
  \/ Prepare \/ Refuse \/ AttachQuit
  \/ CloseOnError \/ HandleQuit \/ LoopEnds \/ Answer \/ Disconnect
  \/ ThreadEntersMta \/ Resolve \/ LeaveMta \/ ReleaseAgile
  \/ CheckQuit \/ KeepAlive \/ ReadPacket \/ NoPacket \/ SleepEnds
  \/ CloseRing

(* What the audio server, the system and the pipeline may do.              *)
Environment ==
  \/ PrepareFails \/ PumpFails \/ PacketArrives
  \/ StreamPauses \/ StreamStarts \/ StreamErrs \/ StreamDisconnects \/ LoopBreaks
  \/ DropSink

Init ==
  /\ backend \in Backends
  /\ pc = IF backend = "pipewire" THEN "spawn" ELSE "enter"
  /\ result = "none" /\ quit = FALSE
  /\ tpc = "none" /\ ready = <<>> /\ signalled = FALSE /\ shutdown = FALSE
  /\ stream = "unconnected" /\ closed = FALSE
  /\ callerMta = FALSE /\ threadMta = FALSE /\ objects = {} /\ packets = 0
  /\ broken = FALSE /\ alarm = FALSE

Next == Caller \/ Thread \/ Environment

(* Both threads are scheduled, the wait has a time-out, and the calls into *)
(* the audio server return.                                                *)
Spec == Init /\ [][Next]_vars /\ WF_vars(Caller) /\ WF_vars(Thread)

-----------------------------------------------------------------------------
(* Properties.                                                             *)

(* Types; the readiness channel never holds more than one word, though     *)
(* three places may send one.                                              *)
TypeOK ==
  /\ backend \in Backends
  /\ pc \in {"spawn", "await", "enter", "find", "open", "agile", "use", "quit", "join", "gone"}
  /\ result \in {"none", "ok", "error"}
  /\ {quit, signalled, shutdown, closed, callerMta, threadMta, broken, alarm} \subseteq BOOLEAN
  /\ tpc \in {"none", "done", "refuse", "run", "closeOnError", "answer", "close", "exit",
              "enter", "resolve", "pump", "keepAlive", "packets", "sleep", "leave"}
           \cup DOMAIN Preparation \cup {"attach"}
  /\ stream \in {"unconnected", "connecting", "paused", "streaming", "error"}
  /\ ready \in {<<>>, <<"ok">>, <<"err">>}
  /\ objects \subseteq {"caller", "thread"} /\ packets \in 0..MaxPackets

(* When new() has failed or the sink was dropped, its thread is gone: no   *)
(* sink stays registered that swallows audio, and no COM object or         *)
(* apartment is left (virtual_sink.rs:48, 57-66, 79-88).                   *)
NoOrphan ==
  pc = "gone" => tpc \in {"none", "done"} /\ ~callerMta /\ ~threadMta /\ objects = {}

(* A caller that waits for a thread that has ended has an answer to read:  *)
(* it is not left to a time-out, nor told that the thread just died        *)
(* (virtual_sink.rs:281-284).                                              *)
CallerAnswered == pc = "await" /\ tpc = "done" => ready # <<>>

(* The ring is not closed, nor a disconnection reported, while the caller  *)
(* wants the sink, unless something really broke; and our own shutdown is  *)
(* never reported as one (virtual_sink.rs:200-206, 275).                   *)
NoFalseAlarm ==
  /\ alarm => broken
  /\ closed /\ pc \in {"await", "use"} => broken

(* COM objects exist only while some thread keeps the apartment alive      *)
(* (virtual_sink_windows.rs:41, 94-105).                                   *)
ComObjectsCovered == objects # {} => callerMta \/ threadMta

(* Whatever breaks, the ring is closed, and so the capture loop ends: the  *)
(* audio does not just fall silent (virtual_sink.rs:192, 204, 285).        *)
BreakReachesRing == broken ~> closed

(* new() and drop() return (virtual_sink.rs:56-66, 79-88).                 *)
NewAndDropReturn == pc \in {"await", "quit"} ~> pc \in {"use", "gone"}
=============================================================================
