------------------------- MODULE VirtualSink_proofs -------------------------
(***************************************************************************)
(* Machine-checked proofs about VirtualSink, for both platforms and any    *)
(* number of unread packets.                                               *)
(***************************************************************************)
EXTENDS VirtualSink, TLAPS

-----------------------------------------------------------------------------
(* The inductive invariant.                                                *)

(* The thread runs on its platform's path.                                 *)
Preparing == {"setup", "register", "connect", "attach"}
Looping == {"run", "closeOnError", "answer"}
InMta == {"resolve", "pump", "keepAlive", "packets", "sleep", "leave"}
Alone == {"spawn", "enter", "find", "open", "agile"}

Typed ==
  /\ backend \in Backends
  /\ quit \in BOOLEAN /\ signalled \in BOOLEAN /\ shutdown \in BOOLEAN /\ closed \in BOOLEAN
  /\ callerMta \in BOOLEAN /\ threadMta \in BOOLEAN /\ broken \in BOOLEAN /\ alarm \in BOOLEAN
  /\ result \in {"none", "ok", "error"}
  /\ stream \in {"unconnected", "connecting", "paused", "streaming", "error"}
  /\ packets \in 0..MaxPackets

(* There is a thread from the spawn to the join, and none is asked to quit *)
(* that is still wanted.                                                   *)
ThreadInv ==
  /\ pc \in {"await", "use", "quit", "join", "gone"} \cup Alone
  /\ tpc \in {"none", "refuse", "enter", "close", "exit", "done"}
              \cup Preparing \cup Looping \cup InMta
  /\ pc \in {"spawn", "await"} \/ tpc \in {"refuse"} \cup Preparing \cup Looping =>
       backend = "pipewire"
  /\ pc \in {"enter", "find", "open", "agile"} \/ tpc \in {"enter"} \cup InMta =>
       backend = "wasapi"
  /\ pc \in Alone => tpc = "none"
  /\ pc \in {"await", "use", "quit", "join"} => tpc # "none"
  /\ pc = "gone" => tpc \in {"none", "done"}
  /\ quit => pc \in {"join", "gone"}
  /\ shutdown => quit

(* One word is sent on the readiness channel, and a waiting caller has not *)
(* read it yet.                                                            *)
ReadyInv ==
  /\ ready \in {<<>>, <<"ok">>, <<"err">>}
  /\ ~signalled /\ tpc \notin {"refuse", "done"} => ready = <<>>
  /\ tpc \in {"none"} \cup Preparing => ~signalled
  /\ pc = "await" /\ (signalled \/ tpc \in {"refuse", "close", "exit", "done"}) => ready # <<>>

(* The thread ends because something broke or because it has to.           *)
BrokenInv ==
  /\ alarm => broken
  /\ closed => broken \/ quit
  /\ tpc \in {"refuse", "closeOnError"} => broken
  /\ tpc = "answer" \/ (tpc \in {"close", "exit"} /\ backend = "pipewire") =>
       broken \/ shutdown
  /\ tpc \in {"leave", "close", "exit"} => broken \/ quit

(* The apartment is entered before an object is made in it, and left after *)
(* the object is gone.                                                     *)
ComInv ==
  /\ callerMta <=> backend = "wasapi" /\ pc \in {"find", "open", "agile", "use", "quit", "join"}
  /\ threadMta <=> tpc \in InMta
  /\ objects \subseteq {"caller", "thread"}
  /\ "caller" \in objects => pc = "agile"
  /\ "thread" \in objects => backend = "wasapi" /\ tpc \notin {"none", "leave", "done"}

Inv == Typed /\ ThreadInv /\ ReadyInv /\ BrokenInv /\ ComInv

-----------------------------------------------------------------------------
(* The readiness channel with one word, and with none.                     *)
LEMMA Words ==
  /\ Append(<<>>, "ok") = <<"ok">> /\ Append(<<>>, "err") = <<"err">>
  /\ Tail(<<"ok">>) = <<>> /\ Tail(<<"err">>) = <<>>
  /\ <<"ok">> # <<>> /\ <<"err">> # <<>>
  /\ Head(<<"ok">>) = "ok" /\ Head(<<"err">>) = "err"
OBVIOUS

LEMMA InitInv == Init => Inv
<1> SUFFICES ASSUME Init PROVE Inv
  OBVIOUS
<1> USE DEF Init
<1>1. backend \in {"pipewire", "wasapi"} /\ 0 \in 0..MaxPackets
  BY SinkAssumption
<1>2. Typed
  BY <1>1, Zenon DEF Typed
<1>3. ThreadInv /\ ReadyInv /\ BrokenInv /\ ComInv
  BY <1>1 DEF ThreadInv, ReadyInv, BrokenInv, ComInv, Preparing, Looping, InMta, Alone
<1> QED
  BY <1>2, <1>3 DEF Inv

-----------------------------------------------------------------------------
(* Every step keeps the invariant.                                         *)

Parts == ThreadInv /\ ReadyInv /\ BrokenInv /\ ComInv

LEMMA CallerPreserves == Inv /\ (Caller \/ DropSink) => Parts'
<1> SUFFICES ASSUME Inv, Caller \/ DropSink PROVE Parts'
  OBVIOUS
<1>0. backend \in {"pipewire", "wasapi"}
  BY SinkAssumption DEF Inv, Typed
<1> USE DEF Inv, Parts, ThreadInv, ReadyInv, BrokenInv, ComInv, Preparing, Looping, InMta,
            Alone, hookVars, comVars
<1>1. CASE Spawn
  BY <1>0, <1>1 DEF Spawn
<1>2. CASE TakeAnswer
  BY <1>0, <1>2, Words DEF TakeAnswer, Fail
<1>3. CASE GiveUp
  BY <1>0, <1>3 DEF GiveUp, Fail
<1>4. CASE EnterMta
  BY <1>0, <1>4 DEF EnterMta, RefuseWasapi
<1>5. CASE FindEndpoint
  <2>1. \/ pc' = "open" /\ UNCHANGED <<result, callerMta>>
        \/ RefuseWasapi /\ callerMta' = FALSE
    BY <1>5 DEF FindEndpoint
  <2>2. /\ pc = "find"
        /\ UNCHANGED <<backend, quit, tpc, ready, hookVars, stream, closed, threadMta,
                       objects, packets, broken>>
    BY <1>5 DEF FindEndpoint
  <2>3. CASE pc' = "open" /\ UNCHANGED <<result, callerMta>>
    BY <1>0, <2>2, <2>3
  <2>4. CASE RefuseWasapi /\ callerMta' = FALSE
    BY <1>0, <2>2, <2>4 DEF RefuseWasapi
  <2> QED
    BY <2>1, <2>3, <2>4
<1>6. CASE StartCapture
  BY <1>0, <1>6 DEF StartCapture, RefuseWasapi
<1>7. CASE HandOver
  BY <1>0, <1>7 DEF HandOver, RefuseWasapi
<1>8. CASE Quit
  BY <1>0, <1>8 DEF Quit
<1>9. CASE DropSink
  BY <1>0, <1>9 DEF DropSink
<1>10. CASE Join
  BY <1>0, <1>10 DEF Join
<1> QED
  BY <1>1, <1>2, <1>3, <1>4, <1>5, <1>6, <1>7, <1>8, <1>9, <1>10
     DEF Caller

(* The PipeWire thread and what its server does to it.                     *)
PipeWire ==
  \/ Prepare \/ PrepareFails \/ Refuse \/ AttachQuit
  \/ StreamPauses \/ StreamStarts \/ StreamErrs \/ CloseOnError \/ StreamDisconnects
  \/ HandleQuit \/ LoopEnds \/ LoopBreaks \/ Answer \/ Disconnect

(* The WASAPI thread and what its device does to it.                       *)
Wasapi ==
  \/ ThreadEntersMta \/ Resolve \/ CheckQuit \/ KeepAlive \/ ReadPacket \/ NoPacket
  \/ SleepEnds \/ PumpFails \/ PacketArrives \/ LeaveMta \/ ReleaseAgile

LEMMA PipeWirePreserves == Inv /\ PipeWire => Parts'
<1> SUFFICES ASSUME Inv, PipeWire PROVE Parts'
  OBVIOUS
<1> USE DEF Inv, Parts, ThreadInv, ReadyInv, BrokenInv, ComInv, Preparing, Looping, InMta,
            Alone, callerVars, hookVars, comVars
<1>1. CASE Prepare
  BY <1>1 DEF Prepare, Preparation
<1>2. CASE PrepareFails
  BY <1>2, Words DEF PrepareFails, Preparation
<1>3. CASE Refuse
  BY <1>3 DEF Refuse
<1>4. CASE AttachQuit
  BY <1>4 DEF AttachQuit
<1>5. CASE CloseOnError
  BY <1>5 DEF CloseOnError
<1>6. CASE StreamPauses
  BY <1>6 DEF StreamPauses
<1>7. CASE StreamStarts
  BY <1>7, Words DEF StreamStarts, Signal
<1>8. CASE StreamErrs
  BY <1>8, Words DEF StreamErrs, Signal
<1>9. CASE StreamDisconnects
  BY <1>9 DEF StreamDisconnects, OnUnconnected, Unexpected
<1>10. CASE HandleQuit
  BY <1>10 DEF HandleQuit
<1>11. CASE LoopEnds
  BY <1>11 DEF LoopEnds, LoopQuits
<1>12. CASE LoopBreaks
  BY <1>12 DEF LoopBreaks
<1>13. CASE Answer
  BY <1>13, Words DEF Answer, LastWord, Signal
<1>14. CASE Disconnect
  BY <1>14 DEF Disconnect, OnUnconnected, Unexpected
<1> QED
  BY <1>1, <1>2, <1>3, <1>4, <1>5, <1>6, <1>7, <1>8, <1>9, <1>10, <1>11, <1>12,
     <1>13, <1>14
     DEF PipeWire

LEMMA WasapiPreserves == Inv /\ (Wasapi \/ CloseRing) => Parts'
<1> SUFFICES ASSUME Inv, Wasapi \/ CloseRing PROVE Parts'
  OBVIOUS
<1> USE DEF Inv, Parts, ThreadInv, ReadyInv, BrokenInv, ComInv, Preparing, Looping, InMta,
            Alone, callerVars, hookVars, comVars, pumpVars
<1>1. CASE ThreadEntersMta
  BY <1>1 DEF ThreadEntersMta
<1>2. CASE Resolve
  BY <1>2 DEF Resolve
<1>3. CASE CheckQuit
  BY <1>3 DEF CheckQuit
<1>4. CASE KeepAlive
  BY <1>4 DEF KeepAlive
<1>5. CASE ReadPacket
  BY <1>5 DEF ReadPacket
<1>6. CASE NoPacket
  BY <1>6 DEF NoPacket
<1>7. CASE SleepEnds
  BY <1>7 DEF SleepEnds
<1>8. CASE PacketArrives
  BY <1>8 DEF PacketArrives
<1>9. CASE PumpFails
  BY <1>9 DEF PumpFails
<1>10. CASE LeaveMta
  BY <1>10 DEF LeaveMta
<1>11. CASE ReleaseAgile
  BY <1>11 DEF ReleaseAgile
<1>12. CASE CloseRing
  BY <1>12 DEF CloseRing
<1> QED
  BY <1>1, <1>2, <1>3, <1>4, <1>5, <1>6, <1>7, <1>8, <1>9, <1>10, <1>11, <1>12
     DEF Wasapi

LEMMA ActionsCovered == Next => Caller \/ DropSink \/ PipeWire \/ Wasapi \/ CloseRing
BY DEF Next, Thread, Environment, PipeWire, Wasapi

LEMMA TypedPreserved == Typed /\ Next => Typed'
<1> SUFFICES ASSUME Typed, Next PROVE Typed'
  OBVIOUS
<1> USE DEF Typed, callerVars, hookVars, comVars, pumpVars, Next, Caller, Thread, Environment, Spawn, TakeAnswer, Fail, GiveUp, EnterMta,
    RefuseWasapi, FindEndpoint, StartCapture, HandOver, Quit, Join, DropSink, Prepare,
    PrepareFails, Refuse, AttachQuit, StreamPauses, StreamStarts, StreamErrs, Signal,
    CloseOnError, StreamDisconnects, OnUnconnected, HandleQuit, LoopEnds, LoopBreaks, Answer,
    LastWord, Disconnect, ThreadEntersMta, Resolve, CheckQuit, KeepAlive, ReadPacket, NoPacket,
    SleepEnds, PumpFails, PacketArrives, LeaveMta, ReleaseAgile, CloseRing
<1>1. backend' \in Backends
  OBVIOUS
<1>2. packets' \in 0..MaxPackets
  BY SinkAssumption
<1>3. quit' \in BOOLEAN /\ signalled' \in BOOLEAN /\ shutdown' \in BOOLEAN
  BY Zenon
<1>4. closed' \in BOOLEAN /\ alarm' \in BOOLEAN
  BY Zenon
<1>5. callerMta' \in BOOLEAN /\ threadMta' \in BOOLEAN /\ broken' \in BOOLEAN
  BY Zenon
<1>6. result' \in {"none", "ok", "error"}
  OBVIOUS
<1>7. stream' \in {"unconnected", "connecting", "paused", "streaming", "error"}
  OBVIOUS
<1> QED
  BY <1>1, <1>2, <1>3, <1>4, <1>5, <1>6, <1>7, Zenon

LEMMA Invariance == Spec => []Inv
<1>1. Inv /\ [Next]_vars => Inv'
  <2> SUFFICES ASSUME Inv, [Next]_vars PROVE Inv'
    OBVIOUS
  <2>1. CASE Next
    BY <2>1, ActionsCovered, TypedPreserved, CallerPreserves, PipeWirePreserves,
       WasapiPreserves DEF Inv, Parts
  <2>2. CASE UNCHANGED vars
    <3>1. UNCHANGED <<backend, pc, result, quit, tpc, ready, signalled, shutdown, alarm, stream,
                      closed, callerMta, threadMta, objects, packets, broken>>
      BY <2>2 DEF vars, callerVars, hookVars, comVars
    <3>2. Typed'
      BY <3>1, Zenon DEF Inv, Typed
    <3>3. (ThreadInv /\ ReadyInv /\ BrokenInv /\ ComInv)'
      BY <3>1 DEF Inv, ThreadInv, ReadyInv, BrokenInv, ComInv
    <3> QED
      BY <3>2, <3>3 DEF Inv
  <2> QED
    BY <2>1, <2>2
<1> QED
  BY <1>1, InitInv, PTL DEF Spec

-----------------------------------------------------------------------------
(* What follows from the invariant.                                        *)

(* Every variable keeps its type, and the readiness channel holds one word *)
(* at most, whichever of the three places in the thread speaks first.      *)
THEOREM TypeCorrect == Spec => []TypeOK
<1>1. Inv => TypeOK
  <2> SUFFICES ASSUME Inv PROVE TypeOK
    OBVIOUS
  <2>1. {quit, signalled, shutdown, closed, callerMta, threadMta, broken, alarm}
          \subseteq BOOLEAN
    BY Zenon DEF Inv, Typed
  <2>2. pc \in {"spawn", "await", "enter", "find", "open", "agile", "use", "quit", "join",
                "gone"}
    BY DEF Inv, ThreadInv, Alone
  <2>3. tpc \in {"none", "done", "refuse", "run", "closeOnError", "answer", "close", "exit",
                 "enter", "resolve", "pump", "keepAlive", "packets", "sleep", "leave"}
              \cup DOMAIN Preparation \cup {"attach"}
    BY DEF Inv, ThreadInv, Preparing, Looping, InMta, Preparation
  <2>4. /\ ready \in {<<>>, <<"ok">>, <<"err">>}
        /\ objects \subseteq {"caller", "thread"}
    BY Zenon DEF Inv, ReadyInv, ComInv
  <2> QED
    BY <2>1, <2>2, <2>3, <2>4, Zenon DEF Inv, Typed, TypeOK
<1> QED
  BY <1>1, Invariance, PTL

(* Whether new() failed or the sink was dropped, on either platform: no    *)
(* thread, no COM object and no apartment is left.                         *)
THEOREM NothingLeft == Spec => []NoOrphan
<1>1. Inv => NoOrphan
  BY DEF Inv, ThreadInv, ComInv, NoOrphan, Alone, InMta
<1> QED
  BY <1>1, Invariance, PTL

(* A caller that still waits when the thread has ended finds its answer.   *)
THEOREM AnswerBeforeEnd == Spec => []CallerAnswered
<1>1. Inv => CallerAnswered
  BY DEF Inv, ReadyInv, CallerAnswered
<1> QED
  BY <1>1, Invariance, PTL

(* A disconnection is reported, and the ring closed on a caller that wants *)
(* the sink, only if something broke.                                      *)
THEOREM AlarmsAreReal == Spec => []NoFalseAlarm
<1>1. Inv => NoFalseAlarm
  BY DEF Inv, ThreadInv, BrokenInv, NoFalseAlarm
<1> QED
  BY <1>1, Invariance, PTL

(* A COM object lives under the apartment of a thread that is in it: the   *)
(* caller's while the thread has still to enter its own.                   *)
THEOREM ObjectsInApartment == Spec => []ComObjectsCovered
<1>1. Inv => ComObjectsCovered
  <2> SUFFICES ASSUME Inv, objects # {} PROVE callerMta \/ threadMta
    BY DEF ComObjectsCovered
  <2>1. "caller" \in objects \/ "thread" \in objects
    BY DEF Inv, ComInv
  <2>2. CASE "caller" \in objects
    BY <2>2, SinkAssumption DEF Inv, Typed, ThreadInv, ComInv
  <2>3. CASE "thread" \in objects
    BY <2>3 DEF Inv, ThreadInv, ComInv, Alone
  <2> QED
    BY <2>1, <2>2, <2>3
<1> QED
  BY <1>1, Invariance, PTL
=============================================================================
