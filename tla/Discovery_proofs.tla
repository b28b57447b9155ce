-------------------------- MODULE Discovery_proofs --------------------------
(***************************************************************************)
(* Machine-checked proofs about Discovery, for any names, spellings and    *)
(* addresses, and any quiet period, deadline and polling interval.         *)
(***************************************************************************)
EXTENDS Discovery, FiniteSetTheorems, FunctionTheorems, TLAPS

-----------------------------------------------------------------------------
(* The inductive invariant.                                                *)

Typed ==
  /\ pc \in {"start", "loop", "recv", "dead?", "quiet?", "report", "pick", "host", "done"}
  /\ devices \subseteq Devices /\ IsFiniteSet(devices)
  /\ events \in {<<>>} \cup {<<event>> : event \in Events}
  /\ now \in 0..MaxTime /\ lastNew \in 0..MaxTime /\ until \in 0..MaxTime
  /\ left \in {"none", "deadline", "quiet", "found", "dead"}
  /\ result \in {"none", "selected", "ambiguous", "none found", "failed"}

(* The map of the code has one device a name, and is what was heard.       *)
MapInv ==
  /\ \A d, e \in devices : d.name = e.name => d = e
  /\ heard = devices /\ heardNew = lastNew

(* The first device that matches ends the search, in any spelling.         *)
MatchInv ==
  /\ Browsing => \A d \in devices : ~Matches(d.name)
  /\ \A d, e \in devices : Matches(d.name) /\ Matches(e.name) => d = e

(* Why the loop was left stays true: the clock has stopped.                *)
LeftInv ==
  /\ left # "none" => pc \in {"report", "pick", "done"}
  /\ left = "deadline" => now >= Timeout
  /\ left = "quiet" => ~Targeted /\ now - lastNew >= Quiet
  /\ left = "found" => \E d \in devices : Matches(d.name)
  /\ left = "dead" => ~daemon
  /\ pc = "start" => devices = {}

OutInv ==
  /\ pc \in {"pick", "done"} /\ left # "none" =>
       out = {d \in devices : Targeted => Matches(d.name)}
  /\ pc = "pick" => left # "none" /\ out # {}
  /\ pc = "report" => left # "none"
  /\ result = "ambiguous" => ~Targeted

Inv == Typed /\ MapInv /\ MatchInv /\ LeftInv /\ OutInv

-----------------------------------------------------------------------------
LEMMA ConstantsTyped ==
  /\ Quiet \in Nat /\ Timeout \in Nat /\ Poll \in Nat /\ MaxTime \in Nat
  /\ Quiet > 0 /\ Timeout > 0 /\ Poll > 0 /\ Timeout < MaxTime
BY DiscoveryAssumption

LEMMA InitInv == Init => Inv
<1> SUFFICES ASSUME Init PROVE Inv
  OBVIOUS
<1>1. IsFiniteSet(devices)
  BY FS_EmptySet DEF Init
<1>2. Typed
  BY <1>1, ConstantsTyped DEF Init, Typed
<1> QED
  BY <1>2 DEF Init, Inv, MapInv, MatchInv, LeftInv, OutInv, Browsing

(* The event at the head of the channel is of a device, and is the last.   *)
LEMMA HeadOfEvents ==
  ASSUME Typed, events # <<>>
  PROVE /\ Head(events) \in Events /\ Tail(events) = <<>>
        /\ \A d \in Head(events).device : d \in Devices
<1>1. PICK event \in Events : events = <<event>>
  BY DEF Typed
<1>2. Head(events) = event /\ Tail(events) = <<>>
  BY <1>1
<1>3. \A d \in event.device : d \in Devices
  BY DEF Events
<1> QED
  BY <1>1, <1>2, <1>3

LEMMA Replaced ==
  ASSUME NEW S, IsFiniteSet(S), NEW d
  PROVE IsFiniteSet(Replace(S, d))
<1> DEFINE T == {e \in S : e.name # d.name}
<1>1. T \in SUBSET S
  OBVIOUS
<1>2. IsFiniteSet(T)
  BY <1>1, FS_Subset
<1> HIDE DEF T
<1>3. IsFiniteSet(T \cup {d})
  BY <1>2, FS_AddElement
<1> QED
  BY <1>3 DEF Replace, T

-----------------------------------------------------------------------------
(* Every step keeps the invariant.                                         *)

LEMMA TakeDevicePreserves == Inv /\ TakeDevice => Inv'
<1> SUFFICES ASSUME Inv, TakeDevice PROVE Inv'
  OBVIOUS
<1> USE DEF Inv
<1>1. /\ pc = "recv" /\ events # <<>> /\ events' = Tail(events)
      /\ UNCHANGED <<wanted, daemon, until, now, out, result>>
  BY DEF TakeDevice
<1>2. PICK d \in Head(events).device :
        /\ devices' = Replace(devices, d)
        /\ lastNew' = IF d.name \in NameIn(devices) THEN lastNew ELSE now
        /\ heard' = Replace(heard, d)
        /\ heardNew' = IF d.name \in NameIn(heard) THEN heardNew ELSE now
        /\ \/ Matches(d.name) /\ pc' = "report" /\ left' = "found"
           \/ ~Matches(d.name) /\ pc' = "quiet?" /\ UNCHANGED left
  BY DEF TakeDevice, Inserted, Leave
<1>3. d \in Devices /\ Tail(events) = <<>>
  BY <1>1, HeadOfEvents
<1>4. left = "none"
  BY <1>1 DEF Typed, LeftInv
<1>5. \A n : Matches(n)' <=> Matches(n)
  BY <1>1 DEF Matches
<1>6. Typed'
  <2>1. devices' \subseteq Devices
    BY <1>2, <1>3 DEF Typed, Replace
  <2>2. IsFiniteSet(devices')
    BY <1>2, Replaced DEF Typed
  <2>3. lastNew' \in 0..MaxTime /\ events' = <<>>
    BY <1>1, <1>2, <1>3 DEF Typed
  <2> QED
    BY <1>1, <1>2, <1>4, <2>1, <2>2, <2>3 DEF Typed
<1>7. MapInv'
  BY <1>2 DEF MapInv, Replace
<1>8. \A e \in devices : ~Matches(e.name)
  BY <1>1 DEF MatchInv, Browsing
<1>9. d \in devices' /\ \A e \in devices' : e = d \/ ~Matches(e.name)
  BY <1>2, <1>8 DEF Replace
<1>10. MatchInv'
  BY <1>2, <1>5, <1>9 DEF MatchInv, Browsing
<1>11. LeftInv'
  BY <1>2, <1>4, <1>5, <1>9 DEF LeftInv
<1>12. OutInv'
  BY <1>1, <1>2, <1>4 DEF OutInv, Targeted
<1> QED
  BY <1>6, <1>7, <1>10, <1>11, <1>12

LEMMA Preserved == Inv /\ [Next]_vars => Inv'
<1> SUFFICES ASSUME Inv, [Next]_vars PROVE Inv'
  OBVIOUS
<1> USE ConstantsTyped DEF Inv
<1>1. CASE TakeDevice
  BY <1>1, TakeDevicePreserves
<1>2. CASE CheckDeadline
  <2>1. UNCHANGED <<wanted, devices>> /\ until' \in 0..MaxTime
    <3>1. \A t \in 0..MaxTime : Earliest(t + Poll, Timeout) \in 0..MaxTime
      BY DEF Earliest
    <3>2. now \in 0..MaxTime /\ until \in 0..MaxTime
      BY DEF Typed
    <3> QED
      BY <1>2, <3>1, <3>2 DEF CheckDeadline
  <2>2. \A n : Matches(n)' <=> Matches(n)
    BY <2>1 DEF Matches
  <2> QED
    BY <1>2, <2>1, <2>2
    DEF CheckDeadline, DeadlinePassed, Leave, Typed, MapInv, MatchInv, LeftInv, OutInv,
        Browsing, Targeted
<1>3. CASE TakeAddressless \/ TakeOther
  <2>1. events' = <<>>
    BY <1>3, HeadOfEvents DEF TakeAddressless, TakeOther
  <2>2. \A n : Matches(n)' <=> Matches(n)
    BY <1>3 DEF Matches, TakeAddressless, TakeOther
  <2> QED
    BY <1>3, <2>1, <2>2
    DEF TakeAddressless, TakeOther, loopVars, endVars, Typed, MapInv, MatchInv, LeftInv,
        OutInv, Browsing, Targeted
<1>4. CASE ReceiveFails \/ CheckDaemon \/ CheckQuiet \/ StartBrowse \/ ResolveHost
  <2>1. \A n : Matches(n)' <=> Matches(n)
    BY <1>4 DEF Matches, ReceiveFails, CheckDaemon, CheckQuiet, StartBrowse, ResolveHost
  <2>2. UNCHANGED <<wanted, events, daemon, loopVars, now, out>>
    BY <1>4 DEF ReceiveFails, CheckDaemon, CheckQuiet, StartBrowse, ResolveHost, endVars
  <2>3. CASE ReceiveFails
    BY <2>1, <2>2, <2>3
    DEF ReceiveFails, loopVars, endVars, Typed, MapInv, MatchInv, LeftInv, OutInv, Browsing,
        Targeted
  <2>4. CASE CheckDaemon
    <3>1. /\ pc = "dead?" /\ left = "none" /\ result' = result
          /\ \/ pc' = "quiet?" /\ left' = "none"
             \/ pc' = "report" /\ left' = "dead" /\ ~daemon
      BY <2>4 DEF CheckDaemon, Leave, Typed, LeftInv
    <3>2. Typed' /\ MapInv'
      BY <2>2, <3>1 DEF loopVars, Typed, MapInv
    <3>3. MatchInv' /\ LeftInv' /\ OutInv'
      BY <2>1, <2>2, <3>1 DEF loopVars, MatchInv, LeftInv, OutInv, Browsing, Targeted
    <3> QED
      BY <3>2, <3>3
  <2>5. CASE CheckQuiet
    BY <2>1, <2>2, <2>5
    DEF CheckQuiet, QuietEnough, Leave, loopVars, Typed, MapInv, MatchInv, LeftInv, OutInv,
        Browsing, Targeted
  <2>6. CASE StartBrowse
    BY <2>1, <2>2, <2>6
    DEF StartBrowse, loopVars, Typed, MapInv, MatchInv, LeftInv, OutInv, Browsing, Targeted
  <2>7. CASE ResolveHost
    BY <2>1, <2>2, <2>7
    DEF ResolveHost, loopVars, Typed, MapInv, MatchInv, LeftInv, OutInv, Browsing, Targeted
  <2> QED
    BY <1>4, <2>3, <2>4, <2>5, <2>6, <2>7
<1>5. CASE Report
  <2>1. /\ pc = "report" /\ left # "none"
        /\ UNCHANGED <<wanted, events, daemon, loopVars, now, left>>
        /\ out' = {d \in devices : Targeted => Matches(d.name)}
        /\ \/ out' = {} /\ pc' = "done" /\ result' = "none found"
           \/ out' # {} /\ pc' = "pick" /\ UNCHANGED result
    BY <1>5 DEF Report, OutInv
  <2>2. \A n : Matches(n)' <=> Matches(n)
    BY <2>1 DEF Matches
  <2> QED
    BY <2>1, <2>2 DEF loopVars, Typed, MapInv, MatchInv, LeftInv, OutInv, Browsing, Targeted
<1>6. CASE PickDevice
  <2>1. \A n : Matches(n)' <=> Matches(n)
    BY <1>6 DEF Matches, PickDevice
  <2>2. /\ pc = "pick" /\ pc' = "done" /\ result' \in {"selected", "ambiguous"}
        /\ UNCHANGED <<wanted, events, daemon, loopVars, now, out, left>>
    BY <1>6 DEF PickDevice
  <2>3. Targeted => result' = "selected"
    <3> SUFFICES ASSUME Targeted PROVE Cardinality(out) = 1
      BY <1>6 DEF PickDevice
    <3>1. out = {d \in devices : Matches(d.name)} /\ out # {}
      BY <2>2 DEF OutInv
    <3>2. PICK d \in out : TRUE
      BY <3>1
    <3>3. out = {d}
      BY <3>1, <3>2 DEF MatchInv
    <3> QED
      BY <3>3, FS_Singleton
  <2> QED
    BY <2>1, <2>2, <2>3
    DEF loopVars, Typed, MapInv, MatchInv, LeftInv, OutInv, Browsing, Targeted
<1>7. CASE Environment \/ Tick \/ UNCHANGED vars
  <2>1. \A n : Matches(n)' <=> Matches(n)
    BY <1>7 DEF Matches, Environment, Announce, DaemonDies, Tick, vars
  <2>2. CASE Environment
    BY <2>1, <2>2
    DEF Environment, Announce, DaemonDies, loopVars, endVars, Typed, MapInv, MatchInv,
        LeftInv, OutInv, Browsing, Targeted
  <2>3. CASE Tick
    <3>0. /\ Browsing /\ now < MaxTime /\ now' = now + 1
          /\ UNCHANGED <<wanted, events, daemon, pc, loopVars, endVars>>
      BY <2>3 DEF Tick
    <3>1. /\ Browsing /\ now' \in 0..MaxTime /\ left = "none"
          /\ UNCHANGED <<wanted, events, daemon, pc, loopVars, endVars>>
      <4>1. left = "none"
        BY <3>0 DEF LeftInv, Browsing
      <4>2. now' \in 0..MaxTime
        <5>1. now \in 0..MaxTime
          BY DEF Typed
        <5>2. \A t \in 0..MaxTime : t < MaxTime => t + 1 \in 0..MaxTime
          OBVIOUS
        <5> QED
          BY <3>0, <5>1, <5>2
      <4> QED
        BY <3>0, <4>1, <4>2
    <3>2. Typed' /\ MapInv'
      BY <3>1 DEF loopVars, endVars, Typed, MapInv
    <3>3. MatchInv' /\ LeftInv' /\ OutInv'
      BY <2>1, <3>1 DEF loopVars, endVars, MatchInv, LeftInv, OutInv, Browsing, Targeted
    <3> QED
      BY <3>2, <3>3
  <2>4. CASE UNCHANGED vars
    <3>1. Typed' /\ MapInv'
      BY <2>4 DEF vars, loopVars, endVars, Typed, MapInv
    <3>2. MatchInv' /\ LeftInv' /\ OutInv'
      BY <2>1, <2>4
      DEF vars, loopVars, endVars, MatchInv, LeftInv, OutInv, Browsing, Targeted
    <3> QED
      BY <3>1, <3>2
  <2> QED
    BY <1>7, <2>2, <2>3, <2>4
<1> QED
  BY <1>1, <1>2, <1>3, <1>4, <1>5, <1>6, <1>7 DEF Next, Discover

LEMMA Invariance == Spec => []Inv
BY InitInv, Preserved, PTL DEF Spec

-----------------------------------------------------------------------------
(* The theorems.                                                           *)

(* The variables keep their types, and the map has one device a name       *)
(* (discovery.rs:97).                                                      *)
THEOREM TypeCorrect == Spec => []TypeOK
<1>1. ASSUME Inv
      PROVE Cardinality(devices) = Cardinality(NameIn(devices))
  <2> DEFINE f == [d \in devices |-> d.name]
  <2>1. f \in [devices -> NameIn(devices)]
    BY DEF NameIn
  <2>2. f \in Injection(devices, NameIn(devices))
    BY <1>1, <2>1 DEF Inv, MapInv, Injection, IsInjective
  <2>3. f \in Surjection(devices, NameIn(devices))
    BY <2>1 DEF Surjection, NameIn
  <2>4. ExistsBijection(devices, NameIn(devices))
    BY <2>2, <2>3 DEF ExistsBijection, Bijection
  <2> QED
    BY <1>1, <2>4, FS_Bijection DEF Inv, Typed
<1>2. Len(<<>>) <= 1 /\ \A event : Len(<<event>>) <= 1
  OBVIOUS
<1>3. Inv => Len(events) <= 1
  <2>1. Inv => events = <<>> \/ \E event \in Events : events = <<event>>
    BY DEF Inv, Typed
  <2> QED
    BY <1>2, <2>1, Zenon
<1>4. Inv => TypeOK
  <2>1. Inv => {now, lastNew, until} \subseteq 0..MaxTime
    BY DEF Inv, Typed
  <2> QED
    BY <1>1, <1>3, <2>1, Zenon DEF Inv, Typed, TypeOK
<1> QED
  BY <1>4, Invariance, PTL

(* What is reported is what resolved, and a name that was asked for is     *)
(* never ambiguous (discovery.rs:94-103, 129-137).                         *)
THEOREM ReportsTheTruth == Spec => []ReportsWhatResolved
<1>1. Inv => ReportsWhatResolved
  BY DEF Inv, MapInv, OutInv, ReportsWhatResolved
<1> QED
  BY <1>1, Invariance, PTL

(* No search is cut short while the daemon lives (discovery.rs:63, 120).   *)
THEOREM NotCutShort == Spec => []WaitsLongEnough
<1>1. Inv => WaitsLongEnough
  <2> SUFFICES ASSUME Inv, left # "none", daemon,
                      ~(Targeted /\ \E d \in heard : Matches(d.name))
               PROVE now >= Timeout \/ (~Targeted /\ now - heardNew >= Quiet)
    BY DEF WaitsLongEnough
  <2>1. left # "found"
    BY DEF Inv, MapInv, LeftInv, Targeted, Matches
  <2>2. left \in {"deadline", "quiet"}
    BY <2>1 DEF Inv, Typed, LeftInv
  <2> QED
    BY <2>2 DEF Inv, MapInv, LeftInv
<1> QED
  BY <1>1, Invariance, PTL
=============================================================================
