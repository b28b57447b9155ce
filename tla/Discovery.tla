----------------------------- MODULE Discovery -----------------------------
(***************************************************************************)
(* discovery.rs, and the part of pipeline.rs and main.rs around it: how    *)
(* the program comes to the one device it casts to.  The mDNS daemon       *)
(* resolves devices in any order and any number of times and may die; the  *)
(* loop gives up after a deadline, after a quiet period, or when the       *)
(* device it wants is found.                                               *)
(*                                                                         *)
(* A friendly name is a word and a spelling of it: two names that differ   *)
(* only in spelling are equal but for the case of their letters.           *)
(***************************************************************************)
EXTENDS Integers, Sequences, FiniteSets

CONSTANTS
  Words, Spellings,
  Addresses,
  Quiet,         (* QUIET, in ticks                                         *)
  Timeout,       (* TIMEOUT of pipeline.rs, in ticks                        *)
  Poll,          (* the 200 ms of recv_timeout, in ticks                    *)
  MaxTime        (* bound: ticks of the clock                               *)

ASSUME DiscoveryAssumption ==
  /\ {Quiet, Timeout, Poll} \subseteq Nat \ {0}
  /\ MaxTime \in Nat /\ Timeout < MaxTime

Names == Words \X Spellings
SameName(a, b) == a[1] = b[1]              \* eq_ignore_ascii_case
Devices == [name : Names, host : Addresses]
Events ==
  [kind : {"device"}, device : {{d} : d \in Devices}]
    \cup [kind : {"no address", "other"}, device : {{}}]

VARIABLES
  wanted,        (* the name after --device: none or one                    *)
  events,        (* the channel of the browse                               *)
  daemon,        (* it still sends there                                    *)
  pc,            (* where the main thread is                                *)
  until,         (* when its recv_timeout gives up                          *)
  devices,       (* its map, as a set with one device a name                *)
  lastNew,       (* its last_new_at                                         *)
  now,
  out,           (* what discover returns                                   *)
  result,        (* how the choice of a device ends                         *)
  heard,         (* the newest address of every name taken from the channel *)
  heardNew,      (* when a name was last taken for the first time           *)
  left           (* why the loop was left                                   *)

loopVars == <<until, devices, lastNew, heard, heardNew>>
endVars == <<out, result, left>>
vars == <<wanted, events, daemon, pc, loopVars, now, endVars>>

Targeted == wanted # {}
Matches(name) == \E w \in wanted : SameName(w, name)
NameIn(set) == {d.name : d \in set}
Replace(set, d) == {e \in set : e.name # d.name} \cup {d}

-----------------------------------------------------------------------------
(* discover.                                                               *)

Leave(why) == pc' = "report" /\ left' = why

StartBrowse ==
  /\ pc = "start"
  /\ \/ pc' = "loop" /\ UNCHANGED result
     \/ pc' = "done" /\ result' = "failed"
  /\ UNCHANGED <<wanted, events, daemon, loopVars, now, out, left>>

(* mutant: the deadline is only looked at when nothing has come *)
DeadlinePassed_WhenIdle == now >= Timeout /\ events = <<>>
DeadlinePassed == now >= Timeout

Earliest(a, b) == IF a <= b THEN a ELSE b

CheckDeadline ==
  /\ pc = "loop"
  /\ IF DeadlinePassed
       THEN Leave("deadline") /\ UNCHANGED until
       ELSE /\ pc' = "recv" /\ until' = Earliest(now + Poll, Timeout)
            /\ UNCHANGED left
  /\ UNCHANGED <<wanted, events, daemon, devices, lastNew, heard, heardNew, now, out,
                 result>>

(* A device that resolved with an IPv4 address and a name.                 *)
(* mutant: the first address of a name is kept *)
Inserted_First(d) == IF d.name \in NameIn(devices) THEN devices ELSE devices \cup {d}
(* mutant: the map is keyed by name and address *)
Inserted_Both(d) == devices \cup {d}
Inserted(d) == Replace(devices, d)

TakeDevice ==
  /\ pc = "recv" /\ events # <<>> /\ Head(events).kind = "device"
  /\ events' = Tail(events)
  /\ \E d \in Head(events).device :
       /\ devices' = Inserted(d)
       /\ lastNew' = IF d.name \in NameIn(devices) THEN lastNew ELSE now
       /\ heard' = Replace(heard, d)
       /\ heardNew' = IF d.name \in NameIn(heard) THEN heardNew ELSE now
       /\ IF Matches(d.name) THEN Leave("found") ELSE pc' = "quiet?" /\ UNCHANGED left
  /\ UNCHANGED <<wanted, daemon, until, now, out, result>>

(* One without an address skips what follows the match.                    *)
TakeAddressless ==
  /\ pc = "recv" /\ events # <<>> /\ Head(events).kind = "no address"
  /\ events' = Tail(events)
  /\ pc' = "loop"
  /\ UNCHANGED <<wanted, daemon, loopVars, now, endVars>>

(* One without a name, and every other kind of event.                      *)
TakeOther ==
  /\ pc = "recv" /\ events # <<>> /\ Head(events).kind = "other"
  /\ events' = Tail(events)
  /\ pc' = "quiet?"
  /\ UNCHANGED <<wanted, daemon, loopVars, now, endVars>>

ReceiveFails ==
  /\ pc = "recv" /\ events = <<>> /\ (now >= until \/ ~daemon)
  /\ pc' = "dead?"
  /\ UNCHANGED <<wanted, events, daemon, loopVars, now, endVars>>

(* What the daemon sent between the time-out and its end is left.          *)
CheckDaemon ==
  /\ pc = "dead?"
  /\ IF daemon THEN pc' = "quiet?" /\ UNCHANGED left ELSE Leave("dead")
  /\ UNCHANGED <<wanted, events, daemon, loopVars, now, out, result>>

(* mutant: a targeted search is cut short as well *)
QuietEnough_Always == now - lastNew >= Quiet
QuietEnough == ~Targeted /\ now - lastNew >= Quiet

CheckQuiet ==
  /\ pc = "quiet?"
  /\ IF QuietEnough THEN Leave("quiet") ELSE pc' = "loop" /\ UNCHANGED left
  /\ UNCHANGED <<wanted, events, daemon, loopVars, now, out, result>>

Report ==
  /\ pc = "report"
  /\ out' = IF Targeted THEN {d \in devices : Matches(d.name)} ELSE devices
  /\ IF out' = {} THEN pc' = "done" /\ result' = "none found"
                  ELSE pc' = "pick" /\ UNCHANGED result
  /\ UNCHANGED <<wanted, events, daemon, loopVars, now, left>>

(* pick_device.                                                            *)
PickDevice ==
  /\ pc = "pick"
  /\ pc' = "done"
  /\ result' = IF Cardinality(out) = 1 THEN "selected" ELSE "ambiguous"
  /\ UNCHANGED <<wanted, events, daemon, loopVars, now, out, left>>

(* run_with_host instead of run: the first IPv4 address of the name.       *)
ResolveHost ==
  /\ pc = "host"
  /\ pc' = "done"
  /\ result' \in {"selected", "none found"}
  /\ UNCHANGED <<wanted, events, daemon, loopVars, now, out, left>>

Discover ==
  \/ StartBrowse \/ CheckDeadline \/ TakeDevice \/ TakeAddressless \/ TakeOther
  \/ ReceiveFails \/ CheckDaemon \/ CheckQuiet \/ Report \/ PickDevice \/ ResolveHost

-----------------------------------------------------------------------------
(* The mDNS daemon (external) and the clock.                               *)

Browsing == pc \in {"loop", "recv", "dead?", "quiet?"}

Announce(event) ==
  /\ Browsing /\ daemon /\ events = <<>>
  /\ events' = <<event>>
  /\ UNCHANGED <<wanted, daemon, pc, loopVars, now, endVars>>

DaemonDies ==
  /\ Browsing /\ daemon
  /\ daemon' = FALSE
  /\ UNCHANGED <<wanted, events, pc, loopVars, now, endVars>>

Tick ==
  /\ Browsing /\ now < MaxTime
  /\ now' = now + 1
  /\ UNCHANGED <<wanted, events, daemon, pc, loopVars, endVars>>

Environment ==
  \/ \E event \in Events : Announce(event)
  \/ DaemonDies

(* --host and --device exclude each other.                                 *)
Init ==
  /\ \/ pc = "start" /\ wanted \in {{}} \cup {{n} : n \in Names}
     \/ pc = "host" /\ wanted = {}
  /\ events = <<>> /\ daemon = TRUE
  /\ until = 0 /\ devices = {} /\ lastNew = 0 /\ now = 0
  /\ out = {} /\ result = "none" /\ left = "none"
  /\ heard = {} /\ heardNew = 0

Next == Discover \/ Environment \/ Tick

(* The main thread is scheduled, and time passes.                          *)
Spec == Init /\ [][Next]_vars /\ WF_vars(Discover) /\ WF_vars(Tick)

-----------------------------------------------------------------------------
(* Properties.                                                             *)

(* Types; the map has one device a name, and a device is selected only     *)
(* when there is exactly one to choose.                                    *)
TypeOK ==
  /\ pc \in {"start", "loop", "recv", "dead?", "quiet?", "report", "pick", "host", "done"}
  /\ devices \subseteq Devices /\ Cardinality(devices) = Cardinality(NameIn(devices))
  /\ {now, lastNew, until} \subseteq 0..MaxTime
  /\ Len(events) <= 1
  /\ left \in {"none", "deadline", "quiet", "found", "dead"}
  /\ result \in {"none", "selected", "ambiguous", "none found", "failed"}

(* What is reported is what resolved, each name once and at its newest     *)
(* address; a name that was asked for is found in any spelling and is      *)
(* never ambiguous (discovery.rs:94-103, 129-137).                        *)
ReportsWhatResolved ==
  pc \in {"pick", "done"} /\ left # "none" =>
    /\ out = {d \in heard : Targeted => Matches(d.name)}
    /\ Targeted => result # "ambiguous"

(* A search is not cut short: one for a name that finds nothing has waited *)
(* for the whole time, one without ends early only after QUIET without a   *)
(* device it did not know, unless the daemon has died                      *)
(* (discovery.rs:63, 120-123).                                             *)
WaitsLongEnough ==
  left # "none" /\ daemon /\ ~(Targeted /\ \E d \in heard : Matches(d.name)) =>
    now >= Timeout \/ (~Targeted /\ now - heardNew >= Quiet)

(* Whatever the daemon sends, however often, discover returns              *)
(* (discovery.rs:73, 93, 112-118).                                        *)
Returns == <>(pc = "done")
=============================================================================
