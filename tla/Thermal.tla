------------------------------- MODULE Thermal -------------------------------
(***************************************************************************)
(* How the thermal HAL answers a call (Thermal.cpp): it lists the entries  *)
(* of /sys/class/thermal, reads file after file of each, and skips what it *)
(* cannot read.  Meanwhile drivers are bound and unbound, so that an entry *)
(* may vanish, or stand for another device, between two reads.             *)
(*                                                                         *)
(* The entries of a kind, "thermal_zone" or "cooling_device", are numbered *)
(* in the order of their names as text.  A device has a type, of which the *)
(* words are told apart, a value ("temp" or "cur_state"; NoNumber where it *)
(* cannot be read) and trip points.                                        *)
(***************************************************************************)
EXTENDS Integers, Selection

CONSTANTS
  Boards,       \* what is in /sys/class/thermal when a call begins ...
  Devices,      \* ... and what may appear of each kind
  Wanted,       \* the types that are asked for, and "any"
  MaxChanges,   \* bound: entries that change during a call
  NotThere,     \* no such entry
  NoNumber,     \* a file that is not a number, or cannot be read
  NoReply

(* Entries are numbered from 1, a trip point has a temperature. *)
ASSUME ThermalAssumption ==
  /\ NoNumber \notin Int
  /\ NotThere \notin Devices.thermal_zone \cup Devices.cooling_device
  /\ Boards \subseteq [thermal_zone   : Seq(Devices.thermal_zone \cup {NotThere}),
                       cooling_device : Seq(Devices.cooling_device \cup {NotThere})]
  /\ \A d \in Devices.thermal_zone : d.trips \in Seq([type : STRING, milli : Int])

Calls == {"getCoolingDevices", "getTemperatures", "getTemperatureThresholds"}
Kind(op) == IF op = "getCoolingDevices" THEN "cooling_device" ELSE "thermal_zone"

VARIABLES
  sysfs,     \* the device behind each entry of each kind
  call,      \* the call that is answered, and how far it has got
  found,     \* what it has found; the field of tells the entry
  reply,     \* the last answer
  steady,    \* the entries that have not changed since the call began
  changes    \* and how many have

thermalVars == <<sysfs, call, found, reply, steady, changes>>

-----------------------------------------------------------------------------
(* The first of the keywords that the name has decides. *)
FirstMatch(keywords, name, default) ==
  LET matches == SelectSeq(keywords, LAMBDA k : k[1] \in ToSet(name))
  IN  IF matches = <<>> THEN default ELSE matches[1][2]

TemperatureTypeFrom(name) ==
  IF name[1] = "cpu" THEN "CPU"
  ELSE FirstMatch(<< <<"gpu", "GPU">>, <<"battery", "BATTERY">>, <<"batt", "BATTERY">>,
                     <<"skin", "SKIN">>, <<"modem", "MODEM">>, <<"display", "DISPLAY">>,
                     <<"wifi", "WIFI">>, <<"camera", "CAMERA">> >>, name, "SOC")

CoolingTypeFrom(name) ==
  FirstMatch(<< <<"cpufreq", "CPU">>, <<"cpu", "CPU">>, <<"gpu", "GPU">>, <<"devfreq", "GPU">>,
                <<"battery", "BATTERY">>, <<"charger", "BATTERY">> >>, name, "COMPONENT")

(* Sysfs has thousandths of a degree; the model's are whole degrees. *)
Celsius(milli) == milli \div 1000

LightSeverity    == 1
ShutdownSeverity == 6
NanThresholds    == [severity \in 0..6 |-> NoNumber]

(* Mutant: the last trip point that throttles counts. *)
WithTripLast(hot, type, celsius) ==
  CASE type = "critical"          -> [hot EXCEPT ![ShutdownSeverity] = celsius]
    [] type \in {"passive", "hot"} -> [hot EXCEPT ![LightSeverity] = celsius]
    [] OTHER                      -> hot

WithTrip(hot, type, celsius) ==
  CASE type = "critical" -> [hot EXCEPT ![ShutdownSeverity] = celsius]
    [] type \in {"passive", "hot"} /\ hot[LightSeverity] = NoNumber
                         -> [hot EXCEPT ![LightSeverity] = celsius]
    [] OTHER             -> hot

Cooling(e, name, state)    == [of |-> e, name |-> name, type |-> CoolingTypeFrom(name), value |-> state]
Temperature(e, name, temp) ==
  [of |-> e, name |-> name, type |-> TemperatureTypeFrom(name), value |-> Celsius(temp)]
Threshold(e, name, hot)    ==
  [of |-> e, name |-> name, type |-> TemperatureTypeFrom(name), hot |-> hot]

-----------------------------------------------------------------------------
Idle == [op |-> "none"]
ThermalInit ==
  /\ sysfs \in Boards /\ call = Idle /\ found = <<>> /\ reply = NoReply
  /\ steady = {} /\ changes = 0

(* listThermalEntries: the names, sorted. *)
ListThermalEntries(kind) ==
  LET there == {e \in DOMAIN sysfs[kind] : sysfs[kind][e] # NotThere}
  IN  Selected([e \in DOMAIN sysfs[kind] |-> e], there)

Begin(op) ==
  /\ call = Idle
  /\ call' = [op   |-> op, entries |-> ListThermalEntries(Kind(op)), step |-> "type", at |-> 1,
              name |-> <<>>, trip |-> 1, milli |-> 0, hot |-> NanThresholds]
  /\ found' = <<>> /\ reply' = NoReply
  /\ steady' = DOMAIN sysfs[Kind(op)] /\ changes' = 0
  /\ UNCHANGED sysfs

Reading(step) == call # Idle /\ call.step = step /\ call.at <= Len(call.entries)
Entry  == call.entries[call.at]
Device == sysfs[Kind(call.op)][Entry]

(* Mutant: the first entry that cannot be read is taken for the end. *)
NextEntryEnds(c) == [c EXCEPT !.step = "type", !.trip = 1, !.hot = NanThresholds, !.milli = 0,
                              !.at = IF Device = NotThere THEN Len(c.entries) + 1 ELSE @ + 1]

NextEntry(c) ==
  [c EXCEPT !.step = "type", !.at = @ + 1, !.trip = 1, !.hot = NanThresholds, !.milli = 0]

ReadType ==
  /\ Reading("type")
  /\ call' = IF Device = NotThere THEN NextEntry(call)
             ELSE [call EXCEPT !.name = Device.name,
                               !.step = IF call.op = "getTemperatureThresholds" THEN "trip"
                                        ELSE "value"]
  /\ UNCHANGED <<sysfs, found, reply, steady, changes>>

(* The temperature of a zone, the state of a cooling device. *)
ReadValue ==
  /\ Reading("value")
  /\ found' = IF Device = NotThere \/ Device.value = NoNumber THEN found
              ELSE Append(found, IF call.op = "getTemperatures"
                                 THEN Temperature(Entry, call.name, Device.value)
                                 ELSE Cooling(Entry, call.name, Device.value))
  /\ call' = NextEntry(call)
  /\ UNCHANGED <<sysfs, reply, steady, changes>>

HasTrip == Device # NotThere /\ call.trip \in DOMAIN Device.trips

(* The trip points end at the first whose temperature cannot be read. *)
ReadTripTemp ==
  /\ Reading("trip")
  /\ IF HasTrip
     THEN /\ call' = [call EXCEPT !.milli = Device.trips[call.trip].milli, !.step = "tripType"]
          /\ UNCHANGED found
     ELSE /\ call' = NextEntry(call)
          /\ found' = Append(found, Threshold(Entry, call.name, call.hot))
  /\ UNCHANGED <<sysfs, reply, steady, changes>>

(* A type that cannot be read stays empty. *)
ReadTripType ==
  /\ Reading("tripType")
  /\ LET type == IF HasTrip THEN Device.trips[call.trip].type ELSE ""
     IN  call' = [call EXCEPT !.hot = WithTrip(@, type, Celsius(call.milli)),
                              !.trip = @ + 1, !.step = "trip"]
  /\ UNCHANGED <<sysfs, found, reply, steady, changes>>

(* The type of a call ...WithType is looked at only in the end. *)
Return(wanted) ==
  /\ call # Idle /\ call.at > Len(call.entries)
  /\ reply' = [op |-> call.op, wanted |-> wanted,
               list |-> Selected(found, {a \in ToSet(found) : wanted \in {"any", a.type}})]
  /\ call' = Idle /\ found' = <<>>
  /\ UNCHANGED <<sysfs, steady, changes>>

(* A driver comes or goes, or another one takes the number of one that went. *)
Hotplug(e, device) ==
  /\ call # Idle /\ changes < MaxChanges
  /\ device # sysfs[Kind(call.op)][e]
  /\ sysfs' = [sysfs EXCEPT ![Kind(call.op)][e] = device]
  /\ steady' = steady \ {e} /\ changes' = changes + 1
  /\ UNCHANGED <<call, found, reply>>

ThermalNext ==
  \/ \E op \in Calls : Begin(op)
  \/ ReadType \/ ReadValue \/ ReadTripTemp \/ ReadTripType
  \/ \E wanted \in Wanted : Return(wanted)
  \/ \E e \in DOMAIN sysfs[Kind(call.op)], device \in Devices[Kind(call.op)] \cup {NotThere} : Hotplug(e, device)
ThermalSpec == ThermalInit /\ [][ThermalNext]_thermalVars

-----------------------------------------------------------------------------
(* What a device that stays in place is to be answered with. *)
Expected(op, e, device) ==
  LET trips     == device.trips
      Of(types) == {i \in DOMAIN trips : trips[i].type \in types}
      light     == Of({"passive", "hot"})
      shutdown  == Of({"critical"})
  IN  CASE op = "getCoolingDevices" -> Cooling(e, device.name, device.value)
        [] op = "getTemperatures"   -> Temperature(e, device.name, device.value)
        [] OTHER -> Threshold(e, device.name,
                      [severity \in 0..6 |->
                         CASE severity = 1 /\ light # {}    -> Celsius(trips[Min(light)].milli)
                           [] severity = 6 /\ shutdown # {} -> Celsius(trips[Max(shutdown)].milli)
                           [] OTHER -> NoNumber])

(* Whatever else comes and goes while a call is answered, a device that stays
   in place is in the answer once, with its own values, unless its value cannot
   be read or another type was asked for; and the answers are in the order of
   the names (getCoolingDevices, getTemperatures, getTemperatureThresholds).  *)
SteadyDevicesAreTold ==
  reply # NoReply =>
    /\ \A i, j \in DOMAIN reply.list : i < j => reply.list[i].of < reply.list[j].of
    /\ \A e \in steady :
         LET device == sysfs[Kind(reply.op)][e]
             told   == {a \in ToSet(reply.list) : a.of = e}
             due    == /\ device # NotThere
                       /\ reply.op = "getTemperatureThresholds" \/ device.value # NoNumber
                       /\ reply.wanted \in {"any", Expected(reply.op, e, device).type}
         IN  told = IF due THEN {Expected(reply.op, e, device)} ELSE {}
=============================================================================
