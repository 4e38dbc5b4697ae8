--------------------------- MODULE ThermalCallbacks ---------------------------
(***************************************************************************)
(* The clients of the thermal HAL that want to be told of changes          *)
(* (Thermal.cpp).  Each call runs with the mutex of its list held, in a    *)
(* binder thread.  A call of a remote client comes with a proxy made for   *)
(* it, so that one client may stand in the list as any of several objects. *)
(* The HAL never tells the clients anything, and drops none that has died. *)
(***************************************************************************)
EXTENDS Integers, SequencesExt, Selection

CONSTANTS Callbacks   \* objects: the binder behind each, and whether that is remote

Lists   == {"thermal", "cooling"}   \* thermal_callbacks_, cdev_callbacks_
Binders == {c.binder : c \in Callbacks}

(* An object of this process is the client itself. *)
ASSUME CallbacksAssumption ==
  \A c, d \in Callbacks : c.binder = d.binder => c = d \/ (c.remote /\ d.remote)

VARIABLES
  callbacks,   \* the lists
  told         \* the clients that were told last that they are registered

callbacksVars == <<callbacks, told>>

(* Mutant: objects are compared, also those that are proxies. *)
InterfacesEqualObjects(left, right) == left = right

InterfacesEqual(left, right) ==
  IF left.remote /\ right.remote THEN left.binder = right.binder ELSE left = right

Known(list, c) == \E k \in ToSet(callbacks[list]) : InterfacesEqual(k, c)

CallbacksInit == callbacks = [list \in Lists |-> <<>>] /\ told = [list \in Lists |-> {}]

(* The body of the calls that register; they return an error when the callback
   is known, or null.                                                       *)
Register(list, c) ==
  /\ ~Known(list, c)
  /\ callbacks' = [callbacks EXCEPT ![list] = Append(@, c)]
  /\ told' = [told EXCEPT ![list] = @ \cup {c.binder}]

Unregister(list, c) ==
  /\ Known(list, c)
  /\ callbacks' = [callbacks EXCEPT ![list] = Selected(@, {k \in Callbacks : ~InterfacesEqual(k, c)})]
  /\ told' = [told EXCEPT ![list] = @ \ {c.binder}]

(* With or without a type: it is not looked at, and there is one list. *)
RegisterThermalChangedCallback(c)         == Register("thermal", c)
UnregisterThermalChangedCallback(c)       == Unregister("thermal", c)
RegisterCoolingDeviceChangedCallback(c)   == Register("cooling", c)
UnregisterCoolingDeviceChangedCallback(c) == Unregister("cooling", c)

CallbacksNext ==
  \E c \in Callbacks :
    \/ RegisterThermalChangedCallback(c) \/ UnregisterThermalChangedCallback(c)
    \/ RegisterCoolingDeviceChangedCallback(c) \/ UnregisterCoolingDeviceChangedCallback(c)
CallbacksSpec == CallbacksInit /\ [][CallbacksNext]_callbacksVars

-----------------------------------------------------------------------------
(* A client that was told that it is registered is in the list once, by
   whatever object it calls, until it is told that it is not; and it can always
   be told that (interfacesEqual, unregister...).                           *)
ClientsAreListedOnce ==
  \A list \in Lists, b \in Binders :
    Cardinality({i \in DOMAIN callbacks[list] : callbacks[list][i].binder = b})
      = IF b \in told[list] THEN 1 ELSE 0
=============================================================================
