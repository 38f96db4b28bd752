------------------------------ MODULE Switch2Bt ------------------------------
(***************************************************************************)
(* switch2-bt.c, the C daemon on BlueZ's D-Bus interface: start-up, the    *)
(* attempts to connect and to find the GATT characteristics, and the loop  *)
(* that tries again.  bluetoothd answers each call, or fails it.           *)
(*                                                                         *)
(* A reply of GetManagedObjects is a sequence of objects, an object the    *)
(* sequence of its interfaces, each named by what the code looks for:      *)
(* "adapter", a characteristic by its UUID, "ccc" for a descriptor, or     *)
(* "other".  discover_gatt and adapter_find walk it with nested loops that *)
(* all test the same variable r, which the innermost loop leaves at 0: the *)
(* outer ones end with it.                                                 *)
(*                                                                         *)
(* Success of discover_gatt needs two characteristics, which are two       *)
(* objects, so nothing after it in connect_init is ever reached and the    *)
(* model ends there.                                                       *)
(***************************************************************************)
EXTENDS Naturals, Sequences, SequencesExt

CONSTANTS
    Objects,        \* objects bluetoothd may export, as sequences of interfaces
    MaxObjects,     \* their number in a reply
    Rounds          \* polls of ServicesResolved: 150 in the code

Chars == {"input", "cmd_data"}       \* the characteristics discover_gatt must find

VARIABLES
    pc,             \* the call the program is in; "off" if it does not run
    reply,          \* the last reply of GetManagedObjects
    found,          \* gatt_t: the characteristics whose path is set
    missing,        \* the characteristics the last message called MISSING
    rounds,         \* polls so far
    delay,          \* seconds until the next attempt
    link            \* bluetoothd holds a connection to the controller

vars == <<pc, reply, found, missing, rounds, delay, link>>

Init ==
    /\ pc = "off" /\ reply = <<>> /\ found = {} /\ missing = {}
    /\ rounds = 0 /\ delay = 1 /\ link = FALSE

-----------------------------------------------------------------------------
(* Walking a reply *)

\* What sd_bus_message_enter_container leaves in r at the end of an array: it ends the loop
\* over that array, and is what the loop around it tests next.
EndOfArray == 0

\* The objects whose turn comes: the first, and the later ones if the loop over the
\* interfaces of the one before leaves r positive.
Walked(objs) == {i \in DOMAIN objs : i = 1 \/ EndOfArray > 0}

\* adapter_find reads no properties, so it sees every interface of an object it walks.
adapter_find(objs) == \E i \in Walked(objs) : Contains(objs[i], "adapter")

\* discover_gatt reads the properties of characteristics and descriptors; an interface is
\* seen if no loop over properties before it, in the same object, ended the loop.
SeenIn(obj) ==
    {k \in DOMAIN obj : \A j \in 1 .. k - 1 : obj[j] \in Chars \cup {"ccc"} => EndOfArray > 0}

\* The characteristics that get a path.
discover_gatt(objs) ==
    Chars \cap UNION {{objs[i][k] : k \in SeenIn(objs[i])} : i \in Walked(objs)}

Replies == BoundedSeq(Objects, MaxObjects)

-----------------------------------------------------------------------------
(* main *)

\* adapter_find; "No adapter", like a failed call before it, ends the program.
Start ==
    /\ pc = "off"
    /\ \E objs \in Replies :
         /\ reply' = objs
         /\ pc' = IF adapter_find(objs) THEN "connect" ELSE "off"
    /\ found' = {} /\ missing' = {} /\ rounds' = 0 /\ delay' = 1
    /\ UNCHANGED link

\* sleep, and the delay for the next time.
Reconnect ==
    /\ pc = "sleep" /\ pc' = "connect"
    /\ delay' = IF delay < 30 THEN delay * 2 ELSE delay
    /\ UNCHANGED <<reply, found, missing, rounds, link>>

\* "Connection failed, retrying..."
Failed == pc' = "sleep" /\ rounds' = 0

\* The result of Disconnect is ignored.
bt_disconnect == link' \in {FALSE, link}

\* Until event_loop blocks them, SIGINT and SIGTERM end the process; nothing disconnects.
Signal ==
    /\ pc # "off" /\ pc' = "off"
    /\ UNCHANGED <<reply, found, missing, rounds, delay, link>>

-----------------------------------------------------------------------------
(* connect_init *)

ConnectOk ==
    /\ pc = "connect" /\ pc' = "services" /\ link' = TRUE
    /\ UNCHANGED <<reply, found, missing, rounds, delay>>

ConnectFails ==
    /\ pc = "connect" /\ Failed
    /\ UNCHANGED <<reply, found, missing, delay, link>>

\* wait_services: not yet resolved.
ServicesPoll ==
    /\ pc = "services" /\ rounds < Rounds - 1 /\ rounds' = rounds + 1
    /\ UNCHANGED <<pc, reply, found, missing, delay, link>>

ServicesResolved ==
    /\ pc = "services" /\ link /\ pc' = "discover" /\ rounds' = 0
    /\ UNCHANGED <<reply, found, missing, delay, link>>

\* The last poll, or an error of the property.
ServicesTimeout ==
    /\ pc = "services" /\ Failed /\ bt_disconnect
    /\ UNCHANGED <<reply, found, missing, delay>>

\* GetManagedObjects fails; gatt_t keeps what it had.
DiscoverFails ==
    /\ pc = "discover" /\ Failed /\ bt_disconnect
    /\ UNCHANGED <<reply, found, missing, delay>>

\* gatt_t is cleared and filled from the reply; "Missing GATT chars" unless both are there.
Discover ==
    /\ pc = "discover"
    /\ \E objs \in Replies :
         /\ reply' = objs
         /\ found' = discover_gatt(objs)
    /\ missing' = Chars \ found'
    /\ IF missing' = {} THEN pc' = "open" /\ UNCHANGED <<rounds, link>> ELSE Failed /\ bt_disconnect
    /\ UNCHANGED delay

\* The controller goes away.
LinkLost ==
    /\ link /\ link' = FALSE
    /\ UNCHANGED <<pc, reply, found, missing, rounds, delay>>

Next ==
    \/ Start \/ Reconnect \/ Signal
    \/ ConnectOk \/ ConnectFails
    \/ ServicesPoll \/ ServicesResolved \/ ServicesTimeout
    \/ DiscoverFails \/ Discover
    \/ LinkLost

Spec == Init /\ [][Next]_vars

-----------------------------------------------------------------------------
\* discover_gatt's message "Missing GATT chars: input=%s cmd_data=%s" with "MISSING" says that
\* bluetoothd exports no such characteristic: a characteristic named so is in no object
\* of the reply.
MissingIsTrue ==
    \A ch \in missing : \A i \in DOMAIN reply : ~Contains(reply[i], ch)

=============================================================================
