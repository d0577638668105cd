----------------------------- MODULE GattServer -----------------------------
(***************************************************************************)
(* The GATT server of the device: the NimBLEServer and NimBLEAdvertising   *)
(* objects over the NimBLE host, and the two procedures that both the      *)
(* application's main task and the NimBLE host task run through them,      *)
(* resetGATT() and NimBLEAdvertising::start().  No lock protects the two   *)
(* objects; the host's own state is under the host lock, one call at a     *)
(* time.  DutyCycle says when each task runs what.                         *)
(***************************************************************************)
EXTENDS Naturals, Sequences

Tasks    == {"main", "host"}
Services == {"ENV", "BAT"}   \* EnvironmentService and BatteryService

VARIABLES
    enabled,     \* ble_hs_enabled_state: "off", "on", "stopping"
    good,        \* ble_hs_sync_state is BLE_HS_SYNC_STATE_GOOD; commands to
                 \* the controller fail otherwise
    synced,      \* NimBLEDevice::m_synced
    adv,         \* the host's advertising procedure is active
    link,        \* the one connection: "none", "open", "ending" once the host
                 \* has told the controller to end it, or "lost" and its
                 \* disconnection event not handled yet
    server,      \* the NimBLEServer: exists, and its members peers (there is
                 \* a handle in m_connectedPeersVec), started (m_gattsStarted)
                 \* and changed (m_svcChanged)
    advertiser,  \* the NimBLEAdvertising: "none", "fresh", or "forever" once
                 \* a start has left m_duration = 0
    marked,      \* services with m_removed = NIMBLE_ATT_REMOVE_DELETE
    freed,       \* services deleted
    queued,      \* how often each service is in ble_gatts_svc_defs
    pc, ret,     \* per task: where it is, where a procedure returns to
    failure      \* "none", or why the chip is about to restart

hostVars   == <<enabled, good, synced, adv, link>>
serverVars == <<server, advertiser, marked, freed, queued>>

NoServer == [exists |-> FALSE, peers |-> FALSE, started |-> FALSE, changed |-> FALSE]

Go(t, label) == pc' = [pc EXCEPT ![t] = label]

Call(t, procedure, return) ==
    /\ Go(t, procedure)
    /\ ret' = [ret EXCEPT ![t] = return]

\* Both tasks stop where they are.
Fail(cause) ==
    /\ failure' = cause
    /\ pc' = [t \in Tasks |-> "dead"]
    /\ UNCHANGED <<hostVars, serverVars, ret>>

Other(t) == CHOOSE u \in Tasks : u # t

-----------------------------------------------------------------------------
\* The host.

\* ble_gatts_mutable: the attribute database may change only while the device
\* neither advertises nor is connected.
Mutable == ~adv /\ link = "none"

\* NimBLEService::start: the definition is queued; one that the host does not
\* take, because it is not mutable, is only logged.
ServiceStart(s) ==
    IF ~Mutable THEN queued[s] ELSE IF queued[s] = 0 THEN 1 ELSE 2

\* ble_gap_adv_stop, and the wrappers that ignore its result.
AdvStop == adv' = (adv /\ ~(enabled = "on" /\ good))

\* m_svcVec is a plain vector: a task that walks it while another task erases
\* from it reads freed memory.
Walking(t) == pc[t] \in {"rebuild", "list"}

-----------------------------------------------------------------------------
\* NimBLEServer::resetGATT

ResetCheck(t) ==
    /\ pc[t] = "reset"
    /\ Go(t, IF server.peers THEN ret[t] ELSE "stopAdv")
    /\ UNCHANGED <<hostVars, serverVars, ret, failure>>

ResetStopAdv(t) ==
    /\ pc[t] = "stopAdv"
    /\ AdvStop
    /\ Go(t, "svcInit")
    /\ UNCHANGED <<enabled, good, synced, link, serverVars, ret, failure>>

\* ble_svc_gap_init and ble_svc_gatt_init assert that they could register.
ResetSvcInit(t) ==
    /\ pc[t] = "svcInit"
    /\ IF Mutable
       THEN Go(t, "rebuild") /\ UNCHANGED <<hostVars, serverVars, ret, failure>>
       ELSE Fail("assert")

\* Marked services are deleted, the others started again.
ResetRebuild(t) ==
    /\ pc[t] = "rebuild"
    /\ \/ /\ freed' = freed \cup marked
          /\ queued' = [s \in Services |->
                          IF s \in freed' THEN queued[s] ELSE ServiceStart(s)]
          /\ Go(t, "reset2")
          /\ UNCHANGED <<hostVars, server, advertiser, marked, ret, failure>>
       \/ Walking(Other(t)) /\ Fail("memory")

ResetDone(t) ==
    /\ pc[t] = "reset2"
    /\ server' = [server EXCEPT !.changed = FALSE, !.started = FALSE]
    /\ Go(t, ret[t])
    /\ UNCHANGED <<hostVars, advertiser, marked, freed, queued, ret, failure>>

Reset(t) ==
    ResetCheck(t) \/ ResetStopAdv(t) \/ ResetSvcInit(t) \/ ResetRebuild(t) \/ ResetDone(t)

-----------------------------------------------------------------------------
\* NimBLEAdvertising::start

AdvertiseCheck(t) ==
    /\ pc[t] = "advertise"
    /\ Go(t, IF ~synced THEN ret[t]
             ELSE IF ~server.started THEN "start"
             ELSE IF server.peers THEN ret[t]
             ELSE "advActive")
    /\ UNCHANGED <<hostVars, serverVars, ret, failure>>

\* NimBLEServer::start: ble_gatts_start takes the queued definitions.  It
\* aborts when the host is busy or a service that is not removed is unknown
\* to the host; a definition queued twice, or whose service was deleted, is
\* memory that was freed.
StartGatts(t) ==
    /\ pc[t] = "start"
    /\ IF server.started
       THEN Go(t, "advActive") /\ UNCHANGED <<hostVars, serverVars, ret, failure>>
       ELSE \/ /\ Mutable
               /\ \A s \in Services \ (marked \cup freed) : queued[s] > 0
               /\ queued' = [s \in Services |-> 0]
               /\ Go(t, "list")
               /\ UNCHANGED <<hostVars, server, advertiser, marked, freed, ret, failure>>
            \/ /\ \/ ~Mutable
                  \/ \E s \in Services \ (marked \cup freed) : queued[s] = 0
               /\ Fail("abort")
            \/ /\ \E s \in Services : queued[s] > 1 \/ (queued[s] > 0 /\ s \in freed)
               /\ Fail("memory")

\* ... and lists the characteristics that notify, walking m_svcVec.
StartList(t) ==
    /\ pc[t] = "list"
    /\ \/ /\ server' = [server EXCEPT !.started = TRUE]
          /\ Go(t, "advActive")
          /\ UNCHANGED <<hostVars, advertiser, marked, freed, queued, ret, failure>>
       \/ pc[Other(t)] = "rebuild" /\ Fail("memory")

\* The check for active advertising, m_duration, and the check of
\* ble_gap_adv_start that the host is enabled, made outside the host lock.
AdvertiseActive(t) ==
    /\ pc[t] = "advActive"
    /\ advertiser' = IF adv THEN advertiser ELSE "forever"
    /\ Go(t, IF adv \/ enabled # "on" THEN ret[t] ELSE "advOn")
    /\ UNCHANGED <<hostVars, server, marked, freed, queued, ret, failure>>

\* ble_gap_adv_start under the host lock: refused when active, when there is
\* no room for another connection or when the controller cannot be told.
AdvertiseOn(t) ==
    /\ pc[t] = "advOn"
    /\ adv' = (adv \/ (link = "none" /\ good))
    /\ Go(t, ret[t])
    /\ UNCHANGED <<enabled, good, synced, link, serverVars, ret, failure>>

Advertise(t) ==
    \/ AdvertiseCheck(t) \/ StartGatts(t) \/ StartList(t)
    \/ AdvertiseActive(t) \/ AdvertiseOn(t)
=============================================================================
