----------------------------- MODULE MCDevices -----------------------------
(* What a device relies on to be up to date: the stream it follows, and the *)
(* connection whose end tells it to follow again.  An execution is about    *)
(* the changes of the stream, the connections at rest, or about the         *)
(* connections of a device whose stream is quiet.                           *)
EXTENDS MCInboxSync, Connections

VARIABLE subject

devicesVars == <<subject, vars, wireVars>>

DevicesInit == subject \in {"stream", "wire"} /\ Init /\ WireInit

DevicesNext ==
    \/ subject = "stream" /\ DeliveryNext /\ UNCHANGED <<subject, device, wireVars>>
    \/ subject = "wire" /\ WireNext /\ UNCHANGED <<subject, vars>>
    \/ \E d \in Devices :
          (EnsureStream(d) \/ Sync(d)) /\ UNCHANGED <<subject, wireVars>>

DevicesSpec ==
    /\ DevicesInit /\ [][DevicesNext]_devicesVars
    /\ DeliveryFairness /\ SyncFairness /\ WireFairness

=============================================================================
