--------------------------- MODULE MCStoragePut ---------------------------
(* Small instances of StoragePut for TLC. *)
EXTENDS StoragePut, TLC

CONSTANTS p1, p2, d1, d2, f1, f2, f3, Limits, KeptCaps, SmartCaps

\* The bodies that send any of the three fields, with values from the sets.
Sent(values) == {[sent |-> TRUE, value |-> v] : v \in values} \cup {[sent |-> FALSE, value |-> Null]}
AllPatches ==
    {[setLimit |-> l.sent, limit |-> l.value, setKept |-> k.sent, kept |-> k.value,
      setSmart |-> m.sent, smart |-> m.value] :
        l \in Sent(Limits), k \in Sent(KeptCaps), m \in Sent(SmartCaps)}

\* Those that send one field, or the limit with the kept cap.
Bodies ==
    {patch \in AllPatches :
        <<patch.setLimit, patch.setKept, patch.setSmart>> \in
            {<<TRUE, FALSE, FALSE>>, <<FALSE, TRUE, FALSE>>, <<FALSE, FALSE, TRUE>>,
             <<TRUE, TRUE, FALSE>>}}

Sizes == f1 :> 3 @@ f2 :> 2 @@ f3 :> 4
\* Two downloads that share a file.
Sharing == d1 :> <<f1, f3>> @@ d2 :> <<f2, f3>>
TwoConfigs == {Null, 5}
=============================================================================
