------------------------------- MODULE MCHost -------------------------------
(* A small instance of every component of Host.                               *)
(*                                                                            *)
(* The snapshots of osm tune are seen at a file that is there or not, fstab,  *)
(* and at one that gpu power-save writes without a snapshot.                  *)
EXTENDS Host

T == INSTANCE TuneDomains

MCFile == {"fstab", "nvidia-pm.conf"}
MCUserFile == MCFile \cap T!FileOfUser
MCCommand == {"storage", "gpu"}
MCHandlerOf == [c \in MCCommand |-> T!Only(MCFile, T!SubactionHandler[c])]

\* Who gives which commands: files that set the same keys, the profile against
\* udev, and the persistence of the hardware settings.
MCPlans ==
  {[u |-> {"network"}, w |-> {"system"}],
   [u |-> {"network"}, w |-> {"scheduler"}],
   [u |-> {"power"}, w |-> {}], [u |-> {"memory"}, w |-> {"revert"}],
   [u |-> {"persist_enable"}, w |-> {"persist_apply", "persist_disable"}]}

MCTheme == <<"gtk">>

\* One call that takes the gateway down, one that wants it up.
MCAction == [c1 |-> {"stop", "restart"}, c2 |-> {"start", "restart", "claude"}]

MCMeminfo == {[MemTotal |-> 8, MemFree |-> 1, SwapTotal |-> 4, SwapFree |-> 3]}
MCLoadavg == {<<1, 1, 1>>}
=============================================================================
